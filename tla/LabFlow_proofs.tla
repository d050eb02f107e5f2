---------------------------- MODULE LabFlow_proofs ----------------------------
(***************************************************************************)
(* Proofs about one lab session, for every set of assignment ids and every *)
(* value of the limits: its types and its promises; that it can be resumed *)
(* from what it has committed, because what the journal says once the      *)
(* pending writes are made is what the run has in memory; and what rests   *)
(* on that: no work in a lab that is over, work under the SPEC of the plan *)
(* only, a verdict that is the worst recorded gate.                        *)
(***************************************************************************)
EXTENDS LabFlow, SequenceTheorems, TLAPS

USE DEF Pass, NoHard, TestInvalid, Fail, NoGate, GateStates, Decisions, Stages,
        NoResult, NoBrief, NoPlan, Verdicts

-----------------------------------------------------------------------------
(* What the pure functions of the lab flow compute *)

USE DEF GoodGates

\* worst_gate returns a gate of the group, and none of the group is worse by
\* _GATE_RANK; in particular a group of passed gates has passed.
THEOREM WorstGateIsWorst ==
    ASSUME NEW S \in SUBSET GateStates, S # {}
    PROVE  /\ WorstGate(S) \in S
           /\ \A g \in S : GateRank(g) <= GateRank(WorstGate(S))
<1>1. WorstGate(S) \in S
  <2>1. Fail \in S \/ TestInvalid \in S \/ NoHard \in S \/ Pass \in S
    OBVIOUS
  <2>. QED
    BY <2>1 DEF WorstGate
<1>2. ASSUME NEW g \in S
      PROVE  GateRank(g) <= GateRank(WorstGate(S))
  <2>1. GateRank(Pass) = 1 /\ GateRank(NoHard) = 2
        /\ GateRank(TestInvalid) = 3 /\ GateRank(Fail) = 4
    BY DEF GateRank
  <2>2. g \in {Pass, NoHard, TestInvalid, Fail}
    OBVIOUS
  <2>. QED
    BY <2>1, <2>2 DEF WorstGate
<1>. QED
  BY <1>1, <1>2

\* Folding gates one after the other, as a wave and a turn do, gives the worst
\* gate of all of them.
THEOREM WorstGateFolds ==
    ASSUME NEW S \in SUBSET GateStates, NEW T \in SUBSET GateStates, S # {}, T # {}
    PROVE  WorstGate({WorstGate(S), WorstGate(T)}) = WorstGate(S \cup T)
BY DEF WorstGate

\* partition splits a dispatch: every assignment is run, skipped or only judged
\* again, and no assignment is two of these.
THEOREM DispatchIsSplit ==
    ASSUME NEW asg, NEW resumable, NEW executed, NEW gates, NEW tries
    PROVE  LET run == RunOf(asg, resumable, executed, gates, tries)
               skipped == SkippedOf(asg, resumable, executed, gates, tries)
               replayed == ReplayedOf(asg, resumable, executed, gates, tries)
           IN  /\ run \cup skipped \cup replayed = asg
               /\ run \cap skipped = {}
               /\ run \cap replayed = {}
               /\ skipped \cap replayed = {}
BY DEF RunOf, SkippedOf, ReplayedOf

\* sanitize_decision: finish is only let through with its rules satisfied, over
\* no failed gate, and over an invalid one only when no gate can run; takeover
\* never over an invalid gate.
THEOREM FinishIsChecked ==
    ASSUME NEW d \in Decisions, NEW rulesOk \in BOOLEAN,
           NEW gate \in GateStates, NEW stuck \in BOOLEAN
    PROVE  LET e == GateChecked(RulesChecked(d, rulesOk), gate, stuck)
           IN  /\ e \in {d, "continue"}
               /\ e = "finish" =>
                    /\ rulesOk /\ gate # Fail
                    /\ gate = TestInvalid => stuck
               /\ e = "takeover" => gate # TestInvalid
BY DEF GateChecked, RulesChecked

HIDE DEF GoodGates

-----------------------------------------------------------------------------
(* What a session does *)

LEMMA EventsAreEvents ==
    /\ EvBegin \in Events /\ EvInstruction \in Events /\ EvMismatch \in Events
    /\ EvSpec \in Events /\ EvSummary \in Events
    /\ EvHalt \in Events /\ EvDown \in Events
    /\ FileApplied \in Events /\ FileSpec \in Events /\ FileSummary \in Events
BY DEF Events, EvBegin, EvInstruction, EvMismatch, EvSpec, EvSummary, EvHalt, EvDown,
       FileApplied, FileSpec, FileSummary

LEMMA EmptyJournalType == EmptyJournal \in JournalStates
<1>1. /\ [i \in Ids |-> NoGate] \in [Ids -> GateStates \cup {NoGate}]
      /\ [i \in Ids |-> 0] \in [Ids -> Nat]
      /\ [i \in Ids |-> NoBrief] \in [Ids -> GateStates \cup {NoGate, NoBrief}]
  OBVIOUS
<1>. QED
  BY <1>1 DEF EmptyJournal, JournalStates

LEMMA NewPlanType ==
    ASSUME NEW j \in JournalStates
    PROVE  NewPlan(j) \in JournalStates
<1>1. /\ j.begun \in BOOLEAN /\ j.result \in Verdicts \cup {NoResult}
      /\ j.plan + 1 \in Nat /\ j.spec \in Int /\ j.summary \in Int
  BY DEF JournalStates
<1>2. EmptyJournal \in JournalStates
  BY EmptyJournalType
<1>. QED
  BY ZenonT(60), <1>1, <1>2 DEF NewPlan, JournalStates

LEMMA FoldType ==
    ASSUME NEW j \in JournalStates, NEW e \in Events
    PROVE  Fold(j, e) \in JournalStates
<1>. USE DEF JournalStates
<1>1. CASE e.kind = "begin"
  BY <1>1 DEF Fold
<1>2. CASE e.kind = "user_instruction"
  BY <1>2, NewPlanType DEF Fold
<1>3. CASE e.kind = "artifact_mismatch"
  BY <1>3, NewPlanType DEF Fold
<1>4. CASE e.kind = "stage"
  <2>1. e.stage \in Stages /\ e.step \in Nat
    BY <1>4 DEF Events
  <2>. QED
    BY <1>4, <2>1 DEF Fold
<1>5. CASE e.kind = "gate"
  <2>1. e.id \in Ids /\ e.state \in GateStates /\ e.tries \in Nat
    BY <1>5 DEF Events
  <2>. QED
    BY <1>5, <2>1 DEF Fold, FoldGate
<1>6. CASE e.kind = "dispatch"
  <2>1. e.step \in Nat /\ e.asg \in SUBSET Ids /\ e.run \in SUBSET Ids /\ e.replay \in SUBSET Ids
    BY <1>6 DEF Events
  <2>2. [i \in Ids |-> NoBrief] \in [Ids -> GateStates \cup {NoGate, NoBrief}]
    OBVIOUS
  <2>. QED
    BY ZenonT(60), <1>6, <2>1, <2>2 DEF Fold, FoldDispatch
<1>7. CASE e.kind = "brief"
  <2>1. e.id \in Ids /\ e.gate \in GateStates \cup {NoGate}
    BY <1>7 DEF Events
  <2>. QED
    BY <1>7, <2>1 DEF Fold
<1>8. CASE e.kind = "executed"
  <2>1. e.ids \in SUBSET Ids
    BY <1>8 DEF Events
  <2>. QED
    BY <1>8, <2>1 DEF Fold
<1>9. CASE e.kind = "run_gate"
  <2>1. e.state \in GateStates
    BY <1>9 DEF Events
  <2>. QED
    BY <1>9, <2>1 DEF Fold
<1>10. CASE e.kind = "judge"
  <2>1. e.decision \in Decisions
    BY <1>10 DEF Events
  <2>. QED
    BY <1>10, <2>1 DEF Fold
<1>11. CASE e.kind = "effect_record"
  <2>1. e.id \in Ids
    BY <1>11 DEF Events
  <2>. QED
    BY <1>11, <2>1 DEF Fold
<1>12. CASE e.kind = "effect_drop"
  BY <1>12 DEF Fold
<1>13. CASE e.kind = "session_closed"
  <2>1. e.result \in Verdicts
    BY <1>13 DEF Events
  <2>. QED
    BY <1>13, <2>1 DEF Fold
<1>14. CASE e.kind = "submit_spec" \/ e.kind = "submit_summary"
  <2>1. j.plan \in Int
    OBVIOUS
  <2>2. CASE e.kind = "submit_spec"
    BY <2>1, <2>2 DEF Fold
  <2>3. CASE e.kind = "submit_summary"
    BY <2>1, <2>3 DEF Fold
  <2>. QED
    BY <1>14, <2>2, <2>3
<1>15. CASE e.kind = "halt" \/ e.kind = "sandbox_down"
  BY ZenonT(30), <1>15 DEF Fold
<1>16. CASE e.kind \in {"REMEMBER.json", "SPEC.md", "SUMMARY.md"}
  BY <1>16 DEF Fold
<1>17. e.kind \in {"begin", "user_instruction", "artifact_mismatch", "submit_spec",
             "submit_summary", "halt", "sandbox_down", "REMEMBER.json", "SPEC.md",
             "SUMMARY.md", "stage", "executed", "gate", "run_gate", "dispatch", "brief",
             "judge", "effect_record", "effect_drop", "session_closed"}
  BY DEF Events
<1>. QED
  BY <1>1, <1>2, <1>3, <1>4, <1>5, <1>6, <1>7, <1>8, <1>9, <1>10, <1>11, <1>12, <1>13,
     <1>14, <1>15, <1>16, <1>17

-----------------------------------------------------------------------------
(* The writes of a run between its opening and its close. *)

InnerEvents ==
    {e \in Events : e.kind \notin {"begin", "user_instruction", "artifact_mismatch",
                                   "session_closed", "SUMMARY.md"}}

Middle == Places \ {"off", "opening", "replayed", "close", "leave"}

\* The constructors of events that are committed inside a run.
LEMMA InnerConstructors ==
    /\ EvSpec \in InnerEvents /\ EvSummary \in InnerEvents
    /\ EvHalt \in InnerEvents /\ EvDown \in InnerEvents
    /\ FileApplied \in InnerEvents /\ FileSpec \in InnerEvents
    /\ \A s \in Stages, n \in Nat : EvStage(s, n) \in InnerEvents
    /\ \A S \in SUBSET Ids : EvExecuted(S) \in InnerEvents
    /\ \A i \in Ids, g \in GateStates, n \in Nat : EvGate(i, g, n) \in InnerEvents
    /\ \A g \in GateStates : EvRunGate(g) \in InnerEvents
    /\ \A n \in Nat, S \in SUBSET Ids, R \in SUBSET Ids, P \in SUBSET Ids :
          EvDispatch(n, S, R, P) \in InnerEvents
    /\ \A i \in Ids, g \in GateStates \cup {NoGate} : EvBrief(i, g) \in InnerEvents
    /\ \A d \in Decisions : EvJudge(d) \in InnerEvents
    /\ \A i \in Ids : EvRecord(i) \in InnerEvents /\ EvDrop(i) \in InnerEvents
<1>. USE DEF InnerEvents, Events
<1>1. /\ EvSpec \in InnerEvents /\ EvSummary \in InnerEvents
      /\ EvHalt \in InnerEvents /\ EvDown \in InnerEvents
      /\ FileApplied \in InnerEvents /\ FileSpec \in InnerEvents
  BY DEF EvSpec, EvSummary, EvHalt, EvDown, FileApplied, FileSpec
<1>2. \A s \in Stages, n \in Nat : EvStage(s, n) \in InnerEvents
  BY DEF EvStage
<1>3. \A S \in SUBSET Ids : EvExecuted(S) \in InnerEvents
  BY DEF EvExecuted
<1>4. \A i \in Ids, g \in GateStates, n \in Nat : EvGate(i, g, n) \in InnerEvents
  BY DEF EvGate
<1>5. \A g \in GateStates : EvRunGate(g) \in InnerEvents
  BY DEF EvRunGate
<1>6. \A n \in Nat, S \in SUBSET Ids, R \in SUBSET Ids, P \in SUBSET Ids :
          EvDispatch(n, S, R, P) \in InnerEvents
  BY DEF EvDispatch
<1>7. \A i \in Ids, g \in GateStates \cup {NoGate} : EvBrief(i, g) \in InnerEvents
  BY DEF EvBrief
<1>8. \A d \in Decisions : EvJudge(d) \in InnerEvents
  BY DEF EvJudge
<1>9. \A i \in Ids : EvRecord(i) \in InnerEvents /\ EvDrop(i) \in InnerEvents
  BY DEF EvRecord, EvDrop
<1>. HIDE DEF InnerEvents, Events
<1>. QED
  BY <1>1, <1>2, <1>3, <1>4, <1>5, <1>6, <1>7, <1>8, <1>9

\* Short sequences and concatenations of writes.
LEMMA WriteSeqs ==
    ASSUME NEW S
    PROVE  /\ <<>> \in Seq(S)
           /\ \A a \in S : <<a>> \in Seq(S)
           /\ \A a \in S, b \in S : <<a, b>> \in Seq(S)
           /\ \A a \in S, b \in S, c \in S : <<a, b, c>> \in Seq(S)
           /\ \A s \in Seq(S), t \in Seq(S) : s \o t \in Seq(S)
<1>1. /\ <<>> \in Seq(S)
      /\ \A a \in S : <<a>> \in Seq(S)
  OBVIOUS
<1>2. \A a \in S, b \in S : <<a, b>> \in Seq(S)
  OBVIOUS
<1>3. \A a \in S, b \in S, c \in S : <<a, b, c>> \in Seq(S)
  OBVIOUS
<1>4. \A s \in Seq(S), t \in Seq(S) : s \o t \in Seq(S)
  BY ConcatProperties
<1>. QED
  BY <1>1, <1>2, <1>3, <1>4

-----------------------------------------------------------------------------
(* The helpers of the flow keep their types. *)

LEMMA WorstGateType == \A S : WorstGate(S) \in GateStates
BY DEF WorstGate

LEMMA BriefGateType == \A g \in GateStates \cup {NoGate} : BriefGate(g) \in GateStates
BY DEF BriefGate

LEMMA DownedType ==
    ASSUME NEW l \in LabStates
    PROVE  Downed(l) \in LabStates
BY DEF Downed, LabStates

LEMMA DownWritesType ==
    ASSUME NEW l \in LabStates
    PROVE  DownWrites(l) \in Seq(InnerEvents)
<1>1. EvStage("summary", l.step) \in InnerEvents /\ EvDown \in InnerEvents
  BY InnerConstructors DEF LabStates
<1>. QED
  BY <1>1, WriteSeqs DEF DownWrites

LEMMA RecordedType ==
    ASSUME NEW l \in LabStates, NEW i \in Ids, NEW gate \in GateStates
    PROVE  /\ Recorded(l, i, gate) \in LabStates
           /\ GateWrites(l, i, gate) \in Seq(InnerEvents)
<1>1. /\ l.gates \in [Ids -> GateStates \cup {NoGate}]
      /\ l.tries \in [Ids -> Nat]
  BY DEF LabStates
<1>2. (IF gate # TestInvalid THEN 0
       ELSE IF l.tries[i] < MaxGateRuns THEN l.tries[i] + 1 ELSE l.tries[i]) \in Nat
  BY <1>1
<1>3. Recorded(l, i, gate) \in LabStates
  BY <1>1, <1>2 DEF Recorded, LabStates
<1>4. Recorded(l, i, gate).tries[i] \in Nat
  BY <1>3 DEF LabStates
<1>5. EvGate(i, gate, Recorded(l, i, gate).tries[i]) \in InnerEvents
  BY <1>4, InnerConstructors
<1>. QED
  BY <1>3, <1>5, WriteSeqs DEF GateWrites

LEMMA CommittedType ==
    ASSUME NEW l \in LabStates, NEW i \in Ids, NEW gate \in GateStates \cup {NoGate},
           NEW good \in BOOLEAN, NEW prints \in BOOLEAN
    PROVE  /\ Committed(l, i, good, prints, gate) \in LabStates
           /\ CommitWrites(l, i, good, prints, gate) \in Seq(InnerEvents)
<1>1. Ledgered(l, i, good, prints) \in LabStates
  BY DEF Ledgered, LabStates
<1>2. LedgerWrites(l, i, good, prints) \in Seq(InnerEvents)
  BY InnerConstructors, WriteSeqs DEF LedgerWrites
<1>3. <<EvBrief(i, gate)>> \in Seq(InnerEvents)
  BY InnerConstructors, WriteSeqs
<1>4. Committed(l, i, good, prints, gate) \in LabStates
  BY <1>1, RecordedType DEF Committed
<1>5. (IF gate = NoGate THEN <<>> ELSE GateWrites(l, i, gate)) \in Seq(InnerEvents)
  BY RecordedType, WriteSeqs
<1>. QED
  BY <1>2, <1>3, <1>4, <1>5, WriteSeqs DEF CommitWrites

LEMMA RestoredType ==
    ASSUME NEW j \in JournalStates, NEW resume \in BOOLEAN
    PROVE  Restored(j, resume) \in LabStates
<1>1. Idle \in LabStates
  <2>1. /\ [i \in Ids |-> NoGate] \in [Ids -> GateStates \cup {NoGate}]
        /\ [i \in Ids |-> 0] \in [Ids -> Nat]
    OBVIOUS
  <2>. QED
    BY <2>1 DEF Idle, LabStates
<1>2. (IF j.runGate = NoGate THEN NoHard ELSE j.runGate) \in GateStates
  BY DEF JournalStates
<1>. QED
  BY ZenonT(60), <1>1, <1>2 DEF Restored, LabStates, JournalStates

FileStates == [applied : BOOLEAN, spec : {"none", "old", "latest"}, summary : Int]

LEMMA WriteFileType ==
    ASSUME NEW f \in FileStates, NEW j \in JournalStates, NEW e \in Events
    PROVE  WriteFile(f, j, e) \in FileStates
<1>. USE DEF FileStates
<1>1. j.plan \in Int
  BY DEF JournalStates
<1>2. CASE e.kind = "REMEMBER.json"
  BY <1>2 DEF WriteFile
<1>3. CASE e.kind = "SPEC.md"
  BY <1>3 DEF WriteFile
<1>4. CASE e.kind = "SUMMARY.md"
  BY <1>1, <1>4 DEF WriteFile
<1>5. CASE e.kind \in {"submit_spec", "user_instruction", "artifact_mismatch"}
  BY <1>5 DEF WriteFile
<1>6. CASE e.kind \notin {"REMEMBER.json", "SPEC.md", "SUMMARY.md", "submit_spec",
                           "user_instruction", "artifact_mismatch"}
  BY <1>6 DEF WriteFile
<1>. QED
  BY <1>2, <1>3, <1>4, <1>5, <1>6

-----------------------------------------------------------------------------
(* The steps of the coroutine from the end of _begin to the writing of     *)
(* SUMMARY.md: they change LabState and hand writes to Persist.            *)

StateTypes == lab \in LabStates /\ cur \in StepStates

\* The decision is known while the gates are run again.
RegateDecides == at = "regate" => cur.decision \in Decisions

MiddleStep ==
    /\ at \in Middle /\ at' \in Middle
    /\ writes' \in Seq(InnerEvents)
    /\ lab' \in LabStates /\ cur' \in StepStates
    /\ RegateDecides'
    /\ UNCHANGED <<journal, files, drift>>

RememberSteps ==
    \/ RememberSkips \/ RememberDrives \/ RememberSubmits \/ RememberHalts
    \/ RememberLosesSandbox

SpecSteps ==
    SpecSkips \/ SpecReused \/ SpecDrives \/ SpecSubmits \/ SpecHalts \/ SpecLosesSandbox

SummarySteps ==
    WrapUp \/ SummaryReused \/ SummaryDrives \/ SummarySubmits \/ SummaryLosesSandbox

\* The writes every phase is made of.
LEMMA PhaseWrites ==
    ASSUME StateTypes
    PROVE  /\ <<>> \in Seq(InnerEvents)
           /\ DownWrites(lab) \in Seq(InnerEvents)
           /\ \A s \in Stages : /\ EvStage(s, lab.step) \in InnerEvents
                                /\ <<EvStage(s, lab.step)>> \in Seq(InnerEvents)
           /\ Downed(lab) \in LabStates
<1>1. lab.step \in Nat
  BY DEF StateTypes, LabStates
<1>. QED
  BY <1>1, InnerConstructors, WriteSeqs, DownWritesType, DownedType DEF StateTypes

LEMMA RememberIsMiddle ==
    ASSUME StateTypes, RememberSteps
    PROVE  MiddleStep
<1>. USE DEF StateTypes, MiddleStep, RegateDecides, Goto, Middle, Places, Drives
<1>. USE PhaseWrites
<1>1. CASE RememberSkips
  BY <1>1, InnerConstructors, WriteSeqs DEF RememberSkips
<1>2. CASE RememberDrives
  BY <1>2 DEF RememberDrives
<1>3. CASE RememberSubmits
  <2>1. <<FileApplied, EvStage("spec", lab.step)>> \in Seq(InnerEvents)
    BY InnerConstructors, WriteSeqs
  <2>. QED
    BY <1>3, <2>1 DEF RememberSubmits, LabStates
<1>4. CASE RememberHalts
  <2>1. <<EvHalt, FileApplied, EvStage("summary", lab.step)>> \in Seq(InnerEvents)
    BY InnerConstructors, WriteSeqs
  <2>. QED
    BY <1>4, <2>1 DEF RememberHalts, LabStates
<1>5. CASE RememberLosesSandbox
  <2>1. <<FileApplied, EvStage("spec", lab.step)>> \in Seq(InnerEvents)
    BY InnerConstructors, WriteSeqs
  <2>2. DownWrites(lab) \o <<FileApplied, EvStage("spec", lab.step)>> \in Seq(InnerEvents)
    BY <2>1, WriteSeqs
  <2>3. [Downed(lab) EXCEPT !.stage = "spec"] \in LabStates
    BY DEF LabStates
  <2>. QED
    BY <1>5, <2>2, <2>3 DEF RememberLosesSandbox
<1>. QED
  BY <1>1, <1>2, <1>3, <1>4, <1>5 DEF RememberSteps

LEMMA SpecIsMiddle ==
    ASSUME StateTypes, drift \in SUBSET Ids, SpecSteps
    PROVE  MiddleStep
<1>. USE DEF StateTypes, MiddleStep, RegateDecides, Goto, Middle, Places, Drives
<1>. USE PhaseWrites
<1>1. Resumables(lab) \in SUBSET Ids
  BY DEF Resumables, LabStates
<1>2. CASE SpecSkips
  BY <1>2 DEF SpecSkips
<1>3. CASE SpecReused
  <2>1. /\ <<FileSpec, EvStage("advance", lab.step)>> \in Seq(InnerEvents)
        /\ <<FileSpec>> \in Seq(InnerEvents)
    BY InnerConstructors, WriteSeqs
  <2>. QED
    BY <1>1, <1>3, <2>1 DEF SpecReused, LabStates
<1>4. CASE SpecDrives
  BY <1>4 DEF SpecDrives
<1>5. CASE SpecSubmits
  <2>1. <<EvSpec, FileSpec, EvStage("advance", lab.step)>> \in Seq(InnerEvents)
    BY InnerConstructors, WriteSeqs
  <2>. QED
    BY <1>1, <1>5, <2>1 DEF SpecSubmits, LabStates
<1>6. CASE SpecHalts
  <2>1. <<EvHalt, EvStage("summary", lab.step)>> \in Seq(InnerEvents)
    BY InnerConstructors, WriteSeqs
  <2>. QED
    BY <1>6, <2>1 DEF SpecHalts, LabStates
<1>7. CASE SpecLosesSandbox
  <2>1. DownWrites(lab) \o <<EvStage("summary", lab.step)>> \in Seq(InnerEvents)
    BY WriteSeqs
  <2>2. [Downed(lab) EXCEPT !.stage = "summary"] \in LabStates
    BY DEF LabStates
  <2>. QED
    BY <1>7, <2>1, <2>2 DEF SpecLosesSandbox
<1>. QED
  BY <1>2, <1>3, <1>4, <1>5, <1>6, <1>7 DEF SpecSteps

LEMMA SummaryIsMiddle ==
    ASSUME StateTypes, SummarySteps
    PROVE  MiddleStep
<1>. USE DEF StateTypes, MiddleStep, RegateDecides, Goto, Middle, Places, Drives
<1>. USE PhaseWrites
<1>1. CASE WrapUp
  BY <1>1 DEF WrapUp, LabStates
<1>2. CASE SummaryReused
  BY <1>2 DEF SummaryReused
<1>3. CASE SummaryDrives
  BY <1>3 DEF SummaryDrives
<1>4. CASE SummarySubmits
  <2>1. <<EvSummary>> \in Seq(InnerEvents)
    BY InnerConstructors, WriteSeqs
  <2>. QED
    BY <1>4, <2>1 DEF SummarySubmits
<1>5. CASE SummaryLosesSandbox
  BY <1>5 DEF SummaryLosesSandbox
<1>. QED
  BY <1>1, <1>2, <1>3, <1>4, <1>5 DEF SummarySteps

-----------------------------------------------------------------------------
(* The loop over steps. *)

AdvanceSteps ==
    AdvanceStarts \/ AdvanceEnds \/ StepDrivesDispatch \/ StepResumesDecision \/ StepResumesWork

DispatchSteps ==
    \/ DispatchHalts \/ DispatchLosesSandbox \/ DispatchEmpty \/ DispatchRefused
    \/ \E asg \in SUBSET Ids : DispatchSubmits(asg)

WaveSteps ==
    \/ \E i \in Ids, o \in WorkerOutcomes, prints \in BOOLEAN : WorkerReturns(i, o, prints)
    \/ \E i \in Ids : Blocks(i)
    \/ WaveEnds
    \/ \E i \in Ids, gate \in GateResults : ReplayReturns(i, gate)
    \/ \E i \in Ids : ReplayLosesSandbox(i)
    \/ ReplayEnds

JudgeSteps ==
    \/ JudgeHalts \/ JudgeLosesSandbox
    \/ \E decision \in Decisions, rulesOk \in BOOLEAN : JudgeSubmits(decision, rulesOk)
    \/ \E i \in Ids, gate \in GateResults : RegateReturns(i, gate)
    \/ \E i \in Ids : RegateLosesSandbox(i)
    \/ RegateEnds

ApplySteps ==
    \/ ApplyFinish \/ ApplyTakeover \/ ApplyRevision \/ ApplyContinue
    \/ BranchLosesSandbox \/ BranchHalts \/ TakeoverSubmits \/ ReviseSubmits
    \/ StepEnds

LEMMA NoStepType == NoStep \in StepStates
BY DEF NoStep, StepStates

LEMMA BreakType ==
    ASSUME StateTypes, Break
    PROVE  cur' \in StepStates
BY DEF StateTypes, Break, StepStates

LEMMA WaveType ==
    ASSUME NEW step \in StepStates, NEW todo \in SUBSET Ids
    PROVE  /\ Wave(step, todo) \in StepStates
           /\ WhereWave(todo) \in Middle \ {"regate"}
BY DEF Wave, WhereWave, StepStates, Middle, Places, Drives

LEMMA AdvanceIsMiddle ==
    ASSUME StateTypes, journal \in JournalStates, AdvanceSteps
    PROVE  MiddleStep
<1>. USE DEF StateTypes, MiddleStep, RegateDecides, Goto
<1>. USE PhaseWrites, NoStepType
<1>1. /\ {"advance", "step", "wrap_up", "dispatch", "apply"} \subseteq Middle
  BY DEF Middle, Places, Drives
<1>2. CASE AdvanceStarts
  <2>1. lab.step + 1 \in Nat
    BY DEF LabStates
  <2>2. \A n \in Nat : [lab EXCEPT !.revisions = 0, !.pending = n] \in LabStates
    BY DEF LabStates
  <2>. QED
    BY <1>1, <1>2, <2>1, <2>2 DEF AdvanceStarts
<1>3. CASE AdvanceEnds
  BY <1>1, <1>3 DEF AdvanceEnds
<1>4. CASE StepDrivesDispatch
  BY <1>1, <1>4 DEF StepDrivesDispatch, StepGoesOn
<1>5. CASE StepResumesDecision
  <2>1. [NoStep EXCEPT !.asg = journal.asg, !.decision = journal.judge] \in StepStates
    BY DEF StepStates, JournalStates
  <2>. QED
    BY <1>1, <1>5, <2>1 DEF StepResumesDecision, StepGoesOn
<1>6. CASE StepResumesWork
  <2>. DEFINE todo == Missing(journal.run, journal.briefs)
              left == Missing(journal.replay, journal.briefs)
              done == {i \in journal.asg : journal.briefs[i] # NoBrief}
              worst == IF done = {} THEN NoGate
                       ELSE WorstGate({BriefGate(journal.briefs[i]) : i \in done})
              step == [NoStep EXCEPT !.asg = journal.asg, !.replay = left, !.worst = worst]
  <2>1. todo \in SUBSET Ids /\ left \in SUBSET Ids
    BY DEF Missing, JournalStates
  <2>2. worst \in GateStates \cup {NoGate}
    BY WorstGateType
  <2>3. journal.asg \in SUBSET Ids
    BY DEF JournalStates
  <2>. HIDE DEF worst, todo, left
  <2>4. step \in StepStates
    BY <2>1, <2>2, <2>3 DEF StepStates
  <2>5. Wave(step, todo) \in StepStates /\ WhereWave(todo) \in Middle \ {"regate"}
    BY <2>1, <2>4, WaveType
  <2>6. /\ cur' = Wave(step, todo) /\ at' = WhereWave(todo) /\ writes' = <<>> /\ at = "step"
        /\ UNCHANGED <<journal, files, drift, lab>>
    BY <1>6 DEF StepResumesWork, StepGoesOn, worst, todo, left
  <2>. QED
    BY <1>1, <2>5, <2>6
<1>. QED
  BY <1>2, <1>3, <1>4, <1>5, <1>6 DEF AdvanceSteps

LEMMA DispatchIsMiddle ==
    ASSUME StateTypes, DispatchSteps
    PROVE  MiddleStep
<1>. USE DEF StateTypes, MiddleStep, RegateDecides, Goto
<1>. USE PhaseWrites, BreakType
<1>1. {"dispatch", "step_end"} \subseteq Middle
  BY DEF Middle, Places, Drives
<1>2. CASE DispatchHalts
  <2>1. <<EvHalt>> \in Seq(InnerEvents)
    BY InnerConstructors, WriteSeqs
  <2>2. [lab EXCEPT !.halt = TRUE] \in LabStates
    BY DEF LabStates
  <2>. QED
    BY <1>1, <1>2, <2>1, <2>2 DEF DispatchHalts
<1>3. CASE DispatchLosesSandbox
  BY <1>1, <1>3 DEF DispatchLosesSandbox
<1>4. CASE DispatchEmpty
  BY <1>1, <1>4 DEF DispatchEmpty, StepStates
<1>5. CASE DispatchRefused
  BY <1>1, <1>5 DEF DispatchRefused
<1>6. ASSUME NEW asg \in SUBSET Ids, DispatchSubmits(asg)
      PROVE  MiddleStep
  <2>. DEFINE run == RunOf(asg, lab.resumable, lab.executed, lab.gates, lab.tries)
              replay == ReplayedOf(asg, lab.resumable, lab.executed, lab.gates, lab.tries)
              executed == lab.executed \cup (asg \ lab.resumable)
              step == [NoStep EXCEPT !.asg = asg, !.replay = replay]
  <2>1. run \in SUBSET Ids /\ replay \in SUBSET Ids
    BY DEF RunOf, ReplayedOf
  <2>2. executed \in SUBSET Ids /\ lab.resumable \ asg \in SUBSET Ids /\ lab.step + 1 \in Nat
    BY DEF LabStates
  <2>. HIDE DEF run, replay, executed
  <2>3. [lab EXCEPT !.resumable = @ \ asg, !.executed = executed] \in LabStates
    BY <2>2 DEF LabStates
  <2>4. step \in StepStates
    BY <2>1, NoStepType DEF StepStates
  <2>5. Wave(step, run) \in StepStates /\ WhereWave(run) \in Middle \ {"regate"}
    BY <2>1, <2>4, WaveType
  <2>6. DispatchWrites(lab.step + 1, asg, run, replay, executed) \in Seq(InnerEvents)
    <3>1. EvDispatch(lab.step + 1, asg, run, replay) \in InnerEvents
      BY <2>1, <2>2, InnerConstructors
    <3>2. EvExecuted(executed) \in InnerEvents
      BY <2>2, InnerConstructors
    <3>. QED
      BY <3>1, <3>2, WriteSeqs DEF DispatchWrites
  <2>7. /\ at = "dispatch"
        /\ lab' = [lab EXCEPT !.resumable = @ \ asg, !.executed = executed]
        /\ UNCHANGED <<journal, files, drift>>
        /\ \/ at' = "step_end" /\ writes' = <<>> /\ cur' = cur
           \/ /\ cur' = Wave(step, run) /\ at' = WhereWave(run)
              /\ writes' = DispatchWrites(lab.step + 1, asg, run, replay, executed)
    BY <1>6 DEF DispatchSubmits, run, replay, executed
  <2>. QED
    BY <1>1, <2>3, <2>5, <2>6, <2>7
<1>. QED
  BY <1>2, <1>3, <1>4, <1>5, <1>6 DEF DispatchSteps

LEMMA WorseType == \A g, h : Worse(g, h) \in GateStates
BY WorstGateType DEF Worse

LEMMA ResultsAreGates == GateResults \subseteq GateStates
BY DEF GateResults, GateOf

LEMMA WaveIsMiddle ==
    ASSUME StateTypes, WaveSteps
    PROVE  MiddleStep
<1>. USE DEF StateTypes, MiddleStep, RegateDecides, Goto
<1>. USE PhaseWrites, BreakType
<1>1. {"wave", "blocking", "takeover", "replay_gates", "judge", "step_end"} \subseteq Middle
  BY DEF Middle, Places, Drives
<1>2. \A i \in Ids, g \in GateStates : EvBrief(i, g) \in InnerEvents
  BY InnerConstructors
<1>3. ASSUME NEW i \in Ids, NEW o \in WorkerOutcomes, NEW prints \in BOOLEAN,
             WorkerReturns(i, o, prints)
      PROVE  MiddleStep
  <2>. DEFINE good == o.done /\ o.gate \in GoodGates
  <2>1. o.gate \in GateStates \cup {NoGate} /\ good \in BOOLEAN
    BY ResultsAreGates DEF WorkerOutcomes
  <2>2. /\ Committed(lab, i, good, prints, o.gate) \in LabStates
        /\ CommitWrites(lab, i, good, prints, o.gate) \in Seq(InnerEvents)
    BY <2>1, CommittedType
  <2>3. [cur EXCEPT !.todo = @ \ {i}, !.worst = Worse(@, BriefGate(o.gate)),
                    !.flags = @ \cup ({o.flag} \cap Flags)] \in StepStates
    BY WorseType DEF StepStates
  <2>. QED
    BY <1>1, <1>3, <2>2, <2>3 DEF WorkerReturns
<1>4. ASSUME NEW i \in Ids, Blocks(i)
      PROVE  MiddleStep
  <2>1. /\ Committed(lab, i, FALSE, FALSE, NoGate) \in LabStates
        /\ CommitWrites(lab, i, FALSE, FALSE, NoGate) \in Seq(InnerEvents)
    BY CommittedType
  <2>2. [cur EXCEPT !.todo = @ \ {i}, !.worst = Worse(@, NoHard)] \in StepStates
    BY WorseType DEF StepStates
  <2>. QED
    BY <1>1, <1>4, <2>1, <2>2 DEF Blocks
<1>5. CASE WaveEnds
  <2>. DEFINE invalid == "spec_invalid" \in cur.flags
  <2>1. invalid \in BOOLEAN
    OBVIOUS
  <2>. HIDE DEF invalid
  <2>2. [cur EXCEPT !.specInvalid = invalid, !.write = FALSE] \in StepStates
    BY <2>1 DEF StepStates
  <2>. QED
    BY <1>1, <1>5, <2>2 DEF WaveEnds, invalid
<1>6. ASSUME NEW i \in Ids, NEW gate \in GateStates, ReplayReturns(i, gate)
      PROVE  MiddleStep
  <2>1. GateWrites(lab, i, gate) \o <<EvBrief(i, gate)>> \in Seq(InnerEvents)
    BY <1>2, RecordedType, WriteSeqs
  <2>2. [cur EXCEPT !.replay = @ \ {i}, !.worst = Worse(@, gate)] \in StepStates
    BY WorseType DEF StepStates
  <2>. QED
    BY <1>1, <1>6, <2>1, <2>2, RecordedType DEF ReplayReturns
<1>7. ASSUME NEW i \in Ids, ReplayLosesSandbox(i)
      PROVE  MiddleStep
  <2>. DEFINE l == Recorded(lab, i, TestInvalid)
  <2>1. l \in LabStates /\ GateWrites(lab, i, TestInvalid) \in Seq(InnerEvents)
    BY RecordedType
  <2>. HIDE DEF l
  <2>2. Downed(l) \in LabStates /\ DownWrites(l) \in Seq(InnerEvents)
    BY <2>1, DownedType, DownWritesType
  <2>3. GateWrites(lab, i, TestInvalid) \o <<EvBrief(i, TestInvalid)>> \o DownWrites(l)
          \in Seq(InnerEvents)
    BY <1>2, <2>1, <2>2, WriteSeqs
  <2>4. /\ at = "replay_gates" /\ at' = "step_end" /\ lab' = Downed(l) /\ Break
        /\ writes' = GateWrites(lab, i, TestInvalid) \o <<EvBrief(i, TestInvalid)>>
                       \o DownWrites(l)
        /\ UNCHANGED <<journal, files, drift>>
    BY <1>7 DEF ReplayLosesSandbox, l
  <2>. QED
    BY <1>1, <2>2, <2>3, <2>4
<1>8. CASE ReplayEnds
  <2>. DEFINE gate == WorstGate({cur.worst})
  <2>1. gate \in GateStates
    BY WorstGateType
  <2>. HIDE DEF gate
  <2>2. /\ [lab EXCEPT !.runGate = gate] \in LabStates
        /\ [cur EXCEPT !.worst = gate] \in StepStates
    BY <2>1 DEF LabStates, StepStates
  <2>3. <<EvRunGate(gate)>> \in Seq(InnerEvents)
    BY <2>1, InnerConstructors, WriteSeqs
  <2>. QED
    BY <1>1, <1>8, <2>2, <2>3 DEF ReplayEnds, gate
<1>. QED
  BY <1>3, <1>4, <1>5, <1>6, <1>7, <1>8, ResultsAreGates DEF WaveSteps

LEMMA DecisionType ==
    /\ \A d \in Decisions : \A ok : RulesChecked(d, ok) \in Decisions
    /\ \A d \in Decisions : \A gate, stuck : GateChecked(d, gate, stuck) \in Decisions
BY DEF RulesChecked, GateChecked

LEMMA JudgeIsMiddle ==
    ASSUME StateTypes, JudgeSteps, RegateDecides
    PROVE  MiddleStep
<1>. USE DEF StateTypes, MiddleStep, RegateDecides, Goto
<1>. USE PhaseWrites, BreakType
<1>1. {"judge", "regate", "apply", "step_end"} \subseteq Middle
  BY DEF Middle, Places, Drives
<1>2. CASE JudgeHalts
  <2>1. <<EvHalt>> \in Seq(InnerEvents)
    BY InnerConstructors, WriteSeqs
  <2>2. [lab EXCEPT !.halt = TRUE] \in LabStates
    BY DEF LabStates
  <2>. QED
    BY <1>1, <1>2, <2>1, <2>2 DEF JudgeHalts
<1>3. CASE JudgeLosesSandbox
  BY <1>1, <1>3 DEF JudgeLosesSandbox
<1>4. ASSUME NEW decision \in Decisions, NEW rulesOk \in BOOLEAN,
             JudgeSubmits(decision, rulesOk)
      PROVE  MiddleStep
  <2>. DEFINE d == RulesChecked(decision, rulesOk)
              decided == Decided(lab, d, cur.worst)
  <2>1. d \in Decisions
    BY DecisionType
  <2>2. decided \in Decisions
    BY <2>1, DecisionType DEF Decided
  <2>. HIDE DEF d, decided
  <2>3. /\ [cur EXCEPT !.decision = decided] \in StepStates
        /\ [cur EXCEPT !.decision = d, !.regate = cur.asg, !.worst = NoGate] \in StepStates
    BY ZenonT(60), <2>1, <2>2 DEF StepStates
  <2>4. <<EvJudge(decided)>> \in Seq(InnerEvents)
    BY <2>2, InnerConstructors, WriteSeqs
  <2>5. /\ at = "judge" /\ UNCHANGED <<journal, files, drift, lab>>
        /\ \/ /\ cur' = [cur EXCEPT !.decision = d, !.regate = cur.asg, !.worst = NoGate]
              /\ at' = "regate" /\ writes' = <<>>
           \/ /\ cur' = [cur EXCEPT !.decision = decided]
              /\ at' = "apply" /\ writes' = <<EvJudge(decided)>>
    BY <1>4 DEF JudgeSubmits, d, decided
  <2>6. cur'.decision = IF at' = "regate" THEN d ELSE decided
    BY <2>5 DEF StepStates
  <2>. QED
    BY <1>1, <2>1, <2>3, <2>4, <2>5, <2>6
<1>5. ASSUME NEW i \in Ids, NEW gate \in GateStates, RegateReturns(i, gate)
      PROVE  MiddleStep
  <2>1. [cur EXCEPT !.regate = @ \ {i}, !.worst = Worse(@, gate)] \in StepStates
    BY WorseType DEF StepStates
  <2>2. at = "regate" /\ cur'.decision = cur.decision
    BY <1>5 DEF RegateReturns, StepStates
  <2>. QED
    BY <1>1, <1>5, <2>1, <2>2, RecordedType DEF RegateReturns
<1>6. ASSUME NEW i \in Ids, RegateLosesSandbox(i)
      PROVE  MiddleStep
  <2>. DEFINE l == Recorded(lab, i, TestInvalid)
  <2>1. l \in LabStates /\ GateWrites(lab, i, TestInvalid) \in Seq(InnerEvents)
    BY RecordedType
  <2>. HIDE DEF l
  <2>2. Downed(l) \in LabStates /\ DownWrites(l) \in Seq(InnerEvents)
    BY <2>1, DownedType, DownWritesType
  <2>3. GateWrites(lab, i, TestInvalid) \o DownWrites(l) \in Seq(InnerEvents)
    BY <2>1, <2>2, WriteSeqs
  <2>4. /\ at = "regate" /\ at' = "step_end" /\ lab' = Downed(l) /\ Break
        /\ writes' = GateWrites(lab, i, TestInvalid) \o DownWrites(l)
        /\ UNCHANGED <<journal, files, drift>>
    BY <1>6 DEF RegateLosesSandbox, l
  <2>. QED
    BY <1>1, <2>2, <2>3, <2>4
<1>7. CASE RegateEnds
  <2>. DEFINE gate == WorstGate({cur.worst})
              decided == Decided(lab, cur.decision, gate)
  <2>1. cur.decision \in Decisions /\ gate \in GateStates
    BY <1>7, WorstGateType DEF RegateEnds
  <2>2. decided \in Decisions
    BY <2>1, DecisionType DEF Decided
  <2>3. /\ at = "regate" /\ at' = "apply" /\ writes' = <<EvJudge(decided)>>
        /\ lab' = [lab EXCEPT !.runGate = gate]
        /\ cur' = [cur EXCEPT !.decision = decided, !.worst = gate]
        /\ UNCHANGED <<journal, files, drift>>
    BY <1>7 DEF RegateEnds
  <2>. HIDE DEF gate, decided
  <2>4. <<EvJudge(decided)>> \in Seq(InnerEvents)
    BY <2>2, InnerConstructors, WriteSeqs
  <2>5. [cur EXCEPT !.decision = decided, !.worst = gate] \in StepStates
    BY <2>1, <2>2 DEF StepStates
  <2>6. [lab EXCEPT !.runGate = gate] \in LabStates
    BY <2>1 DEF LabStates
  <2>. QED
    BY <1>1, <2>3, <2>4, <2>5, <2>6
<1>. QED
  BY <1>2, <1>3, <1>4, <1>5, <1>6, <1>7, ResultsAreGates DEF JudgeSteps

LEMMA ApplyIsMiddle ==
    ASSUME StateTypes, ApplySteps
    PROVE  MiddleStep
<1>. USE DEF StateTypes, MiddleStep, RegateDecides, Goto
<1>. USE PhaseWrites, BreakType, NoStepType
<1>1. {"apply", "takeover", "revise_spec", "step_end", "step", "wrap_up"} \subseteq Middle
  BY DEF Middle, Places, Drives
<1>2. <<EvHalt>> \in Seq(InnerEvents) /\ <<EvSpec, FileSpec>> \in Seq(InnerEvents)
  BY InnerConstructors, WriteSeqs
<1>3. CASE ApplyFinish
  BY <1>1, <1>3 DEF ApplyFinish
<1>4. CASE ApplyTakeover
  BY <1>1, <1>4 DEF ApplyTakeover
<1>5. CASE ApplyRevision
  <2>. DEFINE more == lab.revisions + 1
  <2>0. more \in Nat
    BY DEF LabStates
  <2>. HIDE DEF more
  <2>1. [lab EXCEPT !.revisions = more] \in LabStates
    BY <2>0 DEF LabStates
  <2>. QED
    BY <1>1, <1>5, <2>1 DEF ApplyRevision, more
<1>6. CASE ApplyContinue
  BY <1>1, <1>6 DEF ApplyContinue
<1>7. CASE BranchLosesSandbox
  BY <1>1, <1>7 DEF BranchLosesSandbox
<1>8. CASE BranchHalts
  <2>1. [lab EXCEPT !.halt = TRUE] \in LabStates
    BY DEF LabStates
  <2>. QED
    BY <1>1, <1>2, <1>8, <2>1 DEF BranchHalts
<1>9. CASE TakeoverSubmits
  BY <1>1, <1>9 DEF TakeoverSubmits
<1>10. CASE ReviseSubmits
  BY <1>1, <1>2, <1>10 DEF ReviseSubmits
<1>11. CASE StepEnds
  <2>. DEFINE l == StepCounted(lab)
  <2>. DEFINE more == lab.step + 1
  <2>0. more \in Nat
    BY DEF LabStates
  <2>1. l \in LabStates
    <3>. HIDE DEF more
    <3>1. [lab EXCEPT !.step = more] \in LabStates
      BY <2>0 DEF LabStates
    <3>. QED
      BY <3>1 DEF StepCounted, more
  <2>2. l.stage \in Stages /\ l.step \in Nat
    BY <2>1 DEF LabStates
  <2>. HIDE DEF l
  <2>3. /\ <<EvStage(l.stage, l.step), EvStage("summary", l.step)>> \in Seq(InnerEvents)
        /\ <<EvStage(l.stage, l.step)>> \in Seq(InnerEvents)
    BY <2>2, InnerConstructors, WriteSeqs
  <2>4. [l EXCEPT !.stage = "summary"] \in LabStates
    BY <2>1 DEF LabStates
  <2>5. /\ at = "step_end" /\ cur' = NoStep /\ UNCHANGED <<journal, files, drift>>
        /\ \/ /\ lab' = [l EXCEPT !.stage = "summary"] /\ at' = "wrap_up"
              /\ writes' = <<EvStage(l.stage, l.step), EvStage("summary", l.step)>>
           \/ /\ lab' = l /\ at' = "step"
              /\ writes' = <<EvStage(l.stage, l.step)>>
    BY <1>11 DEF StepEnds, l
  <2>. QED
    BY <1>1, <2>1, <2>3, <2>4, <2>5
<1>. QED
  BY <1>3, <1>4, <1>5, <1>6, <1>7, <1>8, <1>9, <1>10, <1>11 DEF ApplySteps

-----------------------------------------------------------------------------
(* The invariant: types, what a run has still to write at each place, and  *)
(* what the journal and SUMMARY.md say of each other.                      *)

WritesInv ==
    /\ at = "off" => writes = <<>>
    /\ at = "opening" => \/ writes = <<>> /\ journal.begun
                         \/ writes = <<EvBegin>> /\ ~journal.begun
                         \/ writes = <<EvInstruction>> /\ journal.begun
    /\ at = "replayed" => writes \in {<<>>, <<EvMismatch>>}
    /\ at \in Middle => writes \in Seq(InnerEvents)
    /\ at = "close" => \/ writes = <<FileSummary>>
                       \/ writes = <<>> /\ files.summary = journal.plan
    /\ at = "leave" => \/ writes = <<>>
                       \/ /\ \E v \in Verdicts : writes = <<EvClosed(v)>>
                          /\ journal.result = NoResult
                          /\ files.summary = journal.plan

SessionInv ==
    /\ at \notin {"off", "opening"} => journal.begun
    /\ journal.result # NoResult => /\ journal.begun
                                    /\ files.summary = journal.plan
                                    /\ at \in {"off", "leave"}
    /\ files.summary <= journal.plan

FlowInv == TypeOK /\ RegateDecides /\ WritesInv /\ SessionInv

LEMMA InnerSeqs == Seq(InnerEvents) \subseteq Seq(Events)
BY DEF InnerEvents

LEMMA TailType ==
    ASSUME NEW S, NEW s \in Seq(S), s # <<>>
    PROVE  Head(s) \in S /\ Tail(s) \in Seq(S)
OBVIOUS

\* What is committed inside a run leaves the session and the report alone.
LEMMA InnerFold ==
    ASSUME NEW j \in JournalStates, NEW f \in FileStates, NEW e \in InnerEvents
    PROVE  /\ Fold(j, e).begun = j.begun /\ Fold(j, e).result = j.result
           /\ Fold(j, e).plan = j.plan
           /\ WriteFile(f, j, e).summary = f.summary
<1>1. /\ e \in Events
      /\ e.kind \notin {"begin", "user_instruction", "artifact_mismatch",
                        "session_closed", "SUMMARY.md"}
  BY DEF InnerEvents
<1>2. /\ Fold(j, e).begun = j.begun /\ Fold(j, e).result = j.result
      /\ Fold(j, e).plan = j.plan
  BY <1>1 DEF Fold, FoldGate, FoldDispatch, JournalStates
<1>3. WriteFile(f, j, e).summary = f.summary
  BY <1>1 DEF WriteFile, FileStates
<1>. QED
  BY <1>2, <1>3

LEMMA InvInit == Init => FlowInv
<1>. SUFFICES ASSUME Init PROVE FlowInv
  OBVIOUS
<1>1. Idle \in LabStates
  <2>1. /\ [i \in Ids |-> NoGate] \in [Ids -> GateStates \cup {NoGate}]
        /\ [i \in Ids |-> 0] \in [Ids -> Nat]
    OBVIOUS
  <2>. QED
    BY <2>1 DEF Idle, LabStates
<1>2. TypeOK
  BY <1>1, EmptyJournalType, NoStepType, WriteSeqs DEF Init, TypeOK, Places
<1>3. RegateDecides
  BY DEF Init, RegateDecides
<1>4. WritesInv
  BY DEF Init, WritesInv, Middle
<1>5. SessionInv
  BY DEF Init, SessionInv, EmptyJournal
<1>. QED
  BY <1>2, <1>3, <1>4, <1>5 DEF FlowInv

LEMMA IdleType == Idle \in LabStates
<1>1. /\ [i \in Ids |-> NoGate] \in [Ids -> GateStates \cup {NoGate}]
      /\ [i \in Ids |-> 0] \in [Ids -> Nat]
  OBVIOUS
<1>. QED
  BY <1>1 DEF Idle, LabStates

\* What Persist does to the types.
LEMMA PersistTypes ==
    ASSUME TypeOK, Persist
    PROVE  /\ TypeOK'
           /\ Head(writes) \in Events
           /\ journal' = Fold(journal, Head(writes))
           /\ files' = WriteFile(files, journal, Head(writes))
           /\ writes' = Tail(writes)
           /\ UNCHANGED <<at, lab, cur>>
<1>1. Head(writes) \in Events /\ Tail(writes) \in Seq(Events)
  BY TailType DEF TypeOK, Persist
<1>2. Fold(journal, Head(writes)) \in JournalStates
  BY <1>1, FoldType DEF TypeOK
<1>3. WriteFile(files, journal, Head(writes)) \in FileStates
  BY <1>1, WriteFileType DEF TypeOK, FileStates
<1>4. drift' \in SUBSET Ids
  BY <1>2 DEF Persist, TypeOK
<1>5. /\ journal' = Fold(journal, Head(writes))
      /\ files' = WriteFile(files, journal, Head(writes))
      /\ writes' = Tail(writes)
      /\ UNCHANGED <<at, lab, cur>>
  BY DEF Persist
<1>. QED
  BY <1>1, <1>2, <1>3, <1>4, <1>5 DEF TypeOK, FileStates

LEMMA PersistInner ==
    ASSUME FlowInv, Persist, at \in Middle
    PROVE  /\ FlowInv'
           /\ UNCHANGED <<journal.begun, journal.result, journal.plan, files.summary>>
<1>. DEFINE e == Head(writes)
<1>1. writes \in Seq(InnerEvents) /\ writes # <<>>
  BY DEF FlowInv, WritesInv, Persist
<1>2. e \in InnerEvents /\ Tail(writes) \in Seq(InnerEvents)
  BY <1>1, TailType
<1>3. /\ TypeOK' /\ journal' = Fold(journal, e) /\ files' = WriteFile(files, journal, e)
      /\ writes' = Tail(writes) /\ UNCHANGED <<at, lab, cur>>
  BY PersistTypes DEF FlowInv
<1>4. journal \in JournalStates /\ files \in FileStates
  BY DEF FlowInv, TypeOK, FileStates
<1>5. UNCHANGED <<journal.begun, journal.result, journal.plan, files.summary>>
  BY <1>2, <1>3, <1>4, InnerFold
<1>6. at \notin {"off", "opening", "replayed", "close", "leave"}
  BY DEF Middle
<1>7. WritesInv'
  BY <1>2, <1>3, <1>6 DEF WritesInv
<1>8. SessionInv'
  BY <1>3, <1>5, <1>6 DEF FlowInv, SessionInv
<1>9. RegateDecides'
  BY <1>3 DEF FlowInv, RegateDecides
<1>. QED
  BY <1>3, <1>5, <1>7, <1>8, <1>9 DEF FlowInv

\* What a new plan does to the session.
LEMMA PlanFold ==
    ASSUME NEW j \in JournalStates, NEW f \in FileStates,
           NEW e \in {EvInstruction, EvMismatch}
    PROVE  /\ Fold(j, e).begun = j.begun /\ Fold(j, e).result = j.result
           /\ Fold(j, e).plan = j.plan + 1
           /\ WriteFile(f, j, e).summary = f.summary
<1>1. e.kind \in {"user_instruction", "artifact_mismatch"}
  BY DEF EvInstruction, EvMismatch
<1>2. Fold(j, e) = NewPlan(j)
  BY <1>1 DEF Fold
<1>3. /\ NewPlan(j).begun = j.begun /\ NewPlan(j).result = j.result
      /\ NewPlan(j).plan = j.plan + 1
  BY EmptyJournalType DEF NewPlan, JournalStates
<1>4. WriteFile(f, j, e).summary = f.summary
  BY <1>1 DEF WriteFile, FileStates
<1>. QED
  BY <1>2, <1>3, <1>4

\* What single lines do to the journal and to the files.
LEMMA FoldLines ==
    ASSUME NEW j, NEW e
    PROVE  /\ e.kind = "begin" => Fold(j, e) = [j EXCEPT !.begun = TRUE]
           /\ e.kind = "judge" => Fold(j, e) = [j EXCEPT !.judge = e.decision]
           /\ e.kind = "session_closed" => Fold(j, e) = [j EXCEPT !.result = e.result]
           /\ e.kind = "SUMMARY.md" => Fold(j, e) = j
<1>1. e.kind = "begin" => Fold(j, e) = [j EXCEPT !.begun = TRUE]
  BY Zenon DEF Fold
<1>2. e.kind = "judge" => Fold(j, e) = [j EXCEPT !.judge = e.decision]
  BY Zenon DEF Fold
<1>3. e.kind = "session_closed" => Fold(j, e) = [j EXCEPT !.result = e.result]
  BY Zenon DEF Fold
<1>4. e.kind = "SUMMARY.md" => Fold(j, e) = j
  BY Zenon DEF Fold
<1>. QED  BY <1>1, <1>2, <1>3, <1>4, Zenon

LEMMA WriteLines ==
    ASSUME NEW f, NEW j, NEW e
    PROVE  /\ e.kind \in {"begin", "session_closed", "judge"} => WriteFile(f, j, e) = f
           /\ e.kind = "SUMMARY.md" => WriteFile(f, j, e) = [f EXCEPT !.summary = j.plan]
<1>1. e.kind \in {"begin", "session_closed", "judge"} => WriteFile(f, j, e) = f
  BY DEF WriteFile
<1>2. e.kind = "SUMMARY.md" => WriteFile(f, j, e) = [f EXCEPT !.summary = j.plan]
  BY Zenon DEF WriteFile
<1>. QED  BY <1>1, <1>2, Zenon

\* Persist before the first phase: the begin event, or a new plan.
LEMMA PersistOpening ==
    ASSUME FlowInv, Persist, at \in {"opening", "replayed"}
    PROVE  /\ FlowInv'
           /\ \/ /\ at = "opening" /\ ~journal.begun /\ journal'.begun
                 /\ UNCHANGED <<at, journal.result, journal.plan, files.summary>>
              \/ /\ journal.begun /\ journal.result = NoResult
                 /\ journal'.plan = journal.plan + 1 /\ files'.summary # journal'.plan
                 /\ UNCHANGED <<at, journal.begun, journal.result>>
<1>. DEFINE e == Head(writes)
<1>1. /\ TypeOK' /\ journal' = Fold(journal, e) /\ files' = WriteFile(files, journal, e)
      /\ writes' = Tail(writes) /\ UNCHANGED <<at, lab, cur>>
  BY PersistTypes DEF FlowInv
<1>2. /\ journal \in JournalStates /\ files \in FileStates
      /\ journal.plan \in Nat /\ files.summary \in Int
  BY DEF FlowInv, TypeOK, FileStates, JournalStates
<1>3. journal.result = NoResult
  BY DEF FlowInv, SessionInv
<1>4. RegateDecides'
  BY <1>1 DEF FlowInv, RegateDecides
<1>5. at \notin Middle
  BY DEF Middle
<1>6. CASE at = "opening" /\ writes = <<EvBegin>>
  <2>1. e = EvBegin /\ writes' = <<>> /\ ~journal.begun
    BY <1>1, <1>6 DEF FlowInv, WritesInv, EvBegin, EvInstruction
  <2>2. /\ journal' = [journal EXCEPT !.begun = TRUE] /\ files' = files
    BY <1>1, <2>1, FoldLines, WriteLines DEF EvBegin
  <2>3. /\ journal'.begun
        /\ UNCHANGED <<journal.result, journal.plan, files.summary>>
    BY <1>2, <2>2 DEF JournalStates
  <2>4. WritesInv'
    BY <1>1, <1>5, <1>6, <2>1, <2>3 DEF WritesInv
  <2>5. SessionInv'
    BY <1>1, <1>3, <1>6, <2>3 DEF FlowInv, SessionInv
  <2>. QED
    BY <1>1, <1>4, <1>6, <2>1, <2>3, <2>4, <2>5 DEF FlowInv
<1>7. CASE \/ at = "opening" /\ writes = <<EvInstruction>>
           \/ at = "replayed" /\ writes = <<EvMismatch>>
  <2>1. e \in {EvInstruction, EvMismatch} /\ writes' = <<>> /\ journal.begun
    <3>1. e \in {EvInstruction, EvMismatch} /\ writes' = <<>>
      BY <1>1, <1>7
    <3>2. EvInstruction # EvBegin
      BY DEF EvBegin, EvInstruction
    <3>3. ASSUME at = "opening", writes = <<EvInstruction>>
          PROVE  journal.begun
      <4>1. writes # <<EvBegin>>
        BY <3>2, <3>3
      <4>. QED
        BY <3>3, <4>1 DEF FlowInv, WritesInv
    <3>4. at = "replayed" => journal.begun
      BY DEF FlowInv, SessionInv
    <3>. QED
      BY <1>7, <3>1, <3>3, <3>4
  <2>2. /\ journal'.plan = journal.plan + 1
        /\ UNCHANGED <<journal.begun, journal.result, files.summary>>
    BY <1>1, <1>2, <2>1, PlanFold
  <2>3. files.summary <= journal.plan
    BY DEF FlowInv, SessionInv
  <2>4. files'.summary # journal'.plan /\ files'.summary <= journal'.plan
    BY <1>2, <2>2, <2>3
  <2>5. WritesInv'
    BY <1>1, <1>5, <1>7, <2>1, <2>2 DEF WritesInv
  <2>6. SessionInv'
    BY <1>1, <1>3, <1>7, <2>1, <2>2, <2>4 DEF SessionInv
  <2>. QED
    BY <1>1, <1>3, <1>4, <2>1, <2>2, <2>4, <2>5, <2>6 DEF FlowInv
<1>. QED
  BY <1>6, <1>7 DEF FlowInv, WritesInv, Persist

\* Persist at the end: SUMMARY.md, then the session_closed event.
LEMMA PersistClosing ==
    ASSUME FlowInv, Persist, at \in {"close", "leave"}
    PROVE  /\ FlowInv'
           /\ journal.begun /\ journal.result = NoResult
           /\ \/ /\ files'.summary = journal'.plan
                 /\ UNCHANGED <<at, journal.begun, journal.result, journal.plan>>
              \/ /\ files.summary = journal.plan /\ journal'.result # NoResult
                 /\ UNCHANGED <<at, journal.begun, journal.plan, files.summary>>
<1>. DEFINE e == Head(writes)
<1>1. /\ TypeOK' /\ journal' = Fold(journal, e) /\ files' = WriteFile(files, journal, e)
      /\ writes' = Tail(writes) /\ UNCHANGED <<at, lab, cur>>
  BY PersistTypes DEF FlowInv
<1>2. /\ journal \in JournalStates /\ files \in FileStates
      /\ journal.plan \in Nat /\ files.summary \in Int
  BY DEF FlowInv, TypeOK, FileStates, JournalStates
<1>3. RegateDecides'
  BY <1>1 DEF FlowInv, RegateDecides
<1>4. at \notin Middle /\ writes # <<>> /\ journal.begun
  BY DEF Middle, Persist, FlowInv, SessionInv
<1>5. CASE at = "close"
  <2>0. writes = <<FileSummary>>
    BY <1>4, <1>5 DEF FlowInv, WritesInv
  <2>1. e = FileSummary /\ writes' = <<>>
    BY <1>1, <2>0
  <2>2. journal' = journal /\ files' = [files EXCEPT !.summary = journal.plan]
    BY <1>1, <2>1, FoldLines, WriteLines DEF FileSummary
  <2>3. files'.summary = journal'.plan
    BY <1>2, <2>2 DEF FileStates
  <2>4. journal.result = NoResult
    BY <1>5 DEF FlowInv, SessionInv
  <2>5. WritesInv'
    BY <1>1, <1>4, <1>5, <2>1, <2>3 DEF WritesInv
  <2>6. SessionInv'
    BY <1>1, <1>2, <1>4, <1>5, <2>2, <2>3, <2>4 DEF SessionInv
  <2>. QED
    BY <1>1, <1>3, <1>4, <2>2, <2>3, <2>4, <2>5, <2>6 DEF FlowInv
<1>6. CASE at = "leave"
  <2>1. PICK v \in Verdicts : writes = <<EvClosed(v)>>
    BY <1>4, <1>6 DEF FlowInv, WritesInv
  <2>2. e = EvClosed(v) /\ writes' = <<>>
    BY <1>1, <2>1
  <2>3. journal.result = NoResult /\ files.summary = journal.plan
    BY <1>4, <1>6 DEF FlowInv, WritesInv
  <2>4. journal' = [journal EXCEPT !.result = v] /\ files' = files
    BY <1>1, <2>2, FoldLines, WriteLines DEF EvClosed
  <2>5. /\ journal'.result # NoResult
        /\ UNCHANGED <<journal.begun, journal.plan, files.summary>>
    BY <1>2, <2>4 DEF JournalStates
  <2>6. WritesInv'
    BY <1>1, <1>4, <1>6, <2>2 DEF WritesInv
  <2>7. SessionInv'
    <3>1. journal'.begun /\ at' = "leave" /\ files'.summary = journal'.plan
      BY <1>1, <1>4, <1>6, <2>3, <2>5
    <3>2. files'.summary <= journal'.plan
      BY <1>2, <2>5, <3>1
    <3>. QED
      BY <3>1, <3>2 DEF SessionInv
  <2>. QED
    BY <1>1, <1>3, <1>4, <2>3, <2>5, <2>6, <2>7 DEF FlowInv
<1>. QED
  BY <1>5, <1>6

\* A run that is gone leaves the journal and the files as they are.
LEMMA OffKeepsInv ==
    ASSUME FlowInv, GoOff, UNCHANGED <<journal, files>>, drift' \in SUBSET Ids
    PROVE  FlowInv'
<1>1. TypeOK'
  BY IdleType, NoStepType, WriteSeqs DEF FlowInv, TypeOK, GoOff, Places
<1>2. RegateDecides' /\ WritesInv'
  BY DEF GoOff, RegateDecides, WritesInv, Middle
<1>3. SessionInv'
  BY DEF FlowInv, SessionInv, GoOff
<1>. QED
  BY <1>1, <1>2, <1>3 DEF FlowInv

LEMMA EditKeepsInv ==
    ASSUME FlowInv, NEW i \in Ids, UserEdits(i) \/ AgentEdits(i)
    PROVE  FlowInv' /\ UNCHANGED <<journal, files, at>>
<1>1. /\ UNCHANGED <<journal, writes, files, at, lab, cur>>
      /\ drift' = drift \cup {i}
  BY DEF UserEdits, AgentEdits
<1>2. TypeOK'
  BY <1>1 DEF FlowInv, TypeOK
<1>3. RegateDecides' /\ WritesInv' /\ SessionInv'
  BY <1>1 DEF FlowInv, RegateDecides, WritesInv, SessionInv
<1>. QED
  BY <1>1, <1>2, <1>3 DEF FlowInv

LEMMA MiddleKeepsInv ==
    ASSUME FlowInv, MiddleStep
    PROVE  FlowInv' /\ UNCHANGED <<journal, files>>
<1>1. at' \notin {"off", "opening", "replayed", "close", "leave"} /\ at' \in Places
  BY DEF MiddleStep, Middle
<1>2. TypeOK'
  BY <1>1, InnerSeqs DEF FlowInv, TypeOK, MiddleStep
<1>3. WritesInv'
  BY <1>1 DEF WritesInv, MiddleStep
<1>4. SessionInv'
  <2>1. journal.begun /\ journal.result = NoResult
    BY DEF FlowInv, SessionInv, MiddleStep, Middle
  <2>. QED
    BY <1>1, <2>1 DEF FlowInv, SessionInv, MiddleStep
<1>. QED
  BY <1>2, <1>3, <1>4 DEF FlowInv, MiddleStep

\* A run is created by LabRunner: nothing of it is live yet.
LEMMA CreateKeepsInv ==
    ASSUME FlowInv, NEW instruction \in BOOLEAN, NewRun \/ ResumeRun(instruction)
    PROVE  FlowInv' /\ UNCHANGED <<journal, files>> /\ at = "off" /\ at' = "opening"
<1>0. ~journal.begun \/ Resumable(journal)
  BY DEF NewRun, ResumeRun
<1>1. /\ UNCHANGED <<journal, files, drift, cur>> /\ at = "off" /\ at' = "opening"
      /\ journal.result = NoResult
  <2>1. journal.result = NoResult
    BY <1>0 DEF Resumable, FlowInv, SessionInv
  <2>2. UNCHANGED <<journal, files, drift, cur>> /\ at = "off" /\ at' = "opening"
    BY DEF NewRun, ResumeRun, Goto
  <2>. QED
    BY <2>1, <2>2
<1>2. lab' \in LabStates
  <2>1. lab \in LabStates
    BY DEF FlowInv, TypeOK
  <2>2. [lab EXCEPT !.resume = TRUE] \in LabStates
    BY <2>1 DEF LabStates
  <2>. QED
    BY <2>1, <2>2 DEF NewRun, ResumeRun
<1>3. WritesInv'
  <2>1. CASE NewRun
    BY <1>1, <2>1 DEF WritesInv, NewRun, Goto, Middle
  <2>2. CASE ResumeRun(instruction)
    <3>1. journal.begun /\ writes' \in {<<>>, <<EvInstruction>>}
      BY <2>2 DEF ResumeRun, Goto, Resumable
    <3>. QED
      BY <1>1, <3>1 DEF WritesInv, Middle
  <2>. QED
    BY <2>1, <2>2
<1>4. writes' \in Seq(Events)
  BY EventsAreEvents, WriteSeqs DEF NewRun, ResumeRun, Goto
<1>5. SessionInv'
  BY <1>1 DEF FlowInv, SessionInv
<1>6. TypeOK' /\ RegateDecides'
  BY <1>1, <1>2, <1>4 DEF FlowInv, TypeOK, Places, RegateDecides
<1>. QED
  BY <1>1, <1>3, <1>5, <1>6 DEF FlowInv

LEMMA BeginKeepsInv ==
    ASSUME FlowInv, BeginRun
    PROVE  /\ FlowInv' /\ UNCHANGED <<journal, files>>
           /\ journal.begun /\ journal.result = NoResult
           /\ at = "opening" /\ at' = "replayed"
<1>1. /\ UNCHANGED <<journal, files, drift, lab, cur>> /\ writes = <<>>
      /\ at = "opening" /\ at' = "replayed" /\ writes' \in {<<>>, <<EvMismatch>>}
  BY DEF BeginRun, Goto, Ready
<1>2. journal.begun /\ journal.result = NoResult
  BY <1>1 DEF FlowInv, WritesInv, SessionInv
<1>3. writes' \in Seq(Events)
  BY <1>1, EventsAreEvents, WriteSeqs
<1>4. TypeOK' /\ RegateDecides'
  BY <1>1, <1>3 DEF FlowInv, TypeOK, Places, RegateDecides
<1>5. WritesInv'
  BY <1>1 DEF WritesInv, Middle
<1>6. SessionInv'
  BY <1>1, <1>2 DEF FlowInv, SessionInv
<1>. QED
  BY <1>1, <1>2, <1>4, <1>5, <1>6 DEF FlowInv

LEMMA EnterKeepsInv ==
    ASSUME FlowInv, EnterLab
    PROVE  /\ FlowInv' /\ UNCHANGED <<journal, files>>
           /\ at = "replayed" /\ at' \in Middle
<1>1. /\ UNCHANGED <<journal, files, drift, cur>>
      /\ at = "replayed" /\ at' \in {"wrap_up", "remember"} /\ writes' = <<>>
      /\ lab' = Restored(journal, lab.resume)
  BY DEF EnterLab, Goto
<1>2. lab' \in LabStates
  BY <1>1, RestoredType DEF FlowInv, TypeOK, LabStates
<1>3. at' \in Middle /\ at' \in Places /\ at' \notin {"off", "opening", "replayed", "close", "leave"}
  BY <1>1 DEF Middle, Places, Drives
<1>4. TypeOK' /\ RegateDecides'
  BY <1>1, <1>2, <1>3, WriteSeqs DEF FlowInv, TypeOK, RegateDecides
<1>5. WritesInv'
  BY <1>1, <1>3, WriteSeqs DEF WritesInv
<1>6. SessionInv'
  BY <1>1, <1>3 DEF FlowInv, SessionInv
<1>. QED
  BY <1>1, <1>3, <1>4, <1>5, <1>6 DEF FlowInv

LEMMA CloseKeepsInv ==
    ASSUME FlowInv, WriteSummary \/ CloseSession
    PROVE  /\ FlowInv' /\ UNCHANGED <<journal, files>>
           /\ at \in {"write_summary", "close"} /\ at' \in {"close", "leave"}
<1>1. /\ UNCHANGED <<journal, files, drift, lab, cur>>
      /\ \/ at = "write_summary" /\ at' = "close" /\ writes' = <<FileSummary>>
         \/ /\ at = "close" /\ at' = "leave" /\ writes = <<>>
            /\ writes' = <<EvClosed(Verdict(lab))>>
  BY DEF WriteSummary, CloseSession, Goto, Ready
<1>2. Verdict(lab) \in Verdicts /\ EvClosed(Verdict(lab)) \in Events
  <2>1. SummaryGate(lab) \in GateStates
    BY WorstGateType DEF SummaryGate, FlowInv, TypeOK, LabStates
  <2>2. Verdict(lab) \in Verdicts
    BY <2>1 DEF Verdict
  <2>. QED
    BY <2>2 DEF EvClosed, Events
<1>3. writes' \in Seq(Events)
  BY <1>1, <1>2, EventsAreEvents, WriteSeqs
<1>4. TypeOK' /\ RegateDecides'
  BY <1>1, <1>3 DEF FlowInv, TypeOK, Places, RegateDecides
<1>5. journal.begun /\ journal.result = NoResult
  BY <1>1 DEF FlowInv, SessionInv
<1>6. WritesInv'
  <2>1. CASE at = "write_summary"
    BY <1>1, <2>1 DEF WritesInv, Middle
  <2>2. CASE at = "close"
    <3>1. files.summary = journal.plan
      BY <1>1, <2>2 DEF FlowInv, WritesInv, FileSummary
    <3>. QED
      BY <1>1, <1>2, <1>5, <2>2, <3>1 DEF WritesInv, Middle
  <2>. QED
    BY <1>1, <2>1, <2>2
<1>7. SessionInv'
  BY <1>1, <1>5 DEF FlowInv, SessionInv
<1>. QED
  BY <1>1, <1>4, <1>6, <1>7 DEF FlowInv

-----------------------------------------------------------------------------
(* What the steps are for the session. *)

Live == at \notin {"off", "opening"}

Kept == UNCHANGED <<journal.begun, journal.result, journal.plan, files.summary>>

LifeStep == [Life!Next]_(Life!lifeVars)

LEMMA LifeStutters ==
    ASSUME Kept, Live' <=> Live
    PROVE  LifeStep
BY DEF Kept, Live, LifeStep, Life!lifeVars

LEMMA LifeLaunches ==
    ASSUME Kept, journal.begun, journal.result = NoResult, ~Live, Live'
    PROVE  LifeStep
BY DEF Kept, Live, LifeStep, Life!Next, Life!Launch

LEMMA LifeLeaves ==
    ASSUME Kept, ~Live'
    PROVE  LifeStep
<1>1. CASE Live
  BY <1>1 DEF Kept, Live, LifeStep, Life!Next, Life!Leave
<1>2. CASE ~Live
  BY <1>2, LifeStutters
<1>. QED
  BY <1>1, <1>2

LEMMA LifeCreates ==
    ASSUME ~journal.begun, journal'.begun, journal.result = NoResult, ~Live,
           UNCHANGED <<at, journal.result, journal.plan, files.summary>>
    PROVE  LifeStep
BY DEF Live, LifeStep, Life!Next, Life!Create

LEMMA LifeReplans ==
    ASSUME journal.begun, journal.result = NoResult, journal'.plan = journal.plan + 1,
           files'.summary # journal'.plan,
           UNCHANGED <<at, journal.begun, journal.result>>
    PROVE  LifeStep
BY DEF Live, LifeStep, Life!Next, Life!Replan

LEMMA LifeReports ==
    ASSUME journal.begun, journal.result = NoResult, Live,
           files'.summary = journal'.plan,
           UNCHANGED <<at, journal.begun, journal.result, journal.plan>>
    PROVE  LifeStep
BY DEF Live, LifeStep, Life!Next, Life!Report

LEMMA LifeCloses ==
    ASSUME journal.begun, journal.result = NoResult, journal'.result # NoResult, Live,
           files.summary = journal.plan,
           UNCHANGED <<at, journal.begun, journal.plan, files.summary>>
    PROVE  LifeStep
BY DEF Live, LifeStep, Life!Next, Life!Close

LEMMA PersistStep ==
    ASSUME FlowInv, Persist
    PROVE  FlowInv' /\ LifeStep
<1>1. at \in Places /\ writes # <<>> /\ at' = at
  BY DEF FlowInv, TypeOK, Persist
<1>2. at # "off"
  BY <1>1 DEF FlowInv, WritesInv
<1>3. CASE at \in Middle
  BY <1>1, <1>3, PersistInner, LifeStutters DEF Kept, Live
<1>4. CASE at \in {"opening", "replayed"}
  <2>1. journal.result = NoResult
    BY <1>4 DEF FlowInv, SessionInv
  <2>. QED
    BY <1>4, <2>1, PersistOpening, LifeCreates, LifeReplans DEF Live
<1>5. CASE at \in {"close", "leave"}
  BY <1>5, PersistClosing, LifeReports, LifeCloses DEF Live
<1>. QED
  BY <1>1, <1>2, <1>3, <1>4, <1>5 DEF Middle

LEMMA PhasesStep ==
    ASSUME FlowInv, Phases
    PROVE  FlowInv' /\ LifeStep
<1>1. CASE BeginRun
  BY <1>1, BeginKeepsInv, LifeLaunches DEF Kept, Live
<1>2. CASE EnterLab
  BY <1>2, EnterKeepsInv, LifeStutters DEF Kept, Live, Middle
<1>3. CASE DriveFails \/ LeaveRun
  <2>1. GoOff /\ UNCHANGED <<journal, files, drift>>
    BY <1>3 DEF DriveFails, LeaveRun
  <2>2. FlowInv'
    BY <2>1, OffKeepsInv DEF FlowInv, TypeOK
  <2>. QED
    BY <2>1, <2>2, LifeLeaves DEF Kept, Live, GoOff
<1>4. CASE RememberSteps \/ SpecSteps \/ SummarySteps
  <2>1. MiddleStep
    BY <1>4, RememberIsMiddle, SpecIsMiddle, SummaryIsMiddle DEF FlowInv, TypeOK, StateTypes
  <2>. QED
    BY <2>1, MiddleKeepsInv, LifeStutters DEF Kept, Live, Middle, MiddleStep
<1>5. CASE WriteSummary \/ CloseSession
  BY <1>5, CloseKeepsInv, LifeStutters DEF Kept, Live
<1>. QED
  BY <1>1, <1>2, <1>3, <1>4, <1>5 DEF Phases, RememberSteps, SpecSteps, SummarySteps

LEMMA StepsStep ==
    ASSUME FlowInv, Steps
    PROVE  FlowInv' /\ LifeStep
<1>1. StateTypes /\ journal \in JournalStates /\ RegateDecides
  BY DEF FlowInv, TypeOK, StateTypes
<1>2. AdvanceSteps \/ DispatchSteps \/ WaveSteps \/ JudgeSteps \/ ApplySteps
  BY DEF Steps, AdvanceSteps, DispatchSteps, WaveSteps, JudgeSteps, ApplySteps
<1>3. MiddleStep
  BY <1>1, <1>2, AdvanceIsMiddle, DispatchIsMiddle, WaveIsMiddle, JudgeIsMiddle, ApplyIsMiddle
<1>. QED
  BY <1>3, MiddleKeepsInv, LifeStutters DEF Kept, Live, Middle, MiddleStep

LEMMA SurroundingsStep ==
    ASSUME FlowInv, Surroundings
    PROVE  FlowInv' /\ LifeStep
<1>1. CASE Crash \/ Stop
  <2>1. GoOff /\ UNCHANGED <<journal, files, drift>>
    BY <1>1 DEF Crash, Stop
  <2>2. FlowInv'
    BY <2>1, OffKeepsInv DEF FlowInv, TypeOK
  <2>. QED
    BY <2>1, <2>2, LifeLeaves DEF Kept, Live, GoOff
<1>2. CASE NewRun \/ \E instruction \in BOOLEAN : ResumeRun(instruction)
  <2>1. FlowInv' /\ UNCHANGED <<journal, files>> /\ at = "off" /\ at' = "opening"
    BY <1>2, CreateKeepsInv
  <2>. QED
    BY <2>1, LifeStutters DEF Kept, Live
<1>3. ASSUME NEW i \in Ids, UserEdits(i) \/ AgentEdits(i)
      PROVE  FlowInv' /\ LifeStep
  BY <1>3, EditKeepsInv, LifeStutters DEF Kept, Live
<1>. QED
  BY <1>1, <1>2, <1>3 DEF Surroundings

\* Every step of the lab keeps the invariant, and is a step of the session or
\* leaves it as it is.
LEMMA NextStep ==
    ASSUME FlowInv, [Next]_vars
    PROVE  FlowInv' /\ LifeStep
<1>1. CASE Next
  BY <1>1, PersistStep, PhasesStep, StepsStep, SurroundingsStep DEF Next, LabStep
<1>2. CASE UNCHANGED vars
  <2>1. UNCHANGED <<journal, writes, files, drift, at, lab, cur>>
    BY <1>2 DEF vars
  <2>2. TypeOK' /\ RegateDecides' /\ WritesInv' /\ SessionInv'
    BY <2>1 DEF FlowInv, TypeOK, RegateDecides, WritesInv, SessionInv
  <2>. QED
    BY <2>1, <2>2, LifeStutters DEF FlowInv, Kept, Live
<1>. QED
  BY <1>1, <1>2

-----------------------------------------------------------------------------
(* The theorems. *)

\* Every variable keeps its type, and the invariant that ties the writes of a
\* run to its place holds, however often the process crashes and resumes.
THEOREM InvHolds == Spec => []FlowInv
<1>1. FlowInv /\ [Next]_vars => FlowInv'
  BY NextStep
<1>. QED
  BY <1>1, InvInit, PTL DEF Spec

\* The type invariant of the lab flow (flow.py LabState, journal.py JournalState).
THEOREM TypesHold == Spec => []TypeOK
<1>1. FlowInv => TypeOK
  BY DEF FlowInv
<1>. QED
  BY <1>1, InvHolds, PTL

\* The lab flow keeps the promises of a session: begun once, run only while it
\* is open, replanned only by a new plan revision, closed once by a live run
\* and only after SUMMARY.md of the current plan was written.
THEOREM PromisesAreKept == Spec => KeepsItsPromises
<1>1. Init => Life!Init
  BY DEF Init, Life!Init, EmptyJournal
<1>2. FlowInv /\ [Next]_vars => LifeStep
  BY NextStep
<1>. QED
  BY <1>1, <1>2, InvHolds, PTL DEF Spec, KeepsItsPromises, Life!Spec, LifeStep

\* What follows for a closed session: the report of its last plan is in place,
\* and it is never reopened, replanned or run again (JournalState.resumable).
THEOREM ClosedForGood == Spec => []Life!ClosedIsReported /\ Life!ClosedIsFinal
<1>1. FlowInv => Life!ClosedIsReported
  BY DEF FlowInv, SessionInv, Life!ClosedIsReported
<1>2. LifeStep => [Life!StaysClosed]_(Life!lifeVars)
  BY DEF LifeStep, Life!StaysClosed, Life!Next, Life!Create, Life!Launch, Life!Replan,
         Life!Report, Life!Close, Life!Leave
<1>3. FlowInv /\ [Next]_vars => LifeStep
  BY NextStep
<1>. QED
  BY <1>1, <1>2, <1>3, InvHolds, PTL DEF Spec, Life!ClosedIsFinal

-----------------------------------------------------------------------------
(* What the journal says after some writes *)

\* The journals on the way, from the one at hand to the last.
Path(ws, f) ==
    /\ f \in [0 .. Len(ws) -> JournalStates]
    /\ \A n \in 1 .. Len(ws) : f[n] = Fold(f[n - 1], ws[n])

Leads(j, ws, k) == \E f : Path(ws, f) /\ f[0] = j /\ f[Len(ws)] = k

LEMMA LeadsNowhere ==
    ASSUME NEW j \in JournalStates
    PROVE  Leads(j, <<>>, j) /\ \A k : Leads(j, <<>>, k) => k = j
<1>. DEFINE f == [n \in 0 .. 0 |-> j]
<1>1. Path(<<>>, f) /\ f[0] = j
  BY DEF Path
<1>2. Len(<<>>) = 0
  OBVIOUS
<1>. QED
  BY <1>1, <1>2 DEF Leads

LEMMA LeadsOneOn ==
    ASSUME NEW j \in JournalStates, NEW e \in Events
    PROVE  Leads(j, <<e>>, Fold(j, e))
<1>. DEFINE f == [n \in 0 .. 1 |-> IF n = 0 THEN j ELSE Fold(j, e)]
            ws == <<e>>
<1>1. f \in [0 .. 1 -> JournalStates] /\ f[0] = j /\ f[1] = Fold(j, e)
  BY FoldType
<1>2. Len(ws) = 1 /\ ws[1] = e
  OBVIOUS
<1>. HIDE DEF f, ws
<1>3. Path(ws, f)
  <2>1. \A n \in 1 .. 1 : n = 1 /\ n - 1 = 0
    OBVIOUS
  <2>. QED
    BY <1>1, <1>2, <2>1 DEF Path
<1>4. Leads(j, ws, Fold(j, e))
  BY <1>1, <1>2, <1>3 DEF Leads
<1>. QED
  BY <1>4 DEF ws

LEMMA LeadsFurther ==
    ASSUME NEW j, NEW k, NEW l, NEW s \in Seq(Events), NEW t \in Seq(Events),
           Leads(j, s, k), Leads(k, t, l)
    PROVE  Leads(j, s \o t, l)
<1>. DEFINE m == Len(s)
            n == Len(t)
            u == s \o t
<1>1. /\ Len(u) = m + n /\ m \in Nat /\ n \in Nat
      /\ \A i \in 1 .. m : u[i] = s[i]
      /\ \A i \in 1 .. n : u[m + i] = t[i]
  BY ConcatProperties
<1>2. PICK f : Path(s, f) /\ f[0] = j /\ f[m] = k
  BY DEF Leads
<1>3. PICK g : Path(t, g) /\ g[0] = k /\ g[n] = l
  BY DEF Leads
<1>4. /\ f \in [0 .. m -> JournalStates] /\ \A i \in 1 .. m : f[i] = Fold(f[i - 1], s[i])
      /\ g \in [0 .. n -> JournalStates] /\ \A i \in 1 .. n : g[i] = Fold(g[i - 1], t[i])
  BY <1>2, <1>3 DEF Path
<1>. HIDE DEF m, n, u
<1>. DEFINE h == [i \in 0 .. m + n |-> IF i <= m THEN f[i] ELSE g[i - m]]
<1>5. h \in [0 .. m + n -> JournalStates]
  <2>. SUFFICES ASSUME NEW i \in 0 .. m + n
                PROVE  (IF i <= m THEN f[i] ELSE g[i - m]) \in JournalStates
    OBVIOUS
  <2>1. CASE i <= m
    BY <1>1, <1>4, <2>1
  <2>2. CASE ~(i <= m)
    <3>1. i - m \in 0 .. n
      BY <1>1, <2>2
    <3>. QED
      BY <1>4, <2>2, <3>1
  <2>. QED
    BY <2>1, <2>2
<1>6. \A i \in 1 .. m + n : h[i] = Fold(h[i - 1], u[i])
  <2>. SUFFICES ASSUME NEW i \in 1 .. m + n
                PROVE  h[i] = Fold(h[i - 1], u[i])
    OBVIOUS
  <2>1. CASE i <= m
    <3>1. i \in 1 .. m /\ i - 1 \in 0 .. m + n /\ i \in 0 .. m + n /\ i - 1 <= m
      BY <1>1, <2>1
    <3>. QED
      BY <1>1, <1>4, <2>1, <3>1
  <2>2. CASE i = m + 1
    <3>1. /\ i - m = 1 /\ 1 \in 1 .. n /\ i - 1 = m /\ m \in 0 .. m + n
          /\ i \in 0 .. m + n /\ ~(i <= m) /\ 1 - 1 = 0
      BY <1>1, <2>2
    <3>2. h[i] = g[1] /\ h[i - 1] = k /\ u[i] = t[1]
      BY <1>1, <1>2, <2>2, <3>1
    <3>. QED
      BY <1>3, <1>4, <3>1, <3>2
  <2>3. CASE i > m + 1
    <3>1. /\ i - m \in 1 .. n /\ i - 1 \in 0 .. m + n /\ i \in 0 .. m + n
          /\ ~(i <= m) /\ ~(i - 1 <= m) /\ (i - 1) - m = (i - m) - 1 /\ m + (i - m) = i
      BY <1>1, <2>3
    <3>2. h[i] = g[i - m] /\ h[i - 1] = g[(i - m) - 1]
      BY <3>1
    <3>3. u[i] = t[i - m]
      BY <1>1, <3>1
    <3>. QED
      BY <1>4, <3>1, <3>2, <3>3
  <2>. QED
    BY <1>1, <2>1, <2>2, <2>3
<1>7. h[0] = j /\ h[m + n] = l
  <2>1. 0 \in 0 .. m + n /\ 0 <= m /\ m + n \in 0 .. m + n /\ (m + n) - m = n
    BY <1>1
  <2>2. CASE n = 0
    BY <1>1, <1>2, <1>3, <2>1, <2>2
  <2>3. CASE n # 0
    <3>1. ~(m + n <= m)
      BY <1>1, <2>3
    <3>. QED
      BY <1>2, <1>3, <2>1, <3>1
  <2>. QED
    BY <2>2, <2>3
<1>. HIDE DEF h
<1>8. Path(u, h)
  BY <1>1, <1>5, <1>6 DEF Path
<1>9. Leads(j, u, l)
  BY <1>1, <1>7, <1>8 DEF Leads
<1>. QED
  BY <1>9 DEF u

\* Persist takes the first write and leaves what the journal will say.
LEMMA LeadsAfterOne ==
    ASSUME NEW j, NEW k, NEW ws \in Seq(Events), ws # <<>>, Leads(j, ws, k)
    PROVE  Leads(Fold(j, Head(ws)), Tail(ws), k)
<1>. DEFINE n == Len(ws)
            t == Tail(ws)
<1>1. /\ n \in Nat /\ n # 0 /\ Head(ws) = ws[1]
      /\ Len(t) = n - 1 /\ \A i \in 1 .. n - 1 : t[i] = ws[i + 1]
  OBVIOUS
<1>2. PICK f : Path(ws, f) /\ f[0] = j /\ f[n] = k
  BY DEF Leads
<1>3. f \in [0 .. n -> JournalStates] /\ \A i \in 1 .. n : f[i] = Fold(f[i - 1], ws[i])
  BY <1>2 DEF Path
<1>. HIDE DEF n, t
<1>. DEFINE g == [i \in 0 .. n - 1 |-> f[i + 1]]
<1>4. g \in [0 .. n - 1 -> JournalStates]
  <2>1. \A i \in 0 .. n - 1 : i + 1 \in 0 .. n
    BY <1>1
  <2>. QED
    BY <1>3, <2>1
<1>5. \A i \in 1 .. n - 1 : g[i] = Fold(g[i - 1], t[i])
  <2>. SUFFICES ASSUME NEW i \in 1 .. n - 1
                PROVE  g[i] = Fold(g[i - 1], t[i])
    OBVIOUS
  <2>1. /\ i \in 0 .. n - 1 /\ i - 1 \in 0 .. n - 1 /\ i + 1 \in 1 .. n
        /\ (i - 1) + 1 = i /\ (i + 1) - 1 = i
    BY <1>1
  <2>. QED
    BY <1>1, <1>3, <2>1
<1>6. g[0] = Fold(j, Head(ws)) /\ g[n - 1] = k
  <2>1. /\ 0 \in 0 .. n - 1 /\ 0 + 1 = 1 /\ 1 \in 1 .. n /\ 1 - 1 = 0
        /\ n - 1 \in 0 .. n - 1 /\ (n - 1) + 1 = n
    BY <1>1
  <2>. QED
    BY <1>1, <1>2, <1>3, <2>1
<1>. HIDE DEF g
<1>7. Leads(Fold(j, Head(ws)), t, k)
  BY <1>1, <1>4, <1>5, <1>6 DEF Leads, Path
<1>. QED
  BY <1>7 DEF t

-----------------------------------------------------------------------------
(* LabState and what replay would restore of it *)

Agrees(j, l) ==
    /\ l.stage = j.stage /\ l.step = j.step
    /\ l.halt = j.halt /\ l.down = j.down
    /\ l.executed = j.executed /\ l.ledger = j.effects
    /\ l.gates = j.gates /\ l.tries = j.tries

\* Nothing of the memory changed that a journal knows.
SameMemory(l, m) ==
    /\ l.stage = m.stage /\ l.step = m.step
    /\ l.halt = m.halt /\ l.down = m.down
    /\ l.executed = m.executed /\ l.ledger = m.ledger
    /\ l.gates = m.gates /\ l.tries = m.tries

\* The writes ws make durable what took the memory from l to m.
Becomes(l, ws, m) ==
    /\ ws \in Seq(Events)
    /\ \A j \in JournalStates :
          Agrees(j, l) =>
            \E k \in JournalStates : Leads(j, ws, k) /\ Agrees(k, m)

LEMMA BecomesSame ==
    ASSUME NEW l, NEW m, SameMemory(l, m)
    PROVE  Becomes(l, <<>>, m)
<1>1. <<>> \in Seq(Events)
  BY WriteSeqs
<1>. QED
  BY <1>1, LeadsNowhere DEF Becomes, Agrees, SameMemory

LEMMA BecomesOnce ==
    ASSUME NEW l, NEW m, NEW e \in Events,
           \A j \in JournalStates :
              Agrees(j, l) => Agrees(Fold(j, e), m)
    PROVE  Becomes(l, <<e>>, m)
<1>1. <<e>> \in Seq(Events)
  BY WriteSeqs
<1>2. \A j \in JournalStates : Leads(j, <<e>>, Fold(j, e)) /\ Fold(j, e) \in JournalStates
  BY LeadsOneOn, FoldType
<1>. QED
  BY <1>1, <1>2 DEF Becomes

LEMMA BecomesFurther ==
    ASSUME NEW l, NEW m, NEW n, NEW s, NEW t, Becomes(l, s, m), Becomes(m, t, n)
    PROVE  Becomes(l, s \o t, n)
<1>1. s \in Seq(Events) /\ t \in Seq(Events)
  BY DEF Becomes
<1>2. s \o t \in Seq(Events)
  BY <1>1, WriteSeqs
<1>3. ASSUME NEW j \in JournalStates, Agrees(j, l)
      PROVE  \E k \in JournalStates : Leads(j, s \o t, k) /\ Agrees(k, n)
  <2>1. PICK i \in JournalStates : Leads(j, s, i) /\ Agrees(i, m)
    BY <1>3 DEF Becomes
  <2>2. PICK k \in JournalStates : Leads(i, t, k) /\ Agrees(k, n)
    BY <2>1 DEF Becomes
  <2>3. Leads(j, s \o t, k)
    BY <1>1, <2>1, <2>2, LeadsFurther
  <2>. QED
    BY <2>2, <2>3
<1>. QED
  BY <1>2, <1>3 DEF Becomes

LEMMA BecomesTwice ==
    ASSUME NEW l, NEW m, NEW n, NEW a \in Events, NEW b \in Events,
           Becomes(l, <<a>>, m), Becomes(m, <<b>>, n)
    PROVE  Becomes(l, <<a, b>>, n)
<1>. DEFINE u == <<a>> \o <<b>>
            v == <<a, b>>
<1>1. u = v
  <2>1. <<a>> \in Seq(Events) /\ <<b>> \in Seq(Events) /\ v \in Seq(Events)
    BY WriteSeqs
  <2>2. u \in Seq(Events) /\ Len(u) = 2 /\ u[1] = a /\ u[1 + 1] = b
    BY <2>1, ConcatProperties
  <2>3. Len(v) = 2 /\ v[1] = a /\ v[2] = b
    OBVIOUS
  <2>. HIDE DEF u, v
  <2>. QED
    BY <2>1, <2>2, <2>3, SeqEqual
<1>. QED
  BY <1>1, BecomesFurther

LEMMA BecomesThrice ==
    ASSUME NEW l, NEW m, NEW n, NEW a \in Events, NEW b \in Events, NEW c \in Events,
           Becomes(l, <<a>>, m), Becomes(m, <<b, c>>, n)
    PROVE  Becomes(l, <<a, b, c>>, n)
<1>. DEFINE u == <<a>> \o <<b, c>>
            v == <<a, b, c>>
<1>1. u = v
  <2>1. <<a>> \in Seq(Events) /\ <<b, c>> \in Seq(Events) /\ v \in Seq(Events)
    BY WriteSeqs
  <2>2. u \in Seq(Events) /\ Len(u) = 3 /\ u[1] = a /\ u[1 + 1] = b /\ u[1 + 2] = c
    BY <2>1, ConcatProperties
  <2>3. Len(v) = 3 /\ v[1] = a /\ v[2] = b /\ v[3] = c
    OBVIOUS
  <2>. HIDE DEF u, v
  <2>. QED
    BY <2>1, <2>2, <2>3, SeqEqual
<1>. QED
  BY <1>1, BecomesFurther

-----------------------------------------------------------------------------
(* One line of the journal for each change in memory *)

\* Lines that only the step in progress or the models read.
SilentEvents ==
    {e \in Events : e.kind \in {"submit_spec", "submit_summary", "run_gate", "dispatch",
                                "brief", "judge", "session_closed", "REMEMBER.json",
                                "SPEC.md", "SUMMARY.md"}}

LEMMA SilentLine ==
    ASSUME NEW l, NEW e \in SilentEvents
    PROVE  Becomes(l, <<e>>, l)
<1>1. e \in Events
  BY DEF SilentEvents
<1>2. ASSUME NEW j \in JournalStates, Agrees(j, l)
      PROVE  Agrees(Fold(j, e), l)
  <2>. DEFINE k == Fold(j, e)
  <2>1. /\ k.stage = j.stage /\ k.step = j.step /\ k.halt = j.halt /\ k.down = j.down
        /\ k.executed = j.executed /\ k.gates = j.gates /\ k.tries = j.tries /\ k.effects = j.effects
    BY DEF SilentEvents, Fold, FoldDispatch, JournalStates
  <2>. HIDE DEF k
  <2>2. Agrees(k, l)
    BY <1>2, <2>1 DEF Agrees
  <2>. QED
    BY <2>2 DEF k
<1>. QED
  BY <1>1, <1>2, BecomesOnce

LEMMA SilentConstructors ==
    /\ EvSpec \in SilentEvents /\ EvSummary \in SilentEvents
    /\ FileApplied \in SilentEvents /\ FileSpec \in SilentEvents /\ FileSummary \in SilentEvents
    /\ \A g \in GateStates : EvRunGate(g) \in SilentEvents
    /\ \A n \in Nat, S \in SUBSET Ids, R \in SUBSET Ids, P \in SUBSET Ids :
          EvDispatch(n, S, R, P) \in SilentEvents
    /\ \A i \in Ids, g \in GateStates \cup {NoGate} : EvBrief(i, g) \in SilentEvents
    /\ \A d \in Decisions : EvJudge(d) \in SilentEvents
    /\ \A v \in Verdicts : EvClosed(v) \in SilentEvents
<1>1. \A v \in Verdicts : EvClosed(v) \in SilentEvents
  BY DEF SilentEvents, EvClosed, Events
<1>. QED
  BY <1>1, InnerConstructors, EventsAreEvents
  DEF InnerEvents, SilentEvents, EvSpec, EvSummary, FileApplied, FileSpec, FileSummary,
      EvRunGate, EvDispatch, EvBrief, EvJudge

LEMMA StageLine ==
    ASSUME NEW l \in LabStates, NEW stage \in Stages, NEW step \in Nat
    PROVE  Becomes(l, <<EvStage(stage, step)>>, [l EXCEPT !.stage = stage, !.step = step])
<1>. DEFINE e == EvStage(stage, step)
<1>1. e \in Events
  BY InnerConstructors DEF InnerEvents
<1>2. \A j \in JournalStates : Fold(j, e) = [j EXCEPT !.stage = stage, !.step = step]
  BY DEF Fold, EvStage
<1>. HIDE DEF e
<1>3. ASSUME NEW j \in JournalStates, Agrees(j, l)
      PROVE  Agrees(Fold(j, e), [l EXCEPT !.stage = stage, !.step = step])
  <2>. DEFINE k == Fold(j, e)
              m == [l EXCEPT !.stage = stage, !.step = step]
  <2>1. /\ k.stage = stage /\ k.step = step /\ k.halt = j.halt /\ k.down = j.down
        /\ k.executed = j.executed /\ k.gates = j.gates /\ k.tries = j.tries /\ k.effects = j.effects
    BY ZenonT(60), <1>2 DEF JournalStates
  <2>2. /\ m.stage = stage /\ m.step = step /\ m.halt = l.halt /\ m.down = l.down
        /\ m.executed = l.executed /\ m.gates = l.gates /\ m.tries = l.tries /\ m.ledger = l.ledger
    BY <1>2 DEF LabStates
  <2>. HIDE DEF k, m
  <2>3. Agrees(k, m)
    BY <1>3, <2>1, <2>2 DEF Agrees
  <2>. QED
    BY <2>3 DEF k, m
<1>4. Becomes(l, <<e>>, [l EXCEPT !.stage = stage, !.step = step])
  BY <1>1, <1>3, BecomesOnce
<1>. QED
  BY <1>4 DEF e

LEMMA HaltLine ==
    ASSUME NEW l \in LabStates
    PROVE  Becomes(l, <<EvHalt>>, [l EXCEPT !.halt = TRUE])
<1>1. EvHalt \in Events
  BY EventsAreEvents
<1>2. \A j \in JournalStates : Fold(j, EvHalt) = [j EXCEPT !.halt = TRUE]
  BY DEF Fold, EvHalt
<1>3. ASSUME NEW j \in JournalStates, Agrees(j, l)
      PROVE  Agrees(Fold(j, EvHalt), [l EXCEPT !.halt = TRUE])
  <2>. DEFINE k == Fold(j, EvHalt)
              m == [l EXCEPT !.halt = TRUE]
  <2>1. /\ k.halt = TRUE /\ k.stage = j.stage /\ k.step = j.step /\ k.down = j.down
        /\ k.executed = j.executed /\ k.gates = j.gates /\ k.tries = j.tries /\ k.effects = j.effects
    BY <1>2 DEF JournalStates
  <2>2. /\ m.halt = TRUE /\ m.stage = l.stage /\ m.step = l.step /\ m.down = l.down
        /\ m.executed = l.executed /\ m.gates = l.gates /\ m.tries = l.tries /\ m.ledger = l.ledger
    BY <1>2 DEF LabStates
  <2>. HIDE DEF k, m
  <2>3. Agrees(k, m)
    BY <1>3, <2>1, <2>2 DEF Agrees
  <2>. QED
    BY <2>3 DEF k, m
<1>. QED
  BY <1>1, <1>3, BecomesOnce

LEMMA DownLine ==
    ASSUME NEW l \in LabStates
    PROVE  Becomes(l, <<EvDown>>, [l EXCEPT !.down = TRUE])
<1>1. EvDown \in Events
  BY EventsAreEvents
<1>2. \A j \in JournalStates : Fold(j, EvDown) = [j EXCEPT !.down = TRUE]
  BY DEF Fold, EvDown
<1>3. ASSUME NEW j \in JournalStates, Agrees(j, l)
      PROVE  Agrees(Fold(j, EvDown), [l EXCEPT !.down = TRUE])
  <2>. DEFINE k == Fold(j, EvDown)
              m == [l EXCEPT !.down = TRUE]
  <2>1. /\ k.down = TRUE /\ k.stage = j.stage /\ k.step = j.step /\ k.halt = j.halt
        /\ k.executed = j.executed /\ k.gates = j.gates /\ k.tries = j.tries /\ k.effects = j.effects
    BY <1>2 DEF JournalStates
  <2>2. /\ m.down = TRUE /\ m.stage = l.stage /\ m.step = l.step /\ m.halt = l.halt
        /\ m.executed = l.executed /\ m.gates = l.gates /\ m.tries = l.tries /\ m.ledger = l.ledger
    BY <1>2 DEF LabStates
  <2>. HIDE DEF k, m
  <2>3. Agrees(k, m)
    BY <1>3, <2>1, <2>2 DEF Agrees
  <2>. QED
    BY <2>3 DEF k, m
<1>. QED
  BY <1>1, <1>3, BecomesOnce

LEMMA ExecutedLine ==
    ASSUME NEW l \in LabStates, NEW ids \in SUBSET Ids
    PROVE  Becomes(l, <<EvExecuted(ids)>>, [l EXCEPT !.executed = ids])
<1>. DEFINE e == EvExecuted(ids)
<1>1. e \in Events
  BY InnerConstructors DEF InnerEvents
<1>2. \A j \in JournalStates : Fold(j, e) = [j EXCEPT !.executed = ids]
  BY DEF Fold, EvExecuted
<1>. HIDE DEF e
<1>3. \A j \in JournalStates :
        Agrees(j, l)
          => Agrees(Fold(j, e), [l EXCEPT !.executed = ids])
  BY <1>2 DEF JournalStates, LabStates, Agrees
<1>4. Becomes(l, <<e>>, [l EXCEPT !.executed = ids])
  BY <1>1, <1>3, BecomesOnce
<1>. QED
  BY <1>4 DEF e

LEMMA GateLine ==
    ASSUME NEW l \in LabStates, NEW i \in Ids, NEW gate \in GateStates
    PROVE  Becomes(l, GateWrites(l, i, gate), Recorded(l, i, gate))
<1>. DEFINE count == IF gate # TestInvalid THEN 0
                     ELSE IF l.tries[i] < MaxGateRuns THEN l.tries[i] + 1 ELSE l.tries[i]
            e == EvGate(i, gate, count)
<1>1. l.gates \in [Ids -> GateStates \cup {NoGate}] /\ l.tries \in [Ids -> Nat]
  BY DEF LabStates
<1>2. count \in Nat
  BY <1>1
<1>3. Recorded(l, i, gate) = [l EXCEPT !.gates[i] = gate, !.tries[i] = count]
  BY <1>1 DEF Recorded
<1>. HIDE DEF count
<1>4. [l EXCEPT !.gates[i] = gate, !.tries[i] = count].tries[i] = count
  BY <1>1 DEF LabStates
<1>5. GateWrites(l, i, gate) = <<e>>
  BY <1>3, <1>4 DEF GateWrites
<1>6. e \in Events
  BY <1>2, InnerConstructors DEF InnerEvents
<1>7. \A j \in JournalStates : Fold(j, e) = [j EXCEPT !.gates[i] = gate, !.tries[i] = count]
  BY DEF Fold, FoldGate, EvGate
<1>. HIDE DEF e
<1>8. ASSUME NEW j \in JournalStates, Agrees(j, l)
      PROVE  Agrees(Fold(j, e), Recorded(l, i, gate))
  <2>. DEFINE k == Fold(j, e)
              m == Recorded(l, i, gate)
  <2>1. /\ k.gates = [j.gates EXCEPT ![i] = gate]
        /\ k.tries = [j.tries EXCEPT ![i] = count]
        /\ k.stage = j.stage /\ k.step = j.step
        /\ k.halt = j.halt /\ k.down = j.down /\ k.executed = j.executed /\ k.effects = j.effects
    BY ZenonT(60), <1>7 DEF JournalStates
  <2>2. /\ m.gates = [l.gates EXCEPT ![i] = gate]
        /\ m.tries = [l.tries EXCEPT ![i] = count]
        /\ m.stage = l.stage /\ m.step = l.step
        /\ m.halt = l.halt /\ m.down = l.down /\ m.executed = l.executed /\ m.ledger = l.ledger
    BY <1>3 DEF LabStates
  <2>. HIDE DEF k, m
  <2>3. Agrees(k, m)
    BY <1>8, <2>1, <2>2 DEF Agrees
  <2>. QED
    BY <2>3 DEF k, m
<1>. QED
  BY <1>5, <1>6, <1>8, BecomesOnce

\* The ledger of a brief: recorded, dropped, or left as it is.
LEMMA LedgerLine ==
    ASSUME NEW l \in LabStates, NEW i \in Ids, NEW good \in BOOLEAN, NEW prints \in BOOLEAN
    PROVE  Becomes(l, LedgerWrites(l, i, good, prints), Ledgered(l, i, good, prints))
<1>1. CASE good /\ prints
  <2>1. EvRecord(i) \in Events
    BY InnerConstructors DEF InnerEvents
  <2>2. \A j \in JournalStates : Fold(j, EvRecord(i)) = [j EXCEPT !.effects = @ \cup {i}]
    BY DEF Fold, EvRecord
  <2>3. Ledgered(l, i, good, prints) = [l EXCEPT !.ledger = @ \cup {i}]
    BY <1>1 DEF Ledgered
  <2>4. \A j \in JournalStates :
          Agrees(j, l)
            => Agrees(Fold(j, EvRecord(i)), Ledgered(l, i, good, prints))
    BY <2>2, <2>3 DEF JournalStates, LabStates, Agrees
  <2>. QED
    BY <1>1, <2>1, <2>4, BecomesOnce DEF LedgerWrites
<1>2. CASE good /\ ~prints
  <2>1. SameMemory(l, Ledgered(l, i, good, prints))
    BY <1>2 DEF Ledgered, LabStates, SameMemory
  <2>. QED
    BY <1>2, <2>1, BecomesSame DEF LedgerWrites
<1>3. CASE ~good /\ i \in l.ledger
  <2>1. EvDrop(i) \in Events
    BY InnerConstructors DEF InnerEvents
  <2>2. \A j \in JournalStates : Fold(j, EvDrop(i)) = [j EXCEPT !.effects = @ \ {i}]
    BY DEF Fold, EvDrop
  <2>3. Ledgered(l, i, good, prints) = [l EXCEPT !.ledger = @ \ {i}]
    BY <1>3 DEF Ledgered
  <2>4. \A j \in JournalStates :
          Agrees(j, l)
            => Agrees(Fold(j, EvDrop(i)), Ledgered(l, i, good, prints))
    BY <2>2, <2>3 DEF JournalStates, LabStates, Agrees
  <2>. QED
    BY <1>3, <2>1, <2>4, BecomesOnce DEF LedgerWrites
<1>4. CASE ~good /\ i \notin l.ledger
  <2>1. l.ledger \ {i} = l.ledger
    BY <1>4
  <2>2. SameMemory(l, Ledgered(l, i, good, prints))
    BY <1>4, <2>1 DEF Ledgered, LabStates, SameMemory
  <2>. QED
    BY <1>4, <2>2, BecomesSame DEF LedgerWrites
<1>. QED
  BY <1>1, <1>2, <1>3, <1>4

\* What no journal knows may change beside the writes.
LEMMA BecomesLike ==
    ASSUME NEW l, NEW ws, NEW m, NEW n, Becomes(l, ws, m), SameMemory(m, n)
    PROVE  Becomes(l, ws, n)
BY DEF Becomes, Agrees, SameMemory

LEMMA DownLines ==
    ASSUME NEW l \in LabStates
    PROVE  Becomes(l, DownWrites(l), Downed(l))
<1>1. CASE l.down
  BY <1>1, BecomesSame DEF DownWrites, Downed, SameMemory
<1>2. CASE ~l.down
  <2>. DEFINE m == [l EXCEPT !.down = TRUE]
              n == [m EXCEPT !.stage = "summary", !.step = l.step]
  <2>1. m \in LabStates /\ l.step \in Nat
    BY DEF LabStates
  <2>2. Becomes(l, <<EvDown>>, m)
    BY DownLine
  <2>3. Becomes(m, <<EvStage("summary", l.step)>>, n)
    <3>. HIDE DEF m
    <3>. QED
      BY <2>1, StageLine
  <2>4. EvDown \in Events /\ EvStage("summary", l.step) \in Events
    BY <2>1, InnerConstructors DEF InnerEvents
  <2>5. SameMemory(n, Downed(l))
    BY <1>2 DEF Downed, SameMemory, LabStates
  <2>. HIDE DEF m, n
  <2>6. Becomes(l, <<EvDown, EvStage("summary", l.step)>>, n)
    BY <2>2, <2>3, <2>4, BecomesTwice
  <2>. QED
    BY <1>2, <2>5, <2>6, BecomesLike DEF DownWrites
<1>. QED
  BY <1>1, <1>2

LEMMA CommitLines ==
    ASSUME NEW l \in LabStates, NEW i \in Ids, NEW gate \in GateStates \cup {NoGate},
           NEW good \in BOOLEAN, NEW prints \in BOOLEAN
    PROVE  Becomes(l, CommitWrites(l, i, good, prints, gate),
                   Committed(l, i, good, prints, gate))
<1>. DEFINE m == Ledgered(l, i, good, prints)
            n == Committed(l, i, good, prints, gate)
            gates == IF gate = NoGate THEN <<>> ELSE GateWrites(l, i, gate)
<1>1. m \in LabStates /\ m.tries = l.tries
  BY DEF Ledgered, LabStates
<1>2. Becomes(l, LedgerWrites(l, i, good, prints), m)
  BY LedgerLine
<1>3. Becomes(m, gates, n)
  <2>1. CASE gate = NoGate
    BY <2>1, BecomesSame DEF Committed, SameMemory
  <2>2. CASE gate # NoGate
    <3>. HIDE DEF m
    <3>1. Becomes(m, GateWrites(m, i, gate), Recorded(m, i, gate))
      BY <1>1, <2>2, GateLine
    <3>2. GateWrites(m, i, gate) = GateWrites(l, i, gate)
      <4>1. Recorded(m, i, gate).tries = Recorded(l, i, gate).tries
        BY <1>1 DEF Recorded, LabStates
      <4>. QED
        BY <4>1 DEF GateWrites
    <3>. QED
      BY <2>2, <3>1, <3>2 DEF Committed, m
  <2>. QED
    BY <2>1, <2>2
<1>4. Becomes(n, <<EvBrief(i, gate)>>, n)
  BY SilentLine, SilentConstructors
<1>. HIDE DEF m, n, gates
<1>5. Becomes(l, LedgerWrites(l, i, good, prints) \o gates \o <<EvBrief(i, gate)>>, n)
  BY <1>2, <1>3, <1>4, BecomesFurther
<1>. QED
  BY <1>5 DEF CommitWrites, gates, n

-----------------------------------------------------------------------------
(* Every step of a run hands over the lines that its change of memory needs *)

IsRecorded == Becomes(lab, writes', lab')

\* The lines the phases are made of.
LEMMA PhaseLines ==
    ASSUME lab \in LabStates
    PROVE  /\ Becomes(lab, <<>>, lab)
           /\ Becomes(lab, DownWrites(lab), Downed(lab)) /\ Downed(lab) \in LabStates
           /\ Becomes(lab, <<EvHalt>>, [lab EXCEPT !.halt = TRUE])
           /\ \A e \in SilentEvents : \A l : Becomes(l, <<e>>, l)
           /\ \A l \in LabStates, stage \in Stages :
                 /\ Becomes(l, <<EvStage(stage, l.step)>>, [l EXCEPT !.stage = stage])
                 /\ EvStage(stage, l.step) \in Events
<1>1. ASSUME NEW l \in LabStates, NEW stage \in Stages
      PROVE  /\ Becomes(l, <<EvStage(stage, l.step)>>, [l EXCEPT !.stage = stage])
             /\ EvStage(stage, l.step) \in Events
  <2>1. l.step \in Nat
    BY DEF LabStates
  <2>2. Becomes(l, <<EvStage(stage, l.step)>>, [l EXCEPT !.stage = stage, !.step = l.step])
    BY <2>1, StageLine
  <2>3. SameMemory([l EXCEPT !.stage = stage, !.step = l.step], [l EXCEPT !.stage = stage])
    BY DEF SameMemory, LabStates
  <2>. QED
    BY <2>1, <2>2, <2>3, BecomesLike, InnerConstructors DEF InnerEvents
<1>2. Becomes(lab, <<>>, lab)
  BY BecomesSame DEF SameMemory
<1>. QED
  BY <1>1, <1>2, DownLines, DownedType, HaltLine, SilentLine

LEMMA RememberIsRecorded ==
    ASSUME StateTypes, RememberSteps
    PROVE  IsRecorded
<1>. USE DEF IsRecorded, Goto
<1>0. lab \in LabStates
  BY DEF StateTypes
<1>1. CASE RememberSkips \/ RememberDrives
  BY <1>0, <1>1, PhaseLines, SilentConstructors DEF RememberSkips, RememberDrives
<1>2. CASE RememberSubmits
  <2>1. Becomes(lab, <<FileApplied>>, lab)
    BY <1>0, PhaseLines, SilentConstructors
  <2>2. Becomes(lab, <<EvStage("spec", lab.step)>>, [lab EXCEPT !.stage = "spec"])
    BY <1>0, PhaseLines
  <2>3. FileApplied \in Events /\ EvStage("spec", lab.step) \in Events
    BY <1>0, PhaseLines, EventsAreEvents
  <2>. QED
    BY <1>2, <2>1, <2>2, <2>3, BecomesTwice DEF RememberSubmits
<1>3. CASE RememberHalts
  <2>. DEFINE m == [lab EXCEPT !.halt = TRUE]
  <2>1. m \in LabStates /\ m.step = lab.step
    BY <1>0 DEF LabStates
  <2>2. Becomes(lab, <<EvHalt>>, m)
    BY <1>0, PhaseLines
  <2>3. lab' = [m EXCEPT !.stage = "summary"]
    BY <1>3 DEF RememberHalts
  <2>. HIDE DEF m
  <2>4. Becomes(m, <<FileApplied>>, m)
    BY <1>0, PhaseLines, SilentConstructors
  <2>5. /\ Becomes(m, <<EvStage("summary", lab.step)>>, [m EXCEPT !.stage = "summary"])
        /\ EvStage("summary", lab.step) \in Events
    BY <1>0, <2>1, PhaseLines
  <2>6. Becomes(m, <<FileApplied, EvStage("summary", lab.step)>>, lab')
    BY <2>3, <2>4, <2>5, BecomesTwice, EventsAreEvents
  <2>. QED
    BY <1>3, <2>2, <2>5, <2>6, BecomesThrice, EventsAreEvents DEF RememberHalts
<1>4. CASE RememberLosesSandbox
  <2>. DEFINE m == Downed(lab)
  <2>1. m \in LabStates /\ m.step = lab.step
    BY <1>0, DownedType DEF Downed, LabStates
  <2>2. Becomes(lab, DownWrites(lab), m)
    BY <1>0, PhaseLines
  <2>3. /\ lab' = [m EXCEPT !.stage = "spec"]
        /\ writes' = DownWrites(lab) \o <<FileApplied, EvStage("spec", lab.step)>>
    BY <1>4 DEF RememberLosesSandbox
  <2>. HIDE DEF m
  <2>4. Becomes(m, <<FileApplied>>, m)
    BY <1>0, PhaseLines, SilentConstructors
  <2>5. /\ Becomes(m, <<EvStage("spec", lab.step)>>, [m EXCEPT !.stage = "spec"])
        /\ EvStage("spec", lab.step) \in Events
    BY <1>0, <2>1, PhaseLines
  <2>6. Becomes(m, <<FileApplied, EvStage("spec", lab.step)>>, lab')
    BY <2>3, <2>4, <2>5, BecomesTwice, EventsAreEvents
  <2>. QED
    BY <2>2, <2>3, <2>6, BecomesFurther
<1>. QED
  BY <1>1, <1>2, <1>3, <1>4 DEF RememberSteps

LEMMA SpecIsRecorded ==
    ASSUME StateTypes, SpecSteps
    PROVE  IsRecorded
<1>. USE DEF IsRecorded, Goto
<1>0. lab \in LabStates
  BY DEF StateTypes
<1>1. CASE SpecSkips \/ SpecDrives
  BY <1>0, <1>1, PhaseLines DEF SpecSkips, SpecDrives
<1>2. /\ Becomes(lab, <<EvStage("advance", lab.step)>>, [lab EXCEPT !.stage = "advance"])
      /\ EvStage("advance", lab.step) \in Events
      /\ Becomes(lab, <<FileSpec>>, lab) /\ Becomes(lab, <<EvSpec>>, lab)
  BY <1>0, PhaseLines, SilentConstructors
<1>3. Becomes(lab, <<FileSpec, EvStage("advance", lab.step)>>, [lab EXCEPT !.stage = "advance"])
  BY <1>2, BecomesTwice, EventsAreEvents
<1>4. CASE SpecReused
  <2>. DEFINE kept == Resumables(lab)
  <2>. HIDE DEF kept
  <2>1. CASE lab.stage \in {"remember", "spec"}
    <3>1. /\ lab' = [lab EXCEPT !.resumable = kept, !.stage = "advance"]
          /\ writes' = <<FileSpec, EvStage("advance", lab.step)>>
      BY <1>4, <2>1 DEF SpecReused, kept
    <3>2. SameMemory([lab EXCEPT !.stage = "advance"], lab')
      BY <1>0, <3>1 DEF SameMemory, LabStates
    <3>. QED
      BY <1>3, <3>1, <3>2, BecomesLike
  <2>2. CASE lab.stage \notin {"remember", "spec"}
    <3>1. /\ lab' = [lab EXCEPT !.resumable = kept, !.stage = lab.stage]
          /\ writes' = <<FileSpec>>
      BY <1>4, <2>2 DEF SpecReused, kept
    <3>2. SameMemory(lab, lab')
      BY <1>0, <3>1 DEF SameMemory, LabStates
    <3>. QED
      BY <1>2, <3>1, <3>2, BecomesLike
  <2>. QED
    BY <2>1, <2>2
<1>5. CASE SpecSubmits
  <2>. DEFINE kept == Resumables(lab)
  <2>. HIDE DEF kept
  <2>1. /\ lab' = [lab EXCEPT !.resumable = kept, !.stage = "advance"]
        /\ writes' = <<EvSpec, FileSpec, EvStage("advance", lab.step)>>
    BY <1>5 DEF SpecSubmits, kept
  <2>2. SameMemory([lab EXCEPT !.stage = "advance"], lab')
    BY <1>0, <2>1 DEF SameMemory, LabStates
  <2>3. Becomes(lab, <<EvSpec, FileSpec, EvStage("advance", lab.step)>>,
                [lab EXCEPT !.stage = "advance"])
    BY <1>2, <1>3, BecomesThrice, EventsAreEvents
  <2>. QED
    BY <2>1, <2>2, <2>3, BecomesLike
<1>6. CASE SpecHalts
  <2>. DEFINE m == [lab EXCEPT !.halt = TRUE]
  <2>1. m \in LabStates /\ m.step = lab.step
    BY <1>0 DEF LabStates
  <2>2. Becomes(lab, <<EvHalt>>, m)
    BY <1>0, PhaseLines
  <2>3. lab' = [m EXCEPT !.stage = "summary"]
    BY <1>6 DEF SpecHalts
  <2>. HIDE DEF m
  <2>4. /\ Becomes(m, <<EvStage("summary", lab.step)>>, [m EXCEPT !.stage = "summary"])
        /\ EvStage("summary", lab.step) \in Events
    BY <1>0, <2>1, PhaseLines
  <2>5. writes' = <<EvHalt, EvStage("summary", lab.step)>>
    BY <1>6 DEF SpecHalts
  <2>6. Becomes(m, <<EvStage("summary", lab.step)>>, lab')
    BY <2>3, <2>4
  <2>. QED
    BY <2>2, <2>4, <2>5, <2>6, BecomesTwice, EventsAreEvents
<1>7. CASE SpecLosesSandbox
  <2>. DEFINE m == Downed(lab)
  <2>1. m \in LabStates /\ m.step = lab.step
    BY <1>0, DownedType DEF Downed, LabStates
  <2>2. Becomes(lab, DownWrites(lab), m)
    BY <1>0, PhaseLines
  <2>3. /\ lab' = [m EXCEPT !.stage = "summary"]
        /\ writes' = DownWrites(lab) \o <<EvStage("summary", lab.step)>>
    BY <1>7 DEF SpecLosesSandbox
  <2>. HIDE DEF m
  <2>4. Becomes(m, <<EvStage("summary", lab.step)>>, [m EXCEPT !.stage = "summary"])
    BY <1>0, <2>1, PhaseLines
  <2>. QED
    BY <2>2, <2>3, <2>4, BecomesFurther
<1>. QED
  BY <1>1, <1>4, <1>5, <1>6, <1>7 DEF SpecSteps

LEMMA EndIsRecorded ==
    ASSUME StateTypes, SummarySteps \/ WriteSummary \/ CloseSession
    PROVE  IsRecorded
<1>. USE DEF IsRecorded, Goto
<1>0. lab \in LabStates
  BY DEF StateTypes
<1>1. CASE WrapUp
  BY <1>0, <1>1, PhaseLines DEF WrapUp
<1>2. CASE SummaryReused \/ SummaryDrives
  BY <1>0, <1>2, PhaseLines DEF SummaryReused, SummaryDrives
<1>3. CASE SummarySubmits \/ WriteSummary
  BY <1>0, <1>3, PhaseLines, SilentConstructors DEF SummarySubmits, WriteSummary
<1>4. CASE SummaryLosesSandbox
  BY <1>0, <1>4, PhaseLines DEF SummaryLosesSandbox
<1>5. CASE CloseSession
  <2>1. Verdict(lab) \in Verdicts
    <3>1. SummaryGate(lab) \in GateStates
      BY <1>0, WorstGateType DEF SummaryGate, LabStates
    <3>. QED
      BY <3>1 DEF Verdict
  <2>. QED
    BY <1>0, <1>5, <2>1, PhaseLines, SilentConstructors DEF CloseSession
<1>. QED
  BY <1>1, <1>2, <1>3, <1>4, <1>5 DEF SummarySteps

LEMMA AdvanceIsRecorded ==
    ASSUME StateTypes, AdvanceSteps
    PROVE  IsRecorded
<1>. USE DEF IsRecorded, Goto
<1>0. lab \in LabStates
  BY DEF StateTypes
<1>1. CASE AdvanceStarts
  <2>1. writes' = <<>>
    BY <1>1 DEF AdvanceStarts
  <2>2. SameMemory(lab, lab')
    BY <1>0, <1>1 DEF AdvanceStarts, SameMemory, LabStates
  <2>. QED
    BY <2>1, <2>2, BecomesSame
<1>2. CASE AdvanceEnds \/ StepDrivesDispatch \/ StepResumesDecision \/ StepResumesWork
  <2>1. writes' = <<>> /\ lab' = lab
    BY <1>2 DEF AdvanceEnds, StepDrivesDispatch, StepResumesDecision, StepResumesWork
  <2>. QED
    BY <1>0, <2>1, PhaseLines
<1>. QED
  BY <1>1, <1>2 DEF AdvanceSteps

LEMMA DispatchIsRecorded ==
    ASSUME StateTypes, DispatchSteps
    PROVE  IsRecorded
<1>. USE DEF IsRecorded, Goto
<1>0. lab \in LabStates
  BY DEF StateTypes
<1>1. CASE DispatchHalts \/ DispatchLosesSandbox \/ DispatchEmpty \/ DispatchRefused
  BY <1>0, <1>1, PhaseLines
  DEF DispatchHalts, DispatchLosesSandbox, DispatchEmpty, DispatchRefused
<1>2. ASSUME NEW asg \in SUBSET Ids, DispatchSubmits(asg)
      PROVE  IsRecorded
  <2>. DEFINE run == RunOf(asg, lab.resumable, lab.executed, lab.gates, lab.tries)
              replay == ReplayedOf(asg, lab.resumable, lab.executed, lab.gates, lab.tries)
              executed == lab.executed \cup (asg \ lab.resumable)
              waiting == lab.resumable \ asg
  \* What is neither run nor judged again was executed before.
  <2>1. run = {} => executed = lab.executed
    BY DEF RunOf
  <2>2. run \in SUBSET Ids /\ replay \in SUBSET Ids /\ executed \in SUBSET Ids
    BY <1>0 DEF RunOf, ReplayedOf, LabStates
  <2>3. /\ lab' = [lab EXCEPT !.resumable = waiting, !.executed = executed]
        /\ \/ run = {} /\ writes' = <<>>
           \/ writes' = <<EvDispatch(lab.step + 1, asg, run, replay), EvExecuted(executed)>>
    BY <1>2 DEF DispatchSubmits, DispatchWrites
  <2>. HIDE DEF run, replay, executed, waiting
  <2>4. SameMemory([lab EXCEPT !.executed = executed], lab')
    BY <1>0, <2>3 DEF SameMemory, LabStates
  <2>5. CASE run = {} /\ writes' = <<>>
    <3>1. SameMemory(lab, lab')
      BY <1>0, <2>1, <2>3, <2>5 DEF SameMemory, LabStates
    <3>. QED
      BY <2>5, <3>1, BecomesSame
  <2>6. CASE writes' = <<EvDispatch(lab.step + 1, asg, run, replay), EvExecuted(executed)>>
    <3>1. lab.step + 1 \in Nat
      BY <1>0 DEF LabStates
    <3>2. /\ Becomes(lab, <<EvDispatch(lab.step + 1, asg, run, replay)>>, lab)
          /\ EvDispatch(lab.step + 1, asg, run, replay) \in Events
      BY <2>2, <3>1, SilentLine, SilentConstructors DEF SilentEvents
    <3>3. /\ Becomes(lab, <<EvExecuted(executed)>>, [lab EXCEPT !.executed = executed])
          /\ EvExecuted(executed) \in Events
      BY <1>0, <2>2, ExecutedLine, InnerConstructors DEF InnerEvents
    <3>4. Becomes(lab, writes', [lab EXCEPT !.executed = executed])
      BY <2>6, <3>2, <3>3, BecomesTwice
    <3>. QED
      BY <2>4, <3>4, BecomesLike
  <2>. QED
    BY <2>3, <2>5, <2>6
<1>. QED
  BY <1>1, <1>2 DEF DispatchSteps

LEMMA WaveIsRecorded ==
    ASSUME StateTypes, WaveSteps
    PROVE  IsRecorded
<1>. USE DEF IsRecorded, Goto
<1>0. lab \in LabStates
  BY DEF StateTypes
<1>1. ASSUME NEW i \in Ids, NEW gate \in GateStates
      PROVE  /\ Recorded(lab, i, gate) \in LabStates
             /\ Becomes(lab, GateWrites(lab, i, gate) \o <<EvBrief(i, gate)>>,
                        Recorded(lab, i, gate))
  <2>1. Becomes(lab, GateWrites(lab, i, gate), Recorded(lab, i, gate))
    BY <1>0, GateLine
  <2>2. Becomes(Recorded(lab, i, gate), <<EvBrief(i, gate)>>, Recorded(lab, i, gate))
    BY SilentLine, SilentConstructors
  <2>. QED
    BY <1>0, <2>1, <2>2, BecomesFurther, RecordedType
<1>2. ASSUME NEW i \in Ids, NEW o \in WorkerOutcomes, NEW prints \in BOOLEAN,
             WorkerReturns(i, o, prints)
      PROVE  IsRecorded
  <2>. DEFINE good == o.done /\ o.gate \in GoodGates
  <2>1. o.gate \in GateStates \cup {NoGate} /\ good \in BOOLEAN
    BY ResultsAreGates DEF WorkerOutcomes
  <2>2. /\ lab' = Committed(lab, i, good, prints, o.gate)
        /\ writes' = CommitWrites(lab, i, good, prints, o.gate)
    BY <1>2 DEF WorkerReturns
  <2>. HIDE DEF good
  <2>. QED
    BY <1>0, <2>1, <2>2, CommitLines
<1>3. ASSUME NEW i \in Ids, Blocks(i)
      PROVE  IsRecorded
  BY <1>0, <1>3, CommitLines DEF Blocks
<1>4. CASE WaveEnds
  BY <1>0, <1>4, PhaseLines DEF WaveEnds
<1>5. ASSUME NEW i \in Ids, NEW gate \in GateStates, ReplayReturns(i, gate)
      PROVE  IsRecorded
  BY <1>1, <1>5 DEF ReplayReturns
<1>6. ASSUME NEW i \in Ids, ReplayLosesSandbox(i)
      PROVE  IsRecorded
  <2>. DEFINE l == Recorded(lab, i, TestInvalid)
              s == GateWrites(lab, i, TestInvalid) \o <<EvBrief(i, TestInvalid)>>
  <2>1. l \in LabStates /\ Becomes(lab, s, l)
    BY <1>1
  <2>2. lab' = Downed(l) /\ writes' = s \o DownWrites(l)
    BY <1>6 DEF ReplayLosesSandbox
  <2>. HIDE DEF l, s
  <2>3. Becomes(l, DownWrites(l), Downed(l))
    BY <2>1, DownLines
  <2>. QED
    BY <2>1, <2>2, <2>3, BecomesFurther
<1>7. CASE ReplayEnds
  <2>. DEFINE gate == WorstGate({cur.worst})
  <2>1. gate \in GateStates
    BY WorstGateType
  <2>2. lab' = [lab EXCEPT !.runGate = gate] /\ writes' = <<EvRunGate(gate)>>
    BY <1>7 DEF ReplayEnds
  <2>. HIDE DEF gate
  <2>3. SameMemory(lab, lab')
    BY <1>0, <2>2 DEF SameMemory, LabStates
  <2>. QED
    BY <2>1, <2>2, <2>3, SilentLine, SilentConstructors, BecomesLike
<1>. QED
  BY <1>2, <1>3, <1>4, <1>5, <1>6, <1>7, ResultsAreGates DEF WaveSteps

LEMMA JudgeIsRecorded ==
    ASSUME StateTypes, RegateDecides, JudgeSteps
    PROVE  IsRecorded
<1>. USE DEF IsRecorded, Goto
<1>0. lab \in LabStates
  BY DEF StateTypes
<1>1. CASE JudgeHalts \/ JudgeLosesSandbox
  BY <1>0, <1>1, PhaseLines DEF JudgeHalts, JudgeLosesSandbox
<1>2. ASSUME NEW decision \in Decisions, NEW rulesOk \in BOOLEAN,
             JudgeSubmits(decision, rulesOk)
      PROVE  IsRecorded
  <2>. DEFINE d == RulesChecked(decision, rulesOk)
              decided == Decided(lab, d, cur.worst)
  <2>1. decided \in Decisions
    BY DecisionType DEF Decided
  <2>2. lab' = lab /\ writes' \in {<<>>, <<EvJudge(decided)>>}
    BY <1>2 DEF JudgeSubmits
  <2>. HIDE DEF d, decided
  <2>. QED
    BY <1>0, <2>1, <2>2, PhaseLines, SilentConstructors
<1>3. ASSUME NEW i \in Ids, NEW gate \in GateStates, RegateReturns(i, gate)
      PROVE  IsRecorded
  BY <1>0, <1>3, GateLine DEF RegateReturns
<1>4. ASSUME NEW i \in Ids, RegateLosesSandbox(i)
      PROVE  IsRecorded
  <2>. DEFINE l == Recorded(lab, i, TestInvalid)
  <2>1. l \in LabStates /\ Becomes(lab, GateWrites(lab, i, TestInvalid), l)
    BY <1>0, GateLine, RecordedType
  <2>2. lab' = Downed(l) /\ writes' = GateWrites(lab, i, TestInvalid) \o DownWrites(l)
    BY <1>4 DEF RegateLosesSandbox
  <2>. HIDE DEF l
  <2>3. Becomes(l, DownWrites(l), Downed(l))
    BY <2>1, DownLines
  <2>. QED
    BY <2>1, <2>2, <2>3, BecomesFurther
<1>5. CASE RegateEnds
  <2>. DEFINE gate == WorstGate({cur.worst})
              decided == Decided(lab, cur.decision, gate)
  <2>1. decided \in Decisions
    BY <1>5, DecisionType DEF Decided, RegateEnds, RegateDecides
  <2>2. lab' = [lab EXCEPT !.runGate = gate] /\ writes' = <<EvJudge(decided)>>
    BY <1>5 DEF RegateEnds
  <2>. HIDE DEF gate, decided
  <2>3. SameMemory(lab, lab')
    BY <1>0, <2>2 DEF SameMemory, LabStates
  <2>. QED
    BY <2>1, <2>2, <2>3, SilentLine, SilentConstructors, BecomesLike
<1>. QED
  BY <1>1, <1>2, <1>3, <1>4, <1>5, ResultsAreGates DEF JudgeSteps

LEMMA ApplyIsRecorded ==
    ASSUME StateTypes, ApplySteps
    PROVE  IsRecorded
<1>. USE DEF IsRecorded, Goto
<1>0. lab \in LabStates
  BY DEF StateTypes
<1>1. CASE ApplyFinish \/ ApplyTakeover \/ ApplyContinue \/ TakeoverSubmits
  <2>1. lab' = lab /\ writes' = <<>>
    BY <1>1 DEF ApplyFinish, ApplyTakeover, ApplyContinue, TakeoverSubmits
  <2>. QED
    BY <1>0, <2>1, PhaseLines
<1>2. CASE ApplyRevision
  <2>1. writes' = <<>>
    BY <1>2 DEF ApplyRevision
  <2>2. SameMemory(lab, lab')
    BY <1>0, <1>2 DEF ApplyRevision, SameMemory, LabStates
  <2>. QED
    BY <2>1, <2>2, BecomesSame
<1>3. CASE BranchLosesSandbox \/ BranchHalts
  BY <1>0, <1>3, PhaseLines DEF BranchLosesSandbox, BranchHalts
<1>4. CASE ReviseSubmits
  <2>1. Becomes(lab, <<EvSpec>>, lab) /\ Becomes(lab, <<FileSpec>>, lab)
    BY SilentLine, SilentConstructors
  <2>. QED
    BY <1>4, <2>1, BecomesTwice, EventsAreEvents DEF ReviseSubmits
<1>5. CASE StepEnds
  <2>. DEFINE l == StepCounted(lab)
  <2>1. /\ l \in LabStates /\ l.stage = lab.stage /\ l.step \in Nat
        /\ l = [lab EXCEPT !.step = l.step]
    BY <1>0 DEF StepCounted, LabStates
  <2>2. \/ /\ lab' = [l EXCEPT !.stage = "summary"]
           /\ writes' = <<EvStage(l.stage, l.step), EvStage("summary", l.step)>>
        \/ lab' = l /\ writes' = <<EvStage(l.stage, l.step)>>
    BY <1>5 DEF StepEnds
  <2>. HIDE DEF l
  <2>3. Becomes(lab, <<EvStage(l.stage, l.step)>>, l)
    <3>1. l.stage \in Stages
      BY <2>1 DEF LabStates
    <3>2. Becomes(lab, <<EvStage(l.stage, l.step)>>,
                  [lab EXCEPT !.stage = l.stage, !.step = l.step])
      BY <1>0, <2>1, <3>1, StageLine
    <3>3. SameMemory([lab EXCEPT !.stage = l.stage, !.step = l.step], l)
      BY <1>0, <2>1 DEF SameMemory, LabStates
    <3>. QED
      BY <3>2, <3>3, BecomesLike
  <2>4. /\ Becomes(l, <<EvStage("summary", l.step)>>, [l EXCEPT !.stage = "summary"])
        /\ EvStage("summary", l.step) \in Events /\ EvStage(l.stage, l.step) \in Events
    <3>1. l.stage \in Stages
      BY <2>1 DEF LabStates
    <3>. QED
      BY <1>0, <2>1, <3>1, PhaseLines
  <2>5. Becomes(lab, <<EvStage(l.stage, l.step), EvStage("summary", l.step)>>,
                [l EXCEPT !.stage = "summary"])
    BY <2>3, <2>4, BecomesTwice
  <2>. QED
    BY <2>2, <2>3, <2>5
<1>. QED
  BY <1>1, <1>2, <1>3, <1>4, <1>5 DEF ApplySteps

-----------------------------------------------------------------------------
(* A crash would restore what is in memory *)

Durable ==
    Running => \E k \in JournalStates : Leads(journal, writes, k) /\ Agrees(k, lab)

DurableInv == FlowInv /\ Durable

RunSteps ==
    \/ RememberSteps \/ SpecSteps \/ SummarySteps \/ WriteSummary \/ CloseSession
    \/ AdvanceSteps \/ DispatchSteps \/ WaveSteps \/ JudgeSteps \/ ApplySteps

\* What is about to happen in a run finds all earlier writes made.
LEMMA ReadyAgrees ==
    ASSUME DurableInv, Running, Ready
    PROVE  Agrees(journal, lab)
<1>1. journal \in JournalStates
  BY DEF DurableInv, FlowInv, TypeOK
<1>. QED
  BY <1>1, LeadsNowhere DEF DurableInv, Durable, Ready

LEMMA RunStepsAreReady == RunSteps => Ready /\ UNCHANGED journal
<1>1. RememberSteps \/ SpecSteps \/ SummarySteps \/ WriteSummary \/ CloseSession
        => Ready /\ UNCHANGED journal
  BY DEF RememberSteps, RememberSkips, RememberDrives, RememberSubmits, RememberHalts,
         RememberLosesSandbox, SpecSteps, SpecSkips, SpecReused, SpecDrives, SpecSubmits,
         SpecHalts, SpecLosesSandbox, SummarySteps, WrapUp, SummaryReused, SummaryDrives,
         SummarySubmits, SummaryLosesSandbox, WriteSummary, CloseSession
<1>2. AdvanceSteps \/ DispatchSteps => Ready /\ UNCHANGED journal
  BY DEF AdvanceSteps, AdvanceStarts, AdvanceEnds, StepGoesOn, StepDrivesDispatch,
         StepResumesDecision, StepResumesWork, DispatchSteps, DispatchHalts,
         DispatchLosesSandbox, DispatchEmpty, DispatchRefused, DispatchSubmits
<1>3. WaveSteps => Ready /\ UNCHANGED journal
  BY DEF WaveSteps, WorkerReturns, Blocks, WaveEnds, ReplayReturns, ReplayLosesSandbox,
         ReplayEnds
<1>4. JudgeSteps => Ready /\ UNCHANGED journal
  BY DEF JudgeSteps, JudgeHalts, JudgeLosesSandbox, JudgeSubmits, RegateReturns,
         RegateLosesSandbox, RegateEnds
<1>5. ApplySteps => Ready /\ UNCHANGED journal
  BY DEF ApplySteps, ApplyFinish, ApplyTakeover, ApplyRevision, ApplyContinue,
         BranchLosesSandbox, BranchHalts, TakeoverSubmits, ReviseSubmits, StepEnds
<1>. QED
  BY <1>1, <1>2, <1>3, <1>4, <1>5 DEF RunSteps

LEMMA RunStepsRun ==
    ASSUME FlowInv, RunSteps
    PROVE  IsRecorded /\ Running
<1>1. StateTypes /\ journal \in JournalStates /\ RegateDecides /\ drift \in SUBSET Ids
  BY DEF FlowInv, TypeOK, StateTypes
<1>2. CASE WriteSummary \/ CloseSession
  BY <1>1, <1>2, EndIsRecorded DEF WriteSummary, CloseSession, Running
<1>3. CASE ~(WriteSummary \/ CloseSession)
  <2>1. MiddleStep
    BY <1>1, <1>3, RememberIsMiddle, SpecIsMiddle, SummaryIsMiddle, AdvanceIsMiddle,
       DispatchIsMiddle, WaveIsMiddle, JudgeIsMiddle, ApplyIsMiddle DEF RunSteps
  <2>2. Running
    BY <2>1 DEF MiddleStep, Middle, Running
  <2>. QED
    BY <1>1, <1>3, <2>2, RememberIsRecorded, SpecIsRecorded, EndIsRecorded,
       AdvanceIsRecorded, DispatchIsRecorded, WaveIsRecorded, JudgeIsRecorded,
       ApplyIsRecorded DEF RunSteps
<1>. QED
  BY <1>2, <1>3

OpeningSteps == NewRun \/ BeginRun \/ \E instruction \in BOOLEAN : ResumeRun(instruction)

\* The steps of the system by what they are for a run.
LEMMA KindsOfSteps ==
    ASSUME [Next]_vars
    PROVE  \/ Persist \/ EnterLab \/ RunSteps
           \/ /\ at' \in {"off", "opening", "replayed"} /\ UNCHANGED <<journal, files, drift>>
              /\ at' = "off" \/ OpeningSteps
           \/ /\ UNCHANGED <<journal, writes, files, at, lab, cur>>
              /\ at = "replayed" => UNCHANGED drift
<1>1. CASE Phases
  <2>1. CASE BeginRun
    BY <2>1 DEF BeginRun, Goto, OpeningSteps
  <2>2. CASE DriveFails \/ LeaveRun
    BY <2>2 DEF DriveFails, LeaveRun, GoOff
  <2>. QED
    BY <1>1, <2>1, <2>2 DEF Phases, RunSteps, RememberSteps, SpecSteps, SummarySteps
<1>2. CASE Steps
  BY <1>2 DEF Steps, RunSteps, AdvanceSteps, DispatchSteps, WaveSteps, JudgeSteps, ApplySteps
<1>3. CASE Surroundings
  <2>1. CASE Crash \/ Stop
    BY <2>1 DEF Crash, Stop, GoOff
  <2>2. CASE NewRun \/ \E instruction \in BOOLEAN : ResumeRun(instruction)
    BY <2>2 DEF NewRun, ResumeRun, Goto, OpeningSteps
  <2>3. ASSUME NEW i \in Ids, UserEdits(i) \/ AgentEdits(i)
        PROVE  /\ UNCHANGED <<journal, writes, files, at, lab, cur>>
               /\ at # "replayed"
    BY <2>3 DEF UserEdits, AgentEdits
  <2>. QED
    BY <1>3, <2>1, <2>2, <2>3 DEF Surroundings
<1>4. CASE UNCHANGED vars
  BY <1>4 DEF vars
<1>. QED
  BY <1>1, <1>2, <1>3, <1>4 DEF Next, LabStep

LEMMA DurableStep ==
    ASSUME DurableInv, [Next]_vars
    PROVE  Durable'
<1>1. journal \in JournalStates /\ writes \in Seq(Events) /\ lab \in LabStates
  BY DEF DurableInv, FlowInv, TypeOK
<1>2. CASE Persist
  <2>1. /\ writes # <<>> /\ UNCHANGED <<at, lab>>
        /\ journal' = Fold(journal, Head(writes)) /\ writes' = Tail(writes)
    BY <1>2 DEF Persist
  <2>. QED
    BY <1>1, <2>1, LeadsAfterOne DEF DurableInv, Durable, Running
<1>3. CASE EnterLab
  <2>1. UNCHANGED journal /\ writes' = <<>> /\ lab' = Restored(journal, lab.resume)
    BY <1>3 DEF EnterLab, Goto
  <2>2. Agrees(journal, lab')
    BY <2>1 DEF Agrees, Restored, Idle
  <2>. QED
    BY <1>1, <2>1, <2>2, LeadsNowhere DEF Durable
<1>4. CASE RunSteps
  <2>1. IsRecorded /\ Agrees(journal, lab) /\ UNCHANGED journal
    BY <1>4, RunStepsAreReady, RunStepsRun, ReadyAgrees DEF DurableInv
  <2>. QED
    BY <1>1, <2>1 DEF IsRecorded, Becomes, Durable
<1>5. CASE at' \in {"off", "opening", "replayed"}
  BY <1>5 DEF Durable, Running
<1>6. CASE UNCHANGED <<journal, writes, files, at, lab, cur>>
  BY <1>6 DEF DurableInv, Durable, Running
<1>. QED
  BY <1>2, <1>3, <1>4, <1>5, <1>6, KindsOfSteps

\* LabState is a projection of the journal (flow.py, LabState): for every set of
\* assignments and all limits, wherever the process dies, the journal and the
\* writes that are pending say what the run has in memory.
THEOREM DurableHolds == Spec => []DurableInv
<1>1. Init => Durable
  BY DEF Init, Durable, Running
<1>2. DurableInv /\ [Next]_vars => DurableInv'
  BY NextStep, DurableStep DEF DurableInv
<1>. QED
  BY <1>1, <1>2, InvInit, PTL DEF Spec, DurableInv

\* Before each step of a run a resume would restore stage, step, halt, sandbox,
\* executed ids, gates, counts of gate runs and ledger as they are in memory.
THEOREM MemoryIsDurable == Spec => []ProjectionIsDurable
<1>1. DurableInv => ProjectionIsDurable
  BY ReadyAgrees DEF ProjectionIsDurable, Agrees
<1>. QED
  BY <1>1, DurableHolds, PTL

-----------------------------------------------------------------------------
(* Where a run goes on, and which lines it leaves to others *)

\* Lines that are no submit of a SPEC or of a Summary, nor the commit of a dispatch
\* or of a decision.
PlainEvents == {e \in InnerEvents : e.kind \notin {"submit_spec", "submit_summary"}}
QuietEvents == {e \in PlainEvents : e.kind \notin {"dispatch", "judge"}}

\* Work is done here, and under a SPEC of the plan.
AtWork == {"dispatch", "wave", "blocking", "replay_gates", "judge", "regate", "apply",
           "takeover", "revise_spec"}

\* The two commits of a step.
CommitsDispatch ==
    /\ at = "dispatch"
    /\ \E n \in Nat, asg, run, replay, executed \in SUBSET Ids :
          writes' = <<EvDispatch(n, asg, run, replay), EvExecuted(executed)>>
CommitsDecision == at' = "apply" /\ \E d \in Decisions : writes' = <<EvJudge(d)>>

\* A step that hands over no submit, keeps to its plan, and starts no work in a
\* lab that halted or lost its sandbox.
QuietStep(from, to) ==
    /\ at \in from /\ at' \in to
    /\ writes' \in Seq(QuietEvents) \/ CommitsDispatch \/ CommitsDecision
    /\ lab'.resume = lab.resume
    /\ at' \in AtWork \cup {"spec"} => ~Over(lab')
    /\ UNCHANGED <<journal, files, drift>>

NoWorkYet == at \in AtWork \cup {"spec"} => ~Over(lab)

LEMMA QuietConstructors ==
    /\ EvHalt \in QuietEvents /\ EvDown \in QuietEvents
    /\ FileApplied \in QuietEvents /\ FileSpec \in QuietEvents
    /\ \A s \in Stages, n \in Nat : EvStage(s, n) \in QuietEvents
    /\ \A S \in SUBSET Ids : EvExecuted(S) \in QuietEvents
    /\ \A i \in Ids, g \in GateStates, n \in Nat : EvGate(i, g, n) \in QuietEvents
    /\ \A g \in GateStates : EvRunGate(g) \in QuietEvents
    /\ \A i \in Ids, g \in GateStates \cup {NoGate} : EvBrief(i, g) \in QuietEvents
    /\ \A i \in Ids : EvRecord(i) \in QuietEvents /\ EvDrop(i) \in QuietEvents
BY InnerConstructors
DEF QuietEvents, PlainEvents, EvHalt, EvDown, FileApplied, FileSpec, EvStage, EvExecuted, EvGate,
    EvRunGate, EvDispatch, EvBrief, EvJudge, EvRecord, EvDrop

LEMMA PlainSeqs ==
    /\ Seq(QuietEvents) \subseteq Seq(PlainEvents)
    /\ CommitsDispatch \/ CommitsDecision => writes' \in Seq(PlainEvents)
<1>1. QuietEvents \subseteq PlainEvents
  BY DEF QuietEvents
<1>2. ASSUME CommitsDecision
      PROVE  writes' \in Seq(PlainEvents)
  <2>1. PICK d \in Decisions : writes' = <<EvJudge(d)>>
    BY <1>2 DEF CommitsDecision
  <2>2. EvJudge(d) \in PlainEvents
    BY InnerConstructors DEF PlainEvents, EvJudge
  <2>. QED
    BY <2>1, <2>2, WriteSeqs
<1>3. ASSUME CommitsDispatch
      PROVE  writes' \in Seq(PlainEvents)
  <2>1. PICK n \in Nat, asg, run, replay, executed \in SUBSET Ids :
               writes' = <<EvDispatch(n, asg, run, replay), EvExecuted(executed)>>
    BY <1>3 DEF CommitsDispatch
  <2>2. EvDispatch(n, asg, run, replay) \in PlainEvents /\ EvExecuted(executed) \in PlainEvents
    BY InnerConstructors DEF PlainEvents, EvDispatch, EvExecuted
  <2>. QED
    BY <2>1, <2>2, WriteSeqs
<1>. QED
  BY <1>1, <1>2, <1>3

\* The lines and the states of LabState that the steps are made of.
LEMMA QuietLines ==
    ASSUME NEW l \in LabStates
    PROVE  /\ <<>> \in Seq(QuietEvents)
           /\ \A s \in Stages : EvStage(s, l.step) \in QuietEvents
           /\ DownWrites(l) \in Seq(QuietEvents)
           /\ Downed(l) \in LabStates /\ Downed(l).resume = l.resume
           /\ Downed(l).step = l.step
           /\ [l EXCEPT !.halt = TRUE].resume = l.resume
           /\ \A i \in Ids, gate \in GateStates :
                 /\ GateWrites(l, i, gate) \in Seq(QuietEvents)
                 /\ Recorded(l, i, gate) \in LabStates
                 /\ Recorded(l, i, gate).resume = l.resume
                 /\ Over(Recorded(l, i, gate)) <=> Over(l)
<1>1. /\ l.step \in Nat
      /\ [l EXCEPT !.halt = TRUE].resume = l.resume
      /\ Downed(l).resume = l.resume /\ Downed(l).step = l.step
  BY DEF LabStates, Downed
<1>2. \A s \in Stages : EvStage(s, l.step) \in QuietEvents
  BY <1>1, QuietConstructors
<1>3. DownWrites(l) \in Seq(QuietEvents)
  <2>1. EvStage("summary", l.step) \in QuietEvents
    BY <1>2
  <2>. QED
    BY <2>1, QuietConstructors, WriteSeqs DEF DownWrites
<1>4. ASSUME NEW i \in Ids, NEW gate \in GateStates
      PROVE  /\ GateWrites(l, i, gate) \in Seq(QuietEvents)
             /\ Recorded(l, i, gate) \in LabStates
             /\ Recorded(l, i, gate).resume = l.resume
             /\ Over(Recorded(l, i, gate)) <=> Over(l)
  <2>1. Recorded(l, i, gate) \in LabStates
    BY RecordedType
  <2>2. /\ Recorded(l, i, gate).resume = l.resume
        /\ Recorded(l, i, gate).halt = l.halt /\ Recorded(l, i, gate).down = l.down
    BY DEF Recorded, LabStates
  <2>3. Recorded(l, i, gate).tries[i] \in Nat
    BY <2>1 DEF LabStates
  <2>4. EvGate(i, gate, Recorded(l, i, gate).tries[i]) \in QuietEvents
    BY <2>3, QuietConstructors
  <2>. QED
    BY <2>1, <2>2, <2>4, WriteSeqs DEF GateWrites, Over
<1>. QED
  BY <1>1, <1>2, <1>3, <1>4, WriteSeqs, DownedType

LEMMA QuietCommit ==
    ASSUME NEW l \in LabStates, NEW i \in Ids, NEW gate \in GateStates \cup {NoGate},
           NEW good \in BOOLEAN, NEW prints \in BOOLEAN
    PROVE  /\ CommitWrites(l, i, good, prints, gate) \in Seq(QuietEvents)
           /\ Committed(l, i, good, prints, gate).resume = l.resume
           /\ Over(Committed(l, i, good, prints, gate)) <=> Over(l)
<1>. DEFINE m == Ledgered(l, i, good, prints)
<1>1. /\ m \in LabStates /\ m.resume = l.resume
      /\ m.halt = l.halt /\ m.down = l.down
  BY DEF Ledgered, LabStates
<1>2. LedgerWrites(l, i, good, prints) \in Seq(QuietEvents)
  BY QuietConstructors, WriteSeqs DEF LedgerWrites
<1>3. (IF gate = NoGate THEN <<>> ELSE GateWrites(l, i, gate)) \in Seq(QuietEvents)
  BY QuietLines
<1>4. <<EvBrief(i, gate)>> \in Seq(QuietEvents)
  BY QuietConstructors, WriteSeqs
<1>. HIDE DEF m
<1>5. /\ Committed(l, i, good, prints, gate).resume = l.resume
      /\ Over(Committed(l, i, good, prints, gate)) <=> Over(m)
  <2>1. CASE gate = NoGate
    BY <1>1, <2>1 DEF Committed, m
  <2>2. CASE gate # NoGate
    <3>1. gate \in GateStates
      BY <2>2
    <3>2. Committed(l, i, good, prints, gate) = Recorded(m, i, gate)
      BY <2>2 DEF Committed, m
    <3>3. /\ Recorded(m, i, gate).resume = m.resume
          /\ Over(Recorded(m, i, gate)) <=> Over(m)
      BY <1>1, <3>1, QuietLines
    <3>. QED
      BY <1>1, <3>2, <3>3
  <2>. QED
    BY <2>1, <2>2
<1>6. Over(m) <=> Over(l)
  BY <1>1 DEF Over
<1>. QED
  BY <1>2, <1>3, <1>4, <1>5, <1>6, WriteSeqs DEF CommitWrites

LEMMA RememberIsQuiet ==
    ASSUME StateTypes, RememberSteps
    PROVE  QuietStep({"remember", "remember_judge"}, {"remember_judge", "write_spec"})
<1>. USE DEF QuietStep, Goto, AtWork
<1>0. lab \in LabStates
  BY DEF StateTypes
<1>1. CASE RememberSkips \/ RememberDrives
  BY <1>1, QuietConstructors, WriteSeqs DEF RememberSkips, RememberDrives
<1>2. EvStage("spec", lab.step) \in QuietEvents /\ EvStage("summary", lab.step) \in QuietEvents
  BY <1>0, QuietLines
<1>3. <<FileApplied, EvStage("spec", lab.step)>> \in Seq(QuietEvents)
  BY <1>2, QuietConstructors, WriteSeqs
<1>4. CASE RememberSubmits
  BY <1>0, <1>3, <1>4 DEF RememberSubmits, LabStates
<1>5. CASE RememberHalts
  <2>1. <<EvHalt, FileApplied, EvStage("summary", lab.step)>> \in Seq(QuietEvents)
    BY <1>2, QuietConstructors, WriteSeqs
  <2>. QED
    BY <1>0, <1>5, <2>1 DEF RememberHalts, LabStates
<1>6. CASE RememberLosesSandbox
  <2>. DEFINE m == Downed(lab)
  <2>1. m \in LabStates /\ m.resume = lab.resume
    BY <1>0, QuietLines
  <2>2. DownWrites(lab) \o <<FileApplied, EvStage("spec", lab.step)>> \in Seq(QuietEvents)
    BY <1>0, <1>3, QuietLines, WriteSeqs
  <2>3. /\ at = "remember_judge" /\ at' = "write_spec" /\ lab' = [m EXCEPT !.stage = "spec"]
        /\ writes' = DownWrites(lab) \o <<FileApplied, EvStage("spec", lab.step)>>
        /\ UNCHANGED <<journal, files, drift>>
    BY <1>6 DEF RememberLosesSandbox
  <2>. HIDE DEF m
  <2>4. lab'.resume = lab.resume
    BY <2>1, <2>3 DEF LabStates
  <2>. QED
    BY <2>2, <2>3, <2>4
<1>. QED
  BY <1>1, <1>4, <1>5, <1>6 DEF RememberSteps

SpecEnds == SpecSkips \/ SpecHalts \/ SpecLosesSandbox

LEMMA SpecIsQuiet ==
    ASSUME StateTypes, SpecEnds \/ SpecDrives
    PROVE  QuietStep({"write_spec", "spec"}, {"wrap_up", "spec"})
<1>. USE DEF QuietStep, Goto, AtWork
<1>0. lab \in LabStates
  BY DEF StateTypes
<1>1. CASE SpecSkips \/ SpecDrives
  BY <1>0, <1>1, QuietLines DEF SpecSkips, SpecDrives
<1>2. EvStage("summary", lab.step) \in QuietEvents
  BY <1>0, QuietLines
<1>3. CASE SpecHalts
  <2>1. <<EvHalt, EvStage("summary", lab.step)>> \in Seq(QuietEvents)
    BY <1>2, QuietConstructors, WriteSeqs
  <2>. QED
    BY <1>0, <1>3, <2>1 DEF SpecHalts, LabStates
<1>4. CASE SpecLosesSandbox
  <2>. DEFINE m == Downed(lab)
  <2>1. m \in LabStates /\ m.resume = lab.resume
    BY <1>0, QuietLines
  <2>2. DownWrites(lab) \o <<EvStage("summary", lab.step)>> \in Seq(QuietEvents)
    BY <1>0, <1>2, QuietLines, WriteSeqs
  <2>3. /\ at = "spec" /\ at' = "wrap_up" /\ lab' = [m EXCEPT !.stage = "summary"]
        /\ writes' = DownWrites(lab) \o <<EvStage("summary", lab.step)>>
        /\ UNCHANGED <<journal, files, drift>>
    BY <1>4 DEF SpecLosesSandbox
  <2>. HIDE DEF m
  <2>4. lab'.resume = lab.resume
    BY <2>1, <2>3 DEF LabStates
  <2>. QED
    BY <2>2, <2>3, <2>4
<1>. QED
  BY <1>1, <1>3, <1>4 DEF SpecEnds

LEMMA AdvanceIsQuiet ==
    ASSUME StateTypes, AdvanceSteps
    PROVE  QuietStep({"advance", "step"},
                     {"wrap_up", "step", "dispatch", "apply", "wave", "replay_gates"})
<1>. USE DEF QuietStep, Goto, AtWork
<1>0. lab \in LabStates /\ <<>> \in Seq(QuietEvents)
  BY QuietLines DEF StateTypes
<1>1. CASE AdvanceStarts
  BY <1>0, <1>1 DEF AdvanceStarts, LabStates
<1>2. CASE AdvanceEnds
  BY <1>0, <1>2 DEF AdvanceEnds
<1>3. CASE StepDrivesDispatch \/ StepResumesDecision
  BY <1>0, <1>3 DEF StepDrivesDispatch, StepResumesDecision, StepGoesOn
<1>4. CASE StepResumesWork
  BY <1>0, <1>4 DEF StepResumesWork, StepGoesOn, WhereWave
<1>. QED
  BY <1>1, <1>2, <1>3, <1>4 DEF AdvanceSteps

LEMMA DispatchIsQuiet ==
    ASSUME StateTypes, NoWorkYet, DispatchSteps
    PROVE  QuietStep({"dispatch"}, {"step_end", "wave", "replay_gates"})
<1>. USE DEF QuietStep, Goto, AtWork
<1>0. lab \in LabStates /\ <<>> \in Seq(QuietEvents)
  BY QuietLines DEF StateTypes
<1>1. CASE DispatchHalts
  BY <1>0, <1>1, QuietConstructors, QuietLines, WriteSeqs DEF DispatchHalts
<1>2. CASE DispatchLosesSandbox
  BY <1>0, <1>2, QuietLines DEF DispatchLosesSandbox
<1>3. CASE DispatchEmpty \/ DispatchRefused
  BY <1>0, <1>3 DEF DispatchEmpty, DispatchRefused
<1>4. ASSUME NEW asg \in SUBSET Ids, DispatchSubmits(asg)
      PROVE  QuietStep({"dispatch"}, {"step_end", "wave", "replay_gates"})
  <2>. DEFINE run == RunOf(asg, lab.resumable, lab.executed, lab.gates, lab.tries)
              replay == ReplayedOf(asg, lab.resumable, lab.executed, lab.gates, lab.tries)
              executed == lab.executed \cup (asg \ lab.resumable)
              waiting == lab.resumable \ asg
  <2>1. run \in SUBSET Ids /\ replay \in SUBSET Ids /\ executed \in SUBSET Ids
    BY <1>0 DEF RunOf, ReplayedOf, LabStates
  <2>2. /\ at = "dispatch" /\ at' \in {"step_end", "wave", "replay_gates"}
        /\ lab' = [lab EXCEPT !.resumable = waiting, !.executed = executed]
        /\ writes' \in {<<>>, <<EvDispatch(lab.step + 1, asg, run, replay),
                               EvExecuted(executed)>>}
        /\ UNCHANGED <<journal, files, drift>>
    BY <1>4 DEF DispatchSubmits, DispatchWrites, WhereWave
  <2>. HIDE DEF run, replay, executed, waiting
  <2>3. lab.step + 1 \in Nat
    BY <1>0 DEF LabStates
  <2>. DEFINE more == lab.step + 1
  <2>. HIDE DEF more
  <2>4. writes' \in Seq(QuietEvents) \/ CommitsDispatch
    <3>1. \/ writes' = <<>>
          \/ writes' = <<EvDispatch(more, asg, run, replay), EvExecuted(executed)>>
      BY <2>2 DEF more
    <3>2. more \in Nat
      BY <2>3 DEF more
    <3>. QED
      BY <1>0, <2>1, <2>2, <3>1, <3>2 DEF CommitsDispatch
  <2>5. lab'.resume = lab.resume /\ lab'.halt = lab.halt /\ lab'.down = lab.down
    BY <1>0, <2>2 DEF LabStates
  <2>. QED
    BY <1>0, <2>2, <2>4, <2>5 DEF NoWorkYet, Over
<1>. QED
  BY <1>1, <1>2, <1>3, <1>4 DEF DispatchSteps

LEMMA WaveIsQuiet ==
    ASSUME StateTypes, NoWorkYet, WaveSteps
    PROVE  QuietStep({"wave", "blocking", "replay_gates"},
                     {"wave", "blocking", "takeover", "replay_gates", "judge", "step_end"})
<1>. USE DEF QuietStep, Goto, AtWork
<1>0. lab \in LabStates /\ <<>> \in Seq(QuietEvents)
  BY QuietLines DEF StateTypes
<1>1. \A i \in Ids, gate \in GateStates :
        GateWrites(lab, i, gate) \o <<EvBrief(i, gate)>> \in Seq(QuietEvents)
  <2>1. \A i \in Ids, gate \in GateStates : <<EvBrief(i, gate)>> \in Seq(QuietEvents)
    BY QuietConstructors, WriteSeqs
  <2>. QED
    BY <1>0, <2>1, QuietLines, WriteSeqs
<1>2. ASSUME NEW i \in Ids, NEW o \in WorkerOutcomes, NEW prints \in BOOLEAN,
             WorkerReturns(i, o, prints)
      PROVE  QuietStep({"wave"}, {"wave"})
  <2>. DEFINE good == o.done /\ o.gate \in GoodGates
  <2>1. o.gate \in GateStates \cup {NoGate} /\ good \in BOOLEAN
    BY ResultsAreGates DEF WorkerOutcomes
  <2>2. /\ at = "wave" /\ at' = "wave" /\ UNCHANGED <<journal, files, drift>>
        /\ lab' = Committed(lab, i, good, prints, o.gate)
        /\ writes' = CommitWrites(lab, i, good, prints, o.gate)
    BY <1>2 DEF WorkerReturns
  <2>. HIDE DEF good
  <2>3. /\ writes' \in Seq(QuietEvents) /\ lab'.resume = lab.resume
        /\ Over(lab') <=> Over(lab)
    BY SMTT(40), <1>0, <2>1, <2>2, QuietCommit
  <2>. QED
    BY <2>2, <2>3 DEF NoWorkYet
<1>3. ASSUME NEW i \in Ids, Blocks(i)
      PROVE  QuietStep({"wave", "blocking"}, {"blocking"})
  <2>1. /\ at \in {"wave", "blocking"} /\ at' = "blocking" /\ UNCHANGED <<journal, files, drift>>
        /\ lab' = Committed(lab, i, FALSE, FALSE, NoGate)
        /\ writes' = CommitWrites(lab, i, FALSE, FALSE, NoGate)
    BY <1>3 DEF Blocks
  <2>. QED
    BY <1>0, <2>1, QuietCommit DEF NoWorkYet
<1>4. CASE WaveEnds
  <2>1. CASE "sandbox" \in cur.flags
    BY <1>0, <1>4, <2>1, QuietLines DEF WaveEnds
  <2>2. CASE "sandbox" \notin cur.flags
    BY <1>0, <1>4, <2>2 DEF WaveEnds, NoWorkYet
  <2>. QED
    BY <2>1, <2>2
<1>5. ASSUME NEW i \in Ids, NEW gate \in GateStates, ReplayReturns(i, gate)
      PROVE  QuietStep({"replay_gates"}, {"replay_gates"})
  <2>1. /\ at = "replay_gates" /\ at' = "replay_gates" /\ UNCHANGED <<journal, files, drift>>
        /\ lab' = Recorded(lab, i, gate)
        /\ writes' = GateWrites(lab, i, gate) \o <<EvBrief(i, gate)>>
    BY <1>5 DEF ReplayReturns
  <2>2. /\ writes' \in Seq(QuietEvents) /\ lab'.resume = lab.resume
        /\ Over(lab') <=> Over(lab)
    BY <1>0, <1>1, <2>1, QuietLines
  <2>. QED
    BY <2>1, <2>2 DEF NoWorkYet
<1>6. ASSUME NEW i \in Ids, ReplayLosesSandbox(i)
      PROVE  QuietStep({"replay_gates"}, {"step_end"})
  <2>. DEFINE l == Recorded(lab, i, TestInvalid)
              s == GateWrites(lab, i, TestInvalid) \o <<EvBrief(i, TestInvalid)>>
  <2>1. l \in LabStates /\ l.resume = lab.resume /\ s \in Seq(QuietEvents)
    BY <1>0, <1>1, QuietLines
  <2>2. /\ at = "replay_gates" /\ at' = "step_end" /\ UNCHANGED <<journal, files, drift>>
        /\ lab' = Downed(l) /\ writes' = s \o DownWrites(l)
    BY <1>6 DEF ReplayLosesSandbox
  <2>. HIDE DEF l, s
  <2>3. s \o DownWrites(l) \in Seq(QuietEvents) /\ Downed(l).resume = l.resume
    BY <2>1, QuietLines, WriteSeqs
  <2>. QED
    BY <2>1, <2>2, <2>3
<1>7. CASE ReplayEnds
  <2>. DEFINE gate == WorstGate({cur.worst})
  <2>1. gate \in GateStates
    BY WorstGateType
  <2>2. /\ at = "replay_gates" /\ at' = "judge" /\ UNCHANGED <<journal, files, drift>>
        /\ lab' = [lab EXCEPT !.runGate = gate] /\ writes' = <<EvRunGate(gate)>>
    BY <1>7 DEF ReplayEnds
  <2>. HIDE DEF gate
  <2>3. <<EvRunGate(gate)>> \in Seq(QuietEvents)
    BY <2>1, QuietConstructors, WriteSeqs
  <2>4. lab'.resume = lab.resume /\ lab'.halt = lab.halt /\ lab'.down = lab.down
    BY <1>0, <2>2 DEF LabStates
  <2>. QED
    BY <2>2, <2>3, <2>4 DEF NoWorkYet, Over
<1>. QED
  BY <1>2, <1>3, <1>4, <1>5, <1>6, <1>7, ResultsAreGates DEF WaveSteps

LEMMA JudgeIsQuiet ==
    ASSUME StateTypes, NoWorkYet, JudgeSteps, RegateDecides
    PROVE  QuietStep({"judge", "regate"}, {"regate", "apply", "step_end"})
<1>. USE DEF QuietStep, CommitsDecision, Goto, AtWork
<1>0. lab \in LabStates /\ <<>> \in Seq(QuietEvents)
  BY QuietLines DEF StateTypes
<1>1. CASE JudgeHalts
  BY <1>0, <1>1, QuietConstructors, QuietLines, WriteSeqs DEF JudgeHalts
<1>2. CASE JudgeLosesSandbox
  BY <1>0, <1>2, QuietLines DEF JudgeLosesSandbox
<1>4. ASSUME NEW decision \in Decisions, NEW rulesOk \in BOOLEAN,
             JudgeSubmits(decision, rulesOk)
      PROVE  QuietStep({"judge"}, {"regate", "apply"})
  <2>. DEFINE d == RulesChecked(decision, rulesOk)
              decided == Decided(lab, d, cur.worst)
  <2>1. d \in Decisions
    BY DecisionType
  <2>2. decided \in Decisions
    BY <2>1, DecisionType DEF Decided
  <2>3. /\ at = "judge"
        /\ \/ at' = "regate" /\ writes' = <<>>
           \/ at' = "apply" /\ writes' = <<EvJudge(decided)>>
        /\ UNCHANGED <<journal, files, drift, lab>>
    <3>1. at = "judge" /\ UNCHANGED <<journal, files, drift, lab>>
      BY <1>4 DEF JudgeSubmits
    <3>2. \/ at' = "regate" /\ writes' = <<>>
          \/ at' = "apply" /\ writes' = <<EvJudge(decided)>>
      BY <1>4 DEF JudgeSubmits
    <3>. HIDE DEF decided
    <3>. QED
      BY <3>1, <3>2
  <2>. HIDE DEF d, decided
  <2>4. Over(lab') <=> Over(lab)
    BY <2>3
  <2>. QED
    BY <1>0, <2>2, <2>3, <2>4 DEF NoWorkYet
<1>5. ASSUME NEW i \in Ids, NEW gate \in GateStates, RegateReturns(i, gate)
      PROVE  QuietStep({"regate"}, {"regate"})
  <2>1. /\ at = "regate" /\ at' = "regate" /\ UNCHANGED <<journal, files, drift>>
        /\ lab' = Recorded(lab, i, gate) /\ writes' = GateWrites(lab, i, gate)
    BY <1>5 DEF RegateReturns
  <2>2. /\ writes' \in Seq(QuietEvents) /\ lab'.resume = lab.resume
        /\ Over(lab') <=> Over(lab)
    BY <1>0, <2>1, QuietLines
  <2>. QED
    BY <2>1, <2>2 DEF NoWorkYet
<1>6. ASSUME NEW i \in Ids, RegateLosesSandbox(i)
      PROVE  QuietStep({"regate"}, {"step_end"})
  <2>. DEFINE l == Recorded(lab, i, TestInvalid)
              s == GateWrites(lab, i, TestInvalid)
  <2>1. l \in LabStates /\ l.resume = lab.resume /\ s \in Seq(QuietEvents)
    BY <1>0, QuietLines
  <2>2. /\ at = "regate" /\ at' = "step_end" /\ UNCHANGED <<journal, files, drift>>
        /\ lab' = Downed(l) /\ writes' = s \o DownWrites(l)
    BY <1>6 DEF RegateLosesSandbox
  <2>. HIDE DEF l, s
  <2>3. s \o DownWrites(l) \in Seq(QuietEvents) /\ Downed(l).resume = l.resume
    BY <2>1, QuietLines, WriteSeqs
  <2>. QED
    BY <2>1, <2>2, <2>3
<1>7. CASE RegateEnds
  <2>. DEFINE gate == WorstGate({cur.worst})
              decided == Decided(lab, cur.decision, gate)
  <2>1. cur.decision \in Decisions /\ gate \in GateStates
    BY <1>7, WorstGateType DEF RegateEnds, RegateDecides
  <2>2. decided \in Decisions
    BY <2>1, DecisionType DEF Decided
  <2>3. /\ at = "regate" /\ at' = "apply" /\ writes' = <<EvJudge(decided)>>
        /\ lab' = [lab EXCEPT !.runGate = gate]
        /\ UNCHANGED <<journal, files, drift>>
    BY <1>7 DEF RegateEnds
  <2>. HIDE DEF gate, decided
  <2>4. lab'.resume = lab.resume /\ lab'.halt = lab.halt /\ lab'.down = lab.down
    BY <1>0, <2>3 DEF LabStates
  <2>. QED
    BY <2>2, <2>3, <2>4 DEF NoWorkYet, Over
<1>. QED
  BY <1>1, <1>2, <1>4, <1>5, <1>6, <1>7, ResultsAreGates DEF JudgeSteps

LEMMA ApplyIsQuiet ==
    ASSUME StateTypes, NoWorkYet, ApplySteps, ~ReviseSubmits
    PROVE  QuietStep({"apply", "takeover", "revise_spec", "step_end"},
                     {"takeover", "revise_spec", "step_end", "step", "wrap_up"})
<1>. USE DEF QuietStep, Goto, AtWork
<1>0. lab \in LabStates /\ <<>> \in Seq(QuietEvents)
  BY QuietLines DEF StateTypes
<1>1. CASE ApplyFinish \/ ApplyTakeover \/ ApplyContinue \/ TakeoverSubmits
  <2>1. /\ at \in {"apply", "takeover"} /\ at' \in {"step_end", "takeover"}
        /\ writes' = <<>> /\ UNCHANGED <<journal, files, drift, lab>>
    BY <1>1 DEF ApplyFinish, ApplyTakeover, ApplyContinue, TakeoverSubmits
  <2>2. Over(lab') <=> Over(lab)
    BY <2>1
  <2>. QED
    BY <1>0, <2>1, <2>2 DEF NoWorkYet
<1>2. CASE ApplyRevision
  <2>1. /\ at = "apply" /\ at' \in {"step_end", "revise_spec"} /\ writes' = <<>>
        /\ UNCHANGED <<journal, files, drift>>
        /\ lab' = lab \/ lab' = [lab EXCEPT !.revisions = @ + 1]
    BY <1>2 DEF ApplyRevision
  <2>2. lab'.resume = lab.resume /\ lab'.halt = lab.halt /\ lab'.down = lab.down
    BY <1>0, <2>1 DEF LabStates
  <2>. QED
    BY <1>0, <2>1, <2>2 DEF NoWorkYet, Over
<1>3. CASE BranchLosesSandbox
  BY <1>0, <1>3, QuietLines DEF BranchLosesSandbox
<1>4. CASE BranchHalts
  BY <1>0, <1>4, QuietConstructors, QuietLines, WriteSeqs DEF BranchHalts
<1>5. CASE StepEnds
  <2>. DEFINE l == StepCounted(lab)
  <2>. DEFINE more == lab.step + 1
  <2>0. more \in Nat
    BY <1>0 DEF LabStates
  <2>1. l.resume = lab.resume /\ l.stage \in Stages /\ l.step \in Nat
        /\ [l EXCEPT !.stage = "summary"].resume = lab.resume
    <3>1. l = [lab EXCEPT !.step = more]
      BY <1>0 DEF StepCounted
    <3>. HIDE DEF more, l
    <3>2. /\ l.resume = lab.resume /\ l.stage = lab.stage /\ l.step = more
          /\ [l EXCEPT !.stage = "summary"].resume = lab.resume
      BY <1>0, <3>1 DEF LabStates
    <3>. QED
      BY <1>0, <2>0, <3>2 DEF LabStates
  <2>2. /\ at = "step_end" /\ at' \in {"step", "wrap_up"} /\ UNCHANGED <<journal, files, drift>>
        /\ lab' = l \/ lab' = [l EXCEPT !.stage = "summary"]
        /\ \/ writes' = <<EvStage(l.stage, l.step), EvStage("summary", l.step)>>
           \/ writes' = <<EvStage(l.stage, l.step)>>
    BY <1>5 DEF StepEnds
  <2>. HIDE DEF l
  <2>3. EvStage(l.stage, l.step) \in QuietEvents /\ EvStage("summary", l.step) \in QuietEvents
    BY <2>1, QuietConstructors
  <2>. QED
    <3>0. /\ <<EvStage(l.stage, l.step), EvStage("summary", l.step)>> \in Seq(QuietEvents)
          /\ <<EvStage(l.stage, l.step)>> \in Seq(QuietEvents)
      BY <2>3, WriteSeqs
    <3>1. writes' \in Seq(QuietEvents)
      BY <2>2, <3>0
    <3>2. lab'.resume = lab.resume
      BY <2>1, <2>2
    <3>. QED
      BY <2>2, <3>1, <3>2
<1>. QED
  BY <1>1, <1>2, <1>3, <1>4, <1>5 DEF ApplySteps

LEMMA SummaryIsQuiet ==
    ASSUME StateTypes, SummarySteps, ~SummarySubmits
    PROVE  QuietStep({"wrap_up", "summarize", "summary"},
                     {"summarize", "summary", "write_summary", "pause"})
<1>. USE DEF QuietStep, Goto, AtWork
<1>0. lab \in LabStates /\ <<>> \in Seq(QuietEvents)
  BY QuietLines DEF StateTypes
<1>1. CASE WrapUp
  <2>1. <<EvStage("summary", lab.step)>> \in Seq(QuietEvents)
    BY <1>0, QuietLines, WriteSeqs
  <2>. QED
    BY <1>0, <1>1, <2>1 DEF WrapUp, LabStates
<1>2. CASE SummaryReused \/ SummaryDrives
  BY <1>0, <1>2 DEF SummaryReused, SummaryDrives
<1>3. CASE SummaryLosesSandbox
  BY <1>0, <1>3, QuietLines DEF SummaryLosesSandbox
<1>. QED
  BY <1>1, <1>2, <1>3 DEF SummarySteps

\* The steps that are not quiet: they hand over a submit, or end the session.
Handovers ==
    \/ SpecReused \/ SpecSubmits \/ ReviseSubmits \/ SummarySubmits
    \/ WriteSummary \/ CloseSession

LEMMA HandoversRun ==
    ASSUME StateTypes, Handovers
    PROVE  /\ lab'.resume = lab.resume
           /\ at' \in {"advance", "step_end", "write_summary", "close", "leave"}
           /\ UNCHANGED <<journal, files, drift>>
<1>. lab \in LabStates
  BY DEF StateTypes
<1>1. CASE SpecReused
  BY <1>1 DEF SpecReused, Goto, LabStates
<1>2. CASE SpecSubmits
  BY <1>2 DEF SpecSubmits, Goto, LabStates
<1>3. CASE ReviseSubmits \/ SummarySubmits \/ WriteSummary \/ CloseSession
  BY <1>3 DEF ReviseSubmits, SummarySubmits, WriteSummary, CloseSession, Goto
<1>. QED
  BY <1>1, <1>2, <1>3 DEF Handovers

\* The steps of a run, by what they hand over and where they are.
EarlySteps == RememberSteps \/ SpecEnds \/ SpecDrives
WorkSteps ==
    \/ AdvanceSteps \/ DispatchSteps \/ WaveSteps \/ JudgeSteps
    \/ ApplySteps /\ ~ReviseSubmits
LateSteps == SummarySteps /\ ~SummarySubmits

LEMMA RunStepsByPlace == RunSteps => EarlySteps \/ WorkSteps \/ LateSteps \/ Handovers
BY DEF RunSteps, SpecSteps, SpecEnds, EarlySteps, WorkSteps, LateSteps, Handovers

\* Where the loop over steps is.
Building == AtWork \cup {"advance", "step", "step_end"}

LEMMA EarlyIsQuiet ==
    ASSUME StateTypes, EarlySteps
    PROVE  QuietStep({"remember", "remember_judge", "write_spec", "spec"},
                     {"remember_judge", "write_spec", "spec", "wrap_up"})
BY RememberIsQuiet, SpecIsQuiet DEF EarlySteps, QuietStep

LEMMA WorkIsQuiet ==
    ASSUME StateTypes, NoWorkYet, RegateDecides, WorkSteps
    PROVE  QuietStep(Building, Building \cup {"wrap_up"})
BY AdvanceIsQuiet, DispatchIsQuiet, WaveIsQuiet, JudgeIsQuiet, ApplyIsQuiet
DEF WorkSteps, QuietStep, Building, AtWork

LEMMA LateIsQuiet ==
    ASSUME StateTypes, LateSteps
    PROVE  QuietStep({"wrap_up", "summarize", "summary"},
                     {"summarize", "summary", "write_summary", "pause"})
BY SummaryIsQuiet DEF LateSteps

-----------------------------------------------------------------------------
(* Nothing is begun in a lab that halted or lost its sandbox *)

LEMMA NoWorkStep ==
    ASSUME FlowInv, NoWorkYet, [Next]_vars
    PROVE  NoWorkYet'
<1>1. StateTypes /\ RegateDecides
  BY DEF FlowInv, TypeOK, StateTypes
<1>2. CASE Persist \/ UNCHANGED <<journal, writes, files, at, lab, cur>>
  <2>1. UNCHANGED <<at, lab>>
    BY <1>2 DEF Persist
  <2>. QED
    BY <2>1 DEF NoWorkYet, Over
<1>3. CASE EnterLab
  BY <1>3 DEF EnterLab, Goto, NoWorkYet, AtWork
<1>4. CASE RunSteps
  BY <1>1, <1>4, RunStepsByPlace, EarlyIsQuiet, WorkIsQuiet, LateIsQuiet, HandoversRun
  DEF QuietStep, NoWorkYet, AtWork
<1>5. CASE at' \in {"off", "opening", "replayed"}
  BY <1>5 DEF NoWorkYet, AtWork
<1>. QED
  BY <1>2, <1>3, <1>4, <1>5, KindsOfSteps

\* For every set of assignments and all limits: after submit_halt or the loss of the
\* sandbox, in this run or in one that it resumes, no further work is started.
THEOREM NoWorkIsStarted == Spec => []NoWorkAfterTheEnd
<1>1. Init => NoWorkYet
  BY DEF Init, NoWorkYet, AtWork
<1>2. FlowInv /\ NoWorkYet /\ [Next]_vars => NoWorkYet'
  BY NoWorkStep
<1>3. NoWorkYet => NoWorkAfterTheEnd
  BY DEF NoWorkYet, NoWorkAfterTheEnd, AtWork, Over
<1>. QED
  BY <1>1, <1>2, <1>3, InvHolds, PTL DEF Spec

-----------------------------------------------------------------------------
(* The SPEC that is worked on is that of the plan *)

Current(j, f) == j.spec = j.plan /\ f.spec = "latest"

\* The writes make a SPEC current that is not yet: its submit, then SPEC.md.
Brings(j, f, ws) ==
    \/ Current(j, f) /\ ws \in Seq(PlainEvents)
    \/ /\ j.spec = j.plan
       /\ ws # <<>> /\ Head(ws) = FileSpec /\ Tail(ws) \in Seq(PlainEvents)
    \/ /\ ws # <<>> /\ Head(ws) = EvSpec
       /\ Tail(ws) # <<>> /\ Head(Tail(ws)) = FileSpec
       /\ Tail(Tail(ws)) \in Seq(PlainEvents)

CurrentInv ==
    /\ at \in AtWork \cup {"step"} => Current(journal, files) /\ writes \in Seq(PlainEvents)
    /\ at \in {"advance", "step_end"} => Brings(journal, files, writes)

LEMMA PlainFold ==
    ASSUME NEW j \in JournalStates, NEW f \in FileStates, NEW e \in PlainEvents
    PROVE  /\ Fold(j, e).spec = j.spec /\ Fold(j, e).summary = j.summary
           /\ Fold(j, e).plan = j.plan
           /\ WriteFile(f, j, e).spec \in {f.spec, "latest"}
<1>1. /\ e \in InnerEvents /\ e \in Events
      /\ e.kind \notin {"begin", "user_instruction", "artifact_mismatch", "session_closed",
                        "submit_spec", "submit_summary"}
  BY DEF PlainEvents, InnerEvents
<1>2. /\ Fold(j, e).spec = j.spec /\ Fold(j, e).summary = j.summary
      /\ Fold(j, e).plan = j.plan
  BY <1>1 DEF Fold, FoldGate, FoldDispatch, JournalStates
<1>3. WriteFile(f, j, e).spec \in {f.spec, "latest"}
  BY <1>1 DEF WriteFile, FileStates
<1>. QED
  BY <1>2, <1>3

\* The two writes that a SPEC becomes current by.
LEMMA SpecFold ==
    ASSUME NEW j \in JournalStates, NEW f \in FileStates
    PROVE  /\ Fold(j, EvSpec).spec = Fold(j, EvSpec).plan
           /\ Fold(j, FileSpec) = j /\ WriteFile(f, j, FileSpec).spec = "latest"
<1>1. Fold(j, EvSpec) = [j EXCEPT !.spec = j.plan]
  BY DEF Fold, EvSpec
<1>2. Fold(j, FileSpec) = j
  BY DEF Fold, FileSpec
<1>3. WriteFile(f, j, FileSpec) = [f EXCEPT !.spec = "latest"]
  BY DEF WriteFile, FileSpec
<1>. QED
  BY <1>1, <1>2, <1>3 DEF JournalStates, FileStates

LEMMA BringsAfterOne ==
    ASSUME NEW j \in JournalStates, NEW f \in FileStates, NEW ws,
           ws # <<>>, Brings(j, f, ws)
    PROVE  Brings(Fold(j, Head(ws)), WriteFile(f, j, Head(ws)), Tail(ws))
<1>. DEFINE e == Head(ws)
<1>1. CASE Current(j, f) /\ ws \in Seq(PlainEvents)
  <2>1. e \in PlainEvents /\ Tail(ws) \in Seq(PlainEvents)
    BY <1>1, TailType
  <2>. QED
    BY <1>1, <2>1, PlainFold DEF Current, Brings
<1>2. CASE j.spec = j.plan /\ Head(ws) = FileSpec /\ Tail(ws) \in Seq(PlainEvents)
  BY <1>2, SpecFold DEF Current, Brings
<1>3. CASE /\ Head(ws) = EvSpec /\ Tail(ws) # <<>> /\ Head(Tail(ws)) = FileSpec
           /\ Tail(Tail(ws)) \in Seq(PlainEvents)
  BY <1>3, SpecFold DEF Brings
<1>. QED
  BY <1>1, <1>2, <1>3 DEF Brings

LEMMA OneHasNoTail ==
    ASSUME NEW a
    PROVE  Head(<<a>>) = a /\ Tail(<<a>>) = <<>> /\ <<a>> # <<>>
OBVIOUS

LEMMA TwoHaveATail ==
    ASSUME NEW a, NEW b
    PROVE  Head(<<a, b>>) = a /\ Tail(<<a, b>>) = <<b>> /\ <<a, b>> # <<>>
<1>. DEFINE S == {a, b}
<1>1. <<b>> \in Seq(S) /\ <<a, b>> \in Seq(S)
  OBVIOUS
<1>2. Head(<<a, b>>) = a /\ <<a, b>> # <<>>
  OBVIOUS
<1>3. Tail(<<a, b>>) \in Seq(S) /\ Len(Tail(<<a, b>>)) = 1 /\ Tail(<<a, b>>)[1] = b
  BY <1>1
<1>. QED
  BY <1>1, <1>2, <1>3, SeqEqual

LEMMA ThreeHaveATail ==
    ASSUME NEW a, NEW b, NEW c
    PROVE  Head(<<a, b, c>>) = a /\ Tail(<<a, b, c>>) = <<b, c>> /\ <<a, b, c>> # <<>>
<1>. DEFINE S == {a, b, c}
<1>1. <<b, c>> \in Seq(S) /\ <<a, b, c>> \in Seq(S)
  OBVIOUS
<1>2. Head(<<a, b, c>>) = a /\ <<a, b, c>> # <<>>
  OBVIOUS
<1>3. /\ Tail(<<a, b, c>>) \in Seq(S) /\ Len(Tail(<<a, b, c>>)) = 2
      /\ Tail(<<a, b, c>>)[1] = b /\ Tail(<<a, b, c>>)[2] = c
  BY <1>1
<1>. QED
  BY <1>1, <1>2, <1>3, SeqEqual

\* The three ways into a SPEC: one that a resume finds, a new one, a revised one.
LEMMA HandoversBring ==
    ASSUME StateTypes, SpecReused \/ SpecSubmits \/ ReviseSubmits
    PROVE  Brings(journal', files', writes')
<1>. EvStage("advance", lab.step) \in PlainEvents
  BY QuietConstructors DEF QuietEvents, StateTypes, LabStates
<1>. <<>> \in Seq(PlainEvents) /\ <<EvStage("advance", lab.step)>> \in Seq(PlainEvents)
  BY WriteSeqs
<1>. DEFINE stage == EvStage("advance", lab.step)
<1>a. /\ Head(<<FileSpec>>) = FileSpec /\ Tail(<<FileSpec>>) = <<>>
      /\ <<FileSpec>> # <<>>
  BY OneHasNoTail
<1>b. /\ Head(<<FileSpec, stage>>) = FileSpec /\ Tail(<<FileSpec, stage>>) = <<stage>>
      /\ <<FileSpec, stage>> # <<>>
  BY TwoHaveATail
<1>c. /\ Head(<<EvSpec, FileSpec>>) = EvSpec /\ Tail(<<EvSpec, FileSpec>>) = <<FileSpec>>
      /\ <<EvSpec, FileSpec>> # <<>>
  BY TwoHaveATail
<1>d. /\ Head(<<EvSpec, FileSpec, stage>>) = EvSpec
      /\ Tail(<<EvSpec, FileSpec, stage>>) = <<FileSpec, stage>>
      /\ <<EvSpec, FileSpec, stage>> # <<>>
  BY ThreeHaveATail
<1>. HIDE DEF stage
<1>1. CASE SpecReused
  <2>1. /\ journal.spec = journal.plan /\ UNCHANGED <<journal, files>>
        /\ writes' = <<FileSpec>> \/ writes' = <<FileSpec, stage>>
    BY <1>1 DEF SpecReused, Goto, HasSubmit, stage
  <2>2. /\ writes' # <<>> /\ Head(writes') = FileSpec
        /\ Tail(writes') = <<>> \/ Tail(writes') = <<stage>>
    BY <1>a, <1>b, <1>c, <1>d, <2>1
  <2>3. Tail(writes') \in Seq(PlainEvents)
    BY <2>2 DEF stage
  <2>. QED
    BY <2>1, <2>2, <2>3 DEF Brings
<1>2. CASE SpecSubmits \/ ReviseSubmits
  <2>1. writes' = <<EvSpec, FileSpec>> \/ writes' = <<EvSpec, FileSpec, stage>>
    BY <1>2 DEF SpecSubmits, ReviseSubmits, Goto, stage
  <2>2. /\ writes' # <<>> /\ Head(writes') = EvSpec
        /\ Tail(writes') = <<FileSpec>> \/ Tail(writes') = <<FileSpec, stage>>
    BY <1>a, <1>b, <1>c, <1>d, <2>1
  <2>3. /\ Tail(writes') # <<>> /\ Head(Tail(writes')) = FileSpec
        /\ Tail(Tail(writes')) = <<>> \/ Tail(Tail(writes')) = <<stage>>
    BY <1>a, <1>b, <1>c, <1>d, <2>2
  <2>4. Tail(Tail(writes')) \in Seq(PlainEvents)
    BY <2>3 DEF stage
  <2>. QED
    BY <2>2, <2>3, <2>4 DEF Brings
<1>. QED
  BY <1>1, <1>2

LEMMA CurrentStep ==
    ASSUME FlowInv, NoWorkYet, CurrentInv, [Next]_vars
    PROVE  CurrentInv'
<1>1. /\ StateTypes /\ RegateDecides
      /\ journal \in JournalStates /\ files \in FileStates
  BY DEF FlowInv, TypeOK, StateTypes, FileStates
<1>2. CASE Persist
  <2>1. /\ writes # <<>> /\ UNCHANGED at
        /\ journal' = Fold(journal, Head(writes)) /\ writes' = Tail(writes)
        /\ files' = WriteFile(files, journal, Head(writes))
    BY <1>2 DEF Persist
  <2>2. CASE at \in AtWork \cup {"step"}
    <3>1. /\ Current(journal, files)
          /\ Head(writes) \in PlainEvents /\ Tail(writes) \in Seq(PlainEvents)
      BY <2>1, <2>2, TailType DEF CurrentInv
    <3>2. at \notin {"advance", "step_end"}
      BY <2>2 DEF AtWork
    <3>. QED
      BY <1>1, <2>1, <3>1, <3>2, PlainFold DEF CurrentInv, Current
  <2>3. CASE at \in {"advance", "step_end"}
    <3>1. at \notin AtWork \cup {"step"}
      BY <2>3 DEF AtWork
    <3>2. Brings(journal', files', writes')
      BY <1>1, <2>1, <2>3, BringsAfterOne DEF CurrentInv
    <3>. QED
      BY <2>1, <3>1, <3>2 DEF CurrentInv
  <2>. QED
    BY <2>1, <2>2, <2>3 DEF CurrentInv
<1>3. CASE EnterLab
  BY <1>3 DEF EnterLab, Goto, CurrentInv, AtWork
<1>4. CASE RunSteps
  <2>1. CASE EarlySteps \/ LateSteps
    BY <1>1, <2>1, EarlyIsQuiet, LateIsQuiet DEF QuietStep, CurrentInv, AtWork
  <2>2. CASE WorkSteps
    <3>1. /\ at \in Building /\ Ready
          /\ writes' \in Seq(PlainEvents) /\ UNCHANGED <<journal, files>>
      BY <1>1, <1>4, <2>2, WorkIsQuiet, RunStepsAreReady, PlainSeqs DEF QuietStep
    <3>2. Current(journal, files)
      BY <3>1 DEF CurrentInv, Building, Brings, Ready
    <3>3. Current(journal', files')
      BY <3>1, <3>2 DEF Current
    <3>. QED
      BY <3>1, <3>3 DEF CurrentInv, Brings
  <2>3. CASE SpecReused \/ SpecSubmits \/ ReviseSubmits
    <3>1. at' \in {"advance", "step_end"}
      BY <2>3 DEF SpecReused, SpecSubmits, ReviseSubmits, Goto
    <3>. QED
      BY <1>1, <2>3, <3>1, HandoversBring DEF CurrentInv, AtWork
  <2>4. CASE SummarySubmits \/ WriteSummary \/ CloseSession
    BY <2>4 DEF SummarySubmits, WriteSummary, CloseSession, Goto, CurrentInv, AtWork
  <2>. QED
    BY <1>4, <2>1, <2>2, <2>3, <2>4, RunStepsByPlace DEF Handovers
<1>5. CASE at' \in {"off", "opening", "replayed"}
  BY <1>5 DEF CurrentInv, AtWork
<1>6. CASE UNCHANGED <<journal, writes, files, at, lab, cur>>
  BY <1>6 DEF CurrentInv, Current, Brings
<1>. QED
  BY <1>2, <1>3, <1>4, <1>5, <1>6, KindsOfSteps

\* For every set of assignments and all limits: whatever is dispatched, executed,
\* judged or taken over, it is under a SPEC of the current plan, rendered in SPEC.md.
THEOREM SpecStaysCurrent == Spec => []SpecIsCurrent
<1>1. Init => NoWorkYet /\ CurrentInv
  BY DEF Init, NoWorkYet, CurrentInv, AtWork
<1>2. FlowInv /\ NoWorkYet /\ CurrentInv /\ [Next]_vars => NoWorkYet' /\ CurrentInv'
  BY NoWorkStep, CurrentStep
<1>3. CurrentInv => SpecIsCurrent
  BY DEF CurrentInv, SpecIsCurrent, Current, AtWork
<1>. QED
  BY <1>1, <1>2, <1>3, InvHolds, PTL DEF Spec

-----------------------------------------------------------------------------
(* The verdict of a session *)

VerdictOf(gates, verdict) ==
    LET recorded == {gates[i] : i \in Ids} \ {NoGate}
    IN  verdict \in GateStates /\ recorded # {} =>
            verdict \in recorded /\ \A g \in recorded : GateRank(g) <= GateRank(verdict)

VerdictInv ==
    /\ journal.result # NoResult => VerdictOf(journal.gates, journal.result)
    /\ at = "leave" => \A v \in Verdicts :
                          writes = <<EvClosed(v)>> => VerdictOf(journal.gates, v)

LEMMA VerdictIsWorst ==
    ASSUME NEW l \in LabStates
    PROVE  VerdictOf(l.gates, Verdict(l))
<1>. DEFINE recorded == {l.gates[i] : i \in Ids} \ {NoGate}
<1>1. recorded \in SUBSET GateStates
  BY DEF LabStates
<1>2. Verdict(l) \in GateStates => Verdict(l) = SummaryGate(l)
  BY DEF Verdict
<1>3. recorded # {} => SummaryGate(l) = WorstGate(recorded)
  BY DEF SummaryGate
<1>. HIDE DEF recorded
<1>4. recorded # {} => /\ WorstGate(recorded) \in recorded
                       /\ \A g \in recorded : GateRank(g) <= GateRank(WorstGate(recorded))
  BY <1>1, WorstGateIsWorst
<1>. QED
  BY <1>2, <1>3, <1>4 DEF VerdictOf, recorded

\* Only the close of a session writes a result, and it changes no gate.
LEMMA VerdictPersists ==
    ASSUME FlowInv, VerdictInv, Persist
    PROVE  VerdictInv'
<1>. DEFINE e == Head(writes)
<1>1. /\ journal \in JournalStates /\ writes # <<>> /\ journal' = Fold(journal, e)
      /\ writes' = Tail(writes) /\ UNCHANGED at
  BY PersistTypes DEF FlowInv, TypeOK, Persist
<1>2. CASE at = "leave"
  <2>1. PICK v \in Verdicts : writes = <<EvClosed(v)>>
    BY <1>1, <1>2 DEF FlowInv, WritesInv
  <2>2. VerdictOf(journal.gates, v)
    BY <1>2, <2>1 DEF VerdictInv
  <2>3. e = EvClosed(v) /\ writes' = <<>>
    BY <1>1, <2>1
  <2>4. journal' = [journal EXCEPT !.result = v]
    BY <1>1, <2>3, FoldLines DEF EvClosed
  <2>5. journal'.result = v /\ journal'.gates = journal.gates
    BY <1>1, <2>4 DEF JournalStates
  <2>6. \A w : writes' # <<EvClosed(w)>>
    BY <2>3
  <2>. QED
    BY <2>2, <2>5, <2>6 DEF VerdictInv
<1>3. CASE at # "leave"
  <2>1. journal.result = NoResult
    BY <1>1, <1>3 DEF FlowInv, SessionInv, WritesInv
  <2>2. journal'.result = journal.result
    <3>1. CASE at \in Middle
      BY <3>1, PersistInner
    <3>2. CASE at \in {"opening", "replayed"}
      BY <3>2, PersistOpening
    <3>3. CASE at = "close"
      <4>1. e = FileSummary
        BY <1>1, <3>3 DEF FlowInv, WritesInv
      <4>. QED
        BY <1>1, <4>1, FoldLines DEF FileSummary
    <3>4. at # "off" /\ at \in Places
      BY <1>1 DEF FlowInv, WritesInv, TypeOK
    <3>. QED
      BY <1>3, <3>1, <3>2, <3>3, <3>4 DEF Middle
  <2>. QED
    BY <1>1, <1>3, <2>1, <2>2 DEF VerdictInv
<1>. QED
  BY <1>2, <1>3

LEMMA VerdictStep ==
    ASSUME DurableInv, VerdictInv, [Next]_vars
    PROVE  VerdictInv'
<1>1. FlowInv /\ lab \in LabStates
  BY DEF DurableInv, FlowInv, TypeOK
<1>2. CASE Persist
  BY <1>1, <1>2, VerdictPersists
<1>3. CASE EnterLab
  BY <1>3 DEF EnterLab, Goto, VerdictInv
<1>4. CASE RunSteps
  <2>1. UNCHANGED journal
    BY <1>4, RunStepsAreReady
  <2>2. CASE CloseSession
    <3>1. writes' = <<EvClosed(Verdict(lab))>>
      BY <2>2 DEF CloseSession, Goto
    <3>2. journal.gates = lab.gates
      BY <1>1, <1>4, RunStepsAreReady, RunStepsRun, ReadyAgrees DEF Agrees
    <3>3. VerdictOf(journal.gates, Verdict(lab))
      BY <1>1, <3>2, VerdictIsWorst
    <3>4. \A v : <<EvClosed(Verdict(lab))>> = <<EvClosed(v)>> => v = Verdict(lab)
      BY DEF EvClosed
    <3>. QED
      BY <2>1, <3>1, <3>3, <3>4 DEF VerdictInv
  <2>3. CASE ~CloseSession
    <3>1. StateTypes /\ RegateDecides
      BY <1>1 DEF FlowInv, TypeOK, StateTypes
    <3>2. CASE WriteSummary
      BY <2>1, <3>2 DEF WriteSummary, Goto, VerdictInv
    <3>3. CASE ~WriteSummary
      <4>1. MiddleStep
        BY <1>1, <1>4, <2>3, <3>1, <3>3, RememberIsMiddle, SpecIsMiddle, SummaryIsMiddle,
           AdvanceIsMiddle, DispatchIsMiddle, WaveIsMiddle, JudgeIsMiddle, ApplyIsMiddle
        DEF RunSteps, FlowInv, TypeOK
      <4>2. at' # "leave"
        BY <4>1 DEF MiddleStep, Middle
      <4>. QED
        BY <2>1, <4>2 DEF VerdictInv
    <3>. QED
      BY <3>2, <3>3
  <2>. QED
    BY <2>2, <2>3
<1>5. CASE at' \in {"off", "opening", "replayed"} /\ UNCHANGED journal
  BY <1>5 DEF VerdictInv
<1>6. CASE UNCHANGED <<journal, writes, files, at, lab, cur>>
  BY <1>6 DEF VerdictInv
<1>. QED
  BY <1>2, <1>3, <1>4, <1>5, <1>6, KindsOfSteps

\* For every set of assignments and all limits: the verdict a session is closed with
\* is the worst of the gates it has recorded, unless it halted or lost its sandbox.
THEOREM VerdictIsWorstOfAll == Spec => []VerdictIsTheWorstGate
<1>1. Init => VerdictInv
  BY DEF Init, EmptyJournal, VerdictInv
<1>2. DurableInv /\ VerdictInv /\ [Next]_vars => VerdictInv'
  BY VerdictStep
<1>3. VerdictInv => VerdictIsTheWorstGate
  BY DEF VerdictInv, VerdictOf, VerdictIsTheWorstGate
<1>. QED
  BY <1>1, <1>2, <1>3, DurableHolds, PTL DEF Spec
=============================================================================
