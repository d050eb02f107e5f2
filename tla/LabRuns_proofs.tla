---------------------------- MODULE LabRuns_proofs ----------------------------
(***************************************************************************)
(* Proofs about what a run, and the runs that resume it, do at most once:  *)
(* submits are asked for once, decisions are taken over complete steps, a  *)
(* brief is committed once, and the run that opened a session gives no     *)
(* passed work out again and decides finish over the gates it saw itself;  *)
(* for every set of assignment ids and every value of the limits.          *)
(***************************************************************************)
EXTENDS LabFlow_proofs

USE DEF Pass, NoHard, TestInvalid, Fail, NoGate, GateStates, Decisions, Stages,
        NoResult, NoBrief, NoPlan, Verdicts

-----------------------------------------------------------------------------
(* What a run that was not resumed finds, and what one that was starts on *)

Opening == {"opening", "replayed"}
Early == {"remember", "remember_judge", "write_spec", "spec"}
Before == Early \cup Building \cup {"wrap_up", "summarize", "summary"}

\* Lines that are no submit of a Summary.
StepEvents == {e \in InnerEvents : e.kind # "submit_summary"}

\* Nothing was submitted or recorded in a session that has not begun, and the run
\* that opened it has submitted nothing before it comes to the SPEC and the Summary.
FreshInv ==
    /\ ~journal.begun => /\ journal.spec = NoPlan /\ journal.summary = NoPlan
                         /\ journal.effects = {}
    /\ ~lab.resume =>
          /\ at \in Opening \cup Early => journal.spec = NoPlan
          /\ at \in Early => writes \in Seq(PlainEvents)
          /\ at \in Opening \cup Before => journal.summary = NoPlan
          /\ at \in Before => writes \in Seq(StepEvents)
          /\ at = "opening" => journal.effects = {}
    /\ at = "replayed" /\ writes = <<>> => journal.effects \cap drift = {}

LEMMA StepFold ==
    ASSUME NEW j \in JournalStates, NEW e \in StepEvents
    PROVE  Fold(j, e).summary = j.summary
<1>1. /\ e \in InnerEvents /\ e \in Events
      /\ e.kind \notin {"begin", "user_instruction", "artifact_mismatch", "session_closed",
                        "submit_summary"}
  BY DEF StepEvents, InnerEvents
<1>. QED
  BY <1>1 DEF Fold, FoldGate, FoldDispatch, JournalStates

\* The lines before the first phase keep what was submitted.
LEMMA OpeningFold ==
    ASSUME NEW j \in JournalStates, NEW e \in {EvBegin, EvInstruction, EvMismatch}
    PROVE  /\ Fold(j, e).spec = j.spec /\ Fold(j, e).summary = j.summary
           /\ Fold(j, e).effects \in {j.effects, {}}
           /\ e # EvBegin => Fold(j, e).effects = {}
<1>1. CASE e = EvBegin
  <2>1. Fold(j, e) = [j EXCEPT !.begun = TRUE]
    BY <1>1 DEF Fold, EvBegin
  <2>. QED
    BY <1>1, <2>1 DEF JournalStates
<1>2. CASE e # EvBegin
  <2>1. Fold(j, e) = NewPlan(j)
    BY <1>2 DEF Fold, EvInstruction, EvMismatch
  <2>2. NewPlan(j).spec = j.spec /\ NewPlan(j).summary = j.summary /\ NewPlan(j).effects = {}
    BY EmptyJournalType DEF NewPlan, EmptyJournal, JournalStates
  <2>. QED
    BY <2>1, <2>2
<1>. QED
  BY <1>1, <1>2

LEMMA PlainIsStep == Seq(PlainEvents) \subseteq Seq(StepEvents)
BY DEF PlainEvents, StepEvents

LEMMA FreshPersists ==
    ASSUME FlowInv, FreshInv, Persist
    PROVE  FreshInv'
<1>. DEFINE e == Head(writes)
<1>1. /\ journal \in JournalStates /\ writes # <<>> /\ journal' = Fold(journal, e)
      /\ files \in FileStates
      /\ writes' = Tail(writes) /\ UNCHANGED <<at, lab>> /\ at \in Places
  BY PersistTypes DEF FlowInv, TypeOK, Persist, FileStates
<1>2. CASE at \in Opening
  <2>1. /\ e \in {EvBegin, EvInstruction, EvMismatch} /\ journal'.begun
        /\ at = "replayed" => e # EvBegin
    <3>1. at = "opening" => e \in {EvBegin, EvInstruction}
      BY <1>1 DEF FlowInv, WritesInv
    <3>2. at = "replayed" => e = EvMismatch
      BY <1>1 DEF FlowInv, WritesInv
    <3>3. EvMismatch # EvBegin
      BY DEF EvMismatch, EvBegin
    <3>. QED
      BY <1>2, <3>1, <3>2, <3>3, PersistOpening DEF Opening
  <2>2. /\ UNCHANGED <<journal.spec, journal.summary>>
        /\ journal'.effects \in {journal.effects, {}}
        /\ e # EvBegin => journal'.effects = {}
    BY <1>1, <2>1, OpeningFold
  <2>3. at \notin Early /\ at \notin Before
    BY <1>2 DEF Opening, Early, Before, Building, AtWork
  <2>4. at = "replayed" => journal'.effects = {}
    BY <2>1, <2>2
  <2>5. ~lab.resume => /\ journal'.spec = NoPlan /\ journal'.summary = NoPlan
                       /\ at = "opening" => journal'.effects = {}
    BY <1>2, <2>2 DEF FreshInv
  <2>. QED
    BY <1>1, <2>1, <2>3, <2>4, <2>5 DEF FreshInv
<1>3. CASE at \notin Opening
  <2>1. journal'.begun /\ at \notin {"opening", "replayed", "off"}
    <3>1. at \notin {"off", "opening", "replayed"} /\ journal.begun
      BY <1>1, <1>3 DEF Opening, FlowInv, WritesInv, SessionInv
    <3>2. CASE at \in Middle
      BY <3>1, <3>2, PersistInner
    <3>3. CASE at \in {"close", "leave"}
      BY <3>1, <3>3, PersistClosing
    <3>. QED
      BY <1>1, <3>1, <3>2, <3>3 DEF Middle
  <2>2. ASSUME ~lab.resume, at \in Early
        PROVE  journal'.spec = NoPlan /\ writes' \in Seq(PlainEvents)
    <3>1. journal.spec = NoPlan /\ writes \in Seq(PlainEvents)
      BY <2>2 DEF FreshInv
    <3>2. e \in PlainEvents /\ writes' \in Seq(PlainEvents)
      BY <1>1, <3>1, TailType
    <3>. QED
      BY <1>1, <3>1, <3>2, PlainFold
  <2>3. ASSUME ~lab.resume, at \in Before
        PROVE  journal'.summary = NoPlan /\ writes' \in Seq(StepEvents)
    <3>1. journal.summary = NoPlan /\ writes \in Seq(StepEvents)
      BY <2>3 DEF FreshInv
    <3>2. e \in StepEvents /\ writes' \in Seq(StepEvents)
      BY <1>1, <3>1, TailType
    <3>. QED
      BY <1>1, <3>1, <3>2, StepFold
  <2>. QED
    BY <1>1, <1>3, <2>1, <2>2, <2>3 DEF FreshInv
<1>. QED
  BY <1>2, <1>3

\* What a run is opened with.
LEMMA FreshOpens ==
    ASSUME FlowInv, FreshInv, at' \in {"off", "opening", "replayed"},
           UNCHANGED <<journal, files, drift>>, at' = "off" \/ OpeningSteps
    PROVE  FreshInv'
<1>1. lab \in LabStates
  BY DEF FlowInv, TypeOK
<1>2. at' \notin Early /\ at' \notin Before
  BY DEF Early, Before, Building, AtWork
<1>3. CASE at' = "off"
  BY <1>2, <1>3 DEF FreshInv, Opening
<1>4. CASE NewRun
  <2>1. at' = "opening" /\ ~journal.begun
    BY <1>4 DEF NewRun, Goto
  <2>. QED
    BY <1>2, <2>1 DEF FreshInv
<1>5. CASE \E instruction \in BOOLEAN : ResumeRun(instruction)
  <2>1. at' = "opening" /\ lab'.resume
    BY <1>1, <1>5 DEF ResumeRun, Goto, LabStates
  <2>. QED
    BY <1>2, <2>1 DEF FreshInv
<1>6. CASE BeginRun
  <2>1. at = "opening" /\ at' = "replayed" /\ lab' = lab
    BY <1>6 DEF BeginRun, Goto
  <2>2. writes' = <<>> => ~lab.resume \/ journal.effects \cap drift = {}
    BY <1>6 DEF BeginRun, Goto, Mismatches
  <2>3. ~lab.resume => /\ journal.effects = {}
                       /\ journal.spec = NoPlan /\ journal.summary = NoPlan
    BY <2>1 DEF FreshInv, Opening
  <2>. QED
    BY <1>2, <2>1, <2>2, <2>3 DEF FreshInv
<1>. QED
  BY <1>3, <1>4, <1>5, <1>6 DEF OpeningSteps

LEMMA FreshStep ==
    ASSUME FlowInv, NoWorkYet, FreshInv, [Next]_vars
    PROVE  FreshInv'
<1>1. StateTypes /\ RegateDecides
  BY DEF FlowInv, TypeOK, StateTypes
<1>2. CASE Persist
  BY <1>2, FreshPersists
<1>3. CASE EnterLab
  <2>1. /\ at = "replayed" /\ at' \in {"remember", "wrap_up"} /\ writes' = <<>>
        /\ UNCHANGED journal
    BY <1>3 DEF EnterLab, Goto
  <2>2. lab'.resume = lab.resume
    BY <1>3 DEF EnterLab, Restored, Idle
  <2>3. <<>> \in Seq(PlainEvents) /\ <<>> \in Seq(StepEvents)
    BY WriteSeqs
  <2>. QED
    BY <2>1, <2>2, <2>3 DEF FreshInv, Opening, Early, Before
<1>4. CASE RunSteps
  <2>0. UNCHANGED journal
    BY <1>4, RunStepsAreReady
  <2>1. CASE EarlySteps
    <3>1. /\ at \in Early /\ at' \in Early \cup {"wrap_up"}
          /\ writes' \in Seq(PlainEvents) /\ lab'.resume = lab.resume
      BY <1>1, <2>1, EarlyIsQuiet, PlainSeqs DEF QuietStep, Early
    <3>. QED
      BY <2>0, <3>1, PlainIsStep DEF FreshInv, Opening, Early, Before, Building, AtWork
  <2>2. CASE WorkSteps \/ LateSteps
    <3>1. /\ at \in Before /\ at' \notin Opening \cup Early
          /\ writes' \in Seq(PlainEvents) /\ lab'.resume = lab.resume
      BY <1>1, <2>2, WorkIsQuiet, LateIsQuiet, PlainSeqs
      DEF QuietStep, Before, Building, AtWork, Opening, Early
    <3>. QED
      BY <2>0, <3>1, PlainIsStep DEF FreshInv, Opening, Early
  <2>3. CASE SpecReused \/ SpecSubmits \/ ReviseSubmits
    <3>1. /\ at \in Before /\ at' \notin Opening \cup Early
          /\ writes' \in Seq(StepEvents) /\ lab'.resume = lab.resume
      <4>1. at \in {"write_spec", "spec", "revise_spec"} /\ at' \in {"advance", "step_end"}
        BY <2>3 DEF SpecReused, SpecSubmits, ReviseSubmits, Goto
      <4>2. lab'.resume = lab.resume
        BY <1>1, <2>3, HandoversRun DEF Handovers
      <4>3. writes' \in Seq(StepEvents)
        <5>1. /\ EvSpec \in StepEvents /\ FileSpec \in StepEvents
              /\ EvStage("advance", lab.step) \in StepEvents
          BY <1>1, InnerConstructors DEF StepEvents, EvSpec, FileSpec, EvStage, StateTypes,
             LabStates
        <5>2. \/ writes' = <<FileSpec>>
              \/ writes' = <<EvSpec, FileSpec>>
              \/ writes' = <<FileSpec, EvStage("advance", lab.step)>>
              \/ writes' = <<EvSpec, FileSpec, EvStage("advance", lab.step)>>
          BY <2>3 DEF SpecReused, SpecSubmits, ReviseSubmits, Goto
        <5>. QED
          BY <5>1, <5>2, WriteSeqs
      <4>. QED
        BY <4>1, <4>2, <4>3 DEF Before, Early, Building, AtWork, Opening
    <3>. QED
      BY <2>0, <3>1 DEF FreshInv, Opening, Early
  <2>4. CASE SummarySubmits \/ WriteSummary \/ CloseSession
    <3>1. at' \in {"write_summary", "close", "leave"}
      BY <2>4 DEF SummarySubmits, WriteSummary, CloseSession, Goto
    <3>. QED
      BY <2>0, <3>1 DEF FreshInv, Opening, Early, Before, Building, AtWork
  <2>. QED
    BY <1>4, <2>1, <2>2, <2>3, <2>4, RunStepsByPlace DEF Handovers
<1>5. CASE /\ at' \in {"off", "opening", "replayed"} /\ UNCHANGED <<journal, files, drift>>
           /\ at' = "off" \/ OpeningSteps
  BY <1>5, FreshOpens
<1>6. CASE /\ UNCHANGED <<journal, writes, files, at, lab, cur>>
           /\ at = "replayed" => UNCHANGED drift
  BY <1>6 DEF FreshInv
<1>. QED
  BY <1>2, <1>3, <1>4, <1>5, <1>6, KindsOfSteps

\* Where Pro is asked for a SPEC and for a Summary.
LEMMA DrivesAreAsked ==
    ASSUME FlowInv, NoWorkYet, [Next]_vars
    PROVE  /\ at # "spec" /\ at' = "spec" => SpecDrives
           /\ at # "summary" /\ at' = "summary" => SummaryDrives
<1>1. StateTypes /\ RegateDecides
  BY DEF FlowInv, TypeOK, StateTypes
<1>2. CASE Persist \/ UNCHANGED <<journal, writes, files, at, lab, cur>>
  BY <1>2 DEF Persist
<1>3. CASE EnterLab
  BY <1>3 DEF EnterLab, Goto
<1>4. CASE RunSteps
  <2>1. CASE RememberSteps
    BY <1>1, <2>1, RememberIsQuiet DEF QuietStep
  <2>2. CASE SpecEnds
    <3>1. at' = "wrap_up"
      BY <2>2 DEF SpecEnds, SpecSkips, SpecHalts, SpecLosesSandbox, Goto
    <3>. QED
      BY <3>1
  <2>3. CASE SpecDrives
    BY <2>3 DEF SpecDrives, Goto
  <2>4. CASE WorkSteps
    BY <1>1, <2>4, WorkIsQuiet DEF QuietStep, Building, AtWork
  <2>5. CASE LateSteps
    <3>1. CASE WrapUp \/ SummaryReused \/ SummaryLosesSandbox
      BY <3>1 DEF WrapUp, SummaryReused, SummaryLosesSandbox, Goto
    <3>2. CASE SummaryDrives
      BY <3>2 DEF SummaryDrives, Goto
    <3>. QED
      BY <2>5, <3>1, <3>2 DEF LateSteps, SummarySteps
  <2>6. CASE Handovers
    BY <1>1, <2>6, HandoversRun
  <2>. QED
    BY <1>4, <2>1, <2>2, <2>3, <2>4, <2>5, <2>6, RunStepsByPlace DEF EarlySteps
<1>5. CASE at' \in {"off", "opening", "replayed"}
  BY <1>5
<1>. QED
  BY <1>2, <1>3, <1>4, <1>5, KindsOfSteps

LEMMA FreshAsks ==
    ASSUME FlowInv, NoWorkYet, FreshInv, [Next]_vars
    PROVE  /\ at # "spec" /\ at' = "spec" => journal.spec # journal.plan
           /\ at # "summary" /\ at' = "summary" => journal.summary # journal.plan
           /\ at = "replayed" /\ at' \notin {"replayed", "off"}
                => journal.effects \cap drift = {}
<1>0. journal.plan \in Nat
  BY DEF FlowInv, TypeOK, JournalStates
<1>1. ASSUME at # "spec", at' = "spec"
      PROVE  journal.spec # journal.plan
  <2>1. at = "write_spec" /\ (lab.resume => journal.spec # journal.plan)
    BY <1>1, DrivesAreAsked DEF SpecDrives, HasSubmit
  <2>2. ~lab.resume => journal.spec = NoPlan
    BY <2>1 DEF FreshInv, Early
  <2>. QED
    BY <1>0, <2>1, <2>2
<1>2. ASSUME at # "summary", at' = "summary"
      PROVE  journal.summary # journal.plan
  <2>1. at = "summarize" /\ (lab.resume => journal.summary # journal.plan)
    BY <1>2, DrivesAreAsked DEF SummaryDrives, HasSubmit
  <2>2. ~lab.resume => journal.summary = NoPlan
    BY <2>1 DEF FreshInv, Before
  <2>. QED
    BY <1>0, <2>1, <2>2
<1>3. ASSUME at = "replayed", at' \notin {"replayed", "off"}
      PROVE  journal.effects \cap drift = {}
  <2>1. Ready
    <3>1. CASE EnterLab
      BY <3>1 DEF EnterLab
    <3>2. CASE RunSteps
      BY <3>2, RunStepsAreReady
    <3>3. CASE OpeningSteps
      BY <1>3, <3>3 DEF OpeningSteps, NewRun, BeginRun, ResumeRun
    <3>. QED
      BY <1>3, <3>1, <3>2, <3>3, KindsOfSteps DEF Persist
  <2>. QED
    BY <1>3, <2>1 DEF FreshInv, Ready
<1>. QED
  BY <1>1, <1>2, <1>3

LEMMA FreshHolds == Spec => [](FlowInv /\ NoWorkYet /\ FreshInv)
<1>1. Init => NoWorkYet /\ FreshInv
  BY DEF Init, EmptyJournal, NoWorkYet, FreshInv, AtWork, Opening, Early, Before, Building
<1>2. FlowInv /\ NoWorkYet /\ FreshInv /\ [Next]_vars => NoWorkYet' /\ FreshInv'
  BY NoWorkStep, FreshStep
<1>. QED
  BY <1>1, <1>2, InvHolds, PTL DEF Spec

\* For every set of assignments and all limits: Pro is asked for a SPEC or a Summary
\* only when the current plan has none, however often the run was interrupted.
THEOREM SubmitsAreFound == Spec => SubmitsAreReused
<1>1. FlowInv /\ NoWorkYet /\ FreshInv /\ [Next]_vars
        => [/\ at # "spec" /\ at' = "spec" => journal.spec # journal.plan
            /\ at # "summary" /\ at' = "summary" => journal.summary # journal.plan]_at
  BY FreshAsks
<1>. QED
  BY <1>1, FreshHolds, PTL DEF Spec, SubmitsAreReused

\* For every set of assignments and all limits: no phase starts on recorded products
\* that changed while no run was there.
THEOREM ProductsAreIntact == Spec => StartsOnIntactProducts
<1>1. FlowInv /\ NoWorkYet /\ FreshInv /\ [Next]_vars
        => [at = "replayed" /\ at' \notin {"replayed", "off"}
              => journal.effects \cap drift = {}]_at
  BY FreshAsks
<1>. QED
  BY <1>1, FreshHolds, PTL DEF Spec, StartsOnIntactProducts

-----------------------------------------------------------------------------
(* A decision is committed over a complete step *)

Complete(j) == \A i \in j.run \cup j.replay : j.briefs[i] # NoBrief

UnjudgedEvents == {e \in InnerEvents : e.kind # "judge"}

\* The brief of an assignment is committed, or among the pending writes.
Briefed(j, ws, i) ==
    \/ j.briefs[i] # NoBrief
    \/ \E n \in 1 .. Len(ws) : ws[n].kind = "brief" /\ ws[n].id = i

\* The commit of a dispatch is pending, and all of it is still to do.
DispatchPends(ws, todo, replay) ==
    \E n \in Nat, asg, run, again, executed \in SUBSET Ids :
        /\ ws = <<EvDispatch(n, asg, run, again), EvExecuted(executed)>>
        /\ run \subseteq todo /\ again \subseteq replay

\* What is not to do any more has its brief.
BriefsFollow(j, ws, todo, replay) ==
    /\ ws \in Seq(QuietEvents)
    /\ \A i \in (j.run \ todo) \cup (j.replay \ replay) : Briefed(j, ws, i)

AtWave == {"wave", "blocking", "replay_gates"}

JudgedInv ==
    /\ journal.judge # "none" => Complete(journal)
    /\ at \in Middle => \/ writes \in Seq(UnjudgedEvents)
                        \/ /\ \E d \in Decisions : writes = <<EvJudge(d)>>
                           /\ Complete(journal)
    /\ at \in {"judge", "regate"} => Complete(journal) /\ writes \in Seq(QuietEvents)
    /\ at \in AtWave =>
          \/ DispatchPends(writes, cur.todo, cur.replay)
          \/ BriefsFollow(journal, writes, cur.todo, cur.replay)
    /\ at = "replay_gates" => cur.todo = {}

\* A quiet line keeps the dispatch and its briefs.
LEMMA BriefFold ==
    ASSUME NEW j \in JournalStates, NEW e \in QuietEvents
    PROVE  /\ Fold(j, e).run = j.run /\ Fold(j, e).replay = j.replay
           /\ Fold(j, e).judge = j.judge
           /\ \A i \in Ids : j.briefs[i] # NoBrief => Fold(j, e).briefs[i] # NoBrief
           /\ \A i \in Ids : e.kind = "brief" /\ e.id = i => Fold(j, e).briefs[i] # NoBrief
<1>1. /\ e \in Events
      /\ e.kind \notin {"begin", "user_instruction", "artifact_mismatch", "session_closed",
                        "submit_spec", "submit_summary", "dispatch", "judge"}
  BY DEF QuietEvents, PlainEvents, InnerEvents
<1>2. CASE e.kind = "brief"
  <2>1. e.id \in Ids /\ e.gate \in GateStates \cup {NoGate}
    BY <1>1, <1>2 DEF Events
  <2>2. Fold(j, e) = [j EXCEPT !.briefs[e.id] = e.gate]
    BY <1>2 DEF Fold
  <2>3. e.gate # NoBrief
    BY <2>1
  <2>. QED
    BY <1>2, <2>1, <2>2, <2>3 DEF JournalStates
<1>3. CASE e.kind # "brief"
  <2>1. /\ Fold(j, e).run = j.run /\ Fold(j, e).replay = j.replay
        /\ Fold(j, e).judge = j.judge /\ Fold(j, e).briefs = j.briefs
    BY <1>1, <1>3 DEF Fold, FoldGate, JournalStates
  <2>. QED
    BY <1>3, <2>1
<1>. QED
  BY <1>2, <1>3

LEMMA CompleteFold ==
    ASSUME NEW j \in JournalStates, NEW e \in QuietEvents, Complete(j)
    PROVE  Complete(Fold(j, e))
<1>1. j.run \in SUBSET Ids /\ j.replay \in SUBSET Ids
  BY DEF JournalStates
<1>. QED
  BY <1>1, BriefFold DEF Complete

\* No line but a decision can leave a step decided and incomplete.
LEMMA UnjudgedFold ==
    ASSUME NEW j \in JournalStates, NEW e \in Events, e.kind # "judge",
           j.judge # "none" => Complete(j), Fold(j, e).judge # "none"
    PROVE  Complete(Fold(j, e))
<1>1. j.run \in SUBSET Ids /\ j.replay \in SUBSET Ids
  BY DEF JournalStates
<1>2. e.kind # "dispatch"
  <2>. SUFFICES ASSUME e.kind = "dispatch"
                PROVE  FALSE
    OBVIOUS
  <2>1. Fold(j, e).judge = "none"
    BY DEF Fold, FoldDispatch, JournalStates
  <2>. QED
    BY <2>1
<1>3. e.kind \notin {"user_instruction", "artifact_mismatch"}
  <2>. SUFFICES ASSUME e.kind \in {"user_instruction", "artifact_mismatch"}
                PROVE  FALSE
    OBVIOUS
  <2>1. Fold(j, e) = NewPlan(j)
    BY DEF Fold
  <2>2. NewPlan(j).judge = "none"
    BY EmptyJournalType DEF NewPlan, EmptyJournal, JournalStates
  <2>. QED
    BY <2>1, <2>2
<1>4. CASE e.kind = "brief"
  <2>1. e.id \in Ids /\ e.gate \in GateStates \cup {NoGate}
    BY <1>4 DEF Events
  <2>2. Fold(j, e) = [j EXCEPT !.briefs[e.id] = e.gate]
    BY <1>4 DEF Fold
  <2>3. e.gate # NoBrief
    BY <2>1
  <2>. QED
    BY <1>1, <2>1, <2>2, <2>3 DEF JournalStates, Complete
<1>5. CASE e.kind # "brief"
  <2>1. /\ Fold(j, e).run = j.run /\ Fold(j, e).replay = j.replay
        /\ Fold(j, e).judge = j.judge /\ Fold(j, e).briefs = j.briefs
    BY <1>2, <1>3, <1>5 DEF Fold, FoldGate, JournalStates
  <2>. QED
    BY <2>1 DEF Complete
<1>. QED
  BY <1>4, <1>5

\* The first of some writes is committed: what follows is briefed as before.
LEMMA BriefedAfterOne ==
    ASSUME NEW j \in JournalStates, NEW ws \in Seq(QuietEvents), ws # <<>>,
           NEW i \in Ids, Briefed(j, ws, i)
    PROVE  Briefed(Fold(j, Head(ws)), Tail(ws), i)
<1>1. Head(ws) \in QuietEvents /\ Head(ws) = ws[1]
  BY TailType
<1>2. CASE j.briefs[i] # NoBrief
  BY <1>1, <1>2, BriefFold DEF Briefed
<1>3. ASSUME NEW n \in 1 .. Len(ws), ws[n].kind = "brief", ws[n].id = i
      PROVE  Briefed(Fold(j, Head(ws)), Tail(ws), i)
  <2>1. CASE n = 1
    BY <1>1, <1>3, <2>1, BriefFold DEF Briefed
  <2>2. CASE n # 1
    <3>1. n - 1 \in 1 .. Len(Tail(ws)) /\ Tail(ws)[n - 1] = ws[n]
      BY <2>2
    <3>. QED
      BY <1>3, <3>1 DEF Briefed
  <2>. QED
    BY <2>1, <2>2
<1>. QED
  BY <1>2, <1>3 DEF Briefed

LEMMA WaveAfterOne ==
    ASSUME NEW j \in JournalStates, NEW ws, ws # <<>>, NEW todo, NEW replay,
           DispatchPends(ws, todo, replay) \/ BriefsFollow(j, ws, todo, replay)
    PROVE  BriefsFollow(Fold(j, Head(ws)), Tail(ws), todo, replay)
<1>1. CASE DispatchPends(ws, todo, replay)
  <2>1. PICK n \in Nat, asg, run, again, executed \in SUBSET Ids :
               /\ ws = <<EvDispatch(n, asg, run, again), EvExecuted(executed)>>
               /\ run \subseteq todo /\ again \subseteq replay
    BY <1>1 DEF DispatchPends
  <2>. DEFINE e == EvDispatch(n, asg, run, again)
              x == EvExecuted(executed)
  <2>2. Fold(j, e).run = run /\ Fold(j, e).replay = again
    BY DEF Fold, FoldDispatch, EvDispatch, JournalStates
  <2>3. x \in QuietEvents
    BY QuietConstructors
  <2>. HIDE DEF e, x
  <2>4. Head(ws) = e /\ Tail(ws) = <<x>>
    BY <2>1, TwoHaveATail DEF e, x
  <2>5. Tail(ws) \in Seq(QuietEvents)
    BY <2>3, <2>4, WriteSeqs
  <2>. QED
    BY <2>1, <2>2, <2>4, <2>5 DEF BriefsFollow
<1>2. CASE BriefsFollow(j, ws, todo, replay)
  <2>1. ws \in Seq(QuietEvents) /\ Head(ws) \in QuietEvents /\ Tail(ws) \in Seq(QuietEvents)
    BY <1>2, TailType DEF BriefsFollow
  <2>2. /\ Fold(j, Head(ws)).run = j.run /\ Fold(j, Head(ws)).replay = j.replay
        /\ j.run \in SUBSET Ids /\ j.replay \in SUBSET Ids
    BY <2>1, BriefFold DEF JournalStates
  <2>. QED
    BY <1>2, <2>1, <2>2, BriefedAfterOne DEF BriefsFollow
<1>. QED
  BY <1>1, <1>2

LEMMA JudgedPersists ==
    ASSUME FlowInv, JudgedInv, Persist
    PROVE  JudgedInv'
<1>. DEFINE e == Head(writes)
<1>1. /\ journal \in JournalStates /\ writes # <<>> /\ journal' = Fold(journal, e)
      /\ writes' = Tail(writes) /\ UNCHANGED <<at, cur>> /\ e \in Events
  BY PersistTypes DEF FlowInv, TypeOK, Persist
<1>2. ASSUME NEW d \in Decisions, writes = <<EvJudge(d)>>, Complete(journal)
      PROVE  Complete(journal') /\ writes' \in Seq(UnjudgedEvents)
  <2>1. e = EvJudge(d) /\ writes' = <<>>
    BY <1>1, <1>2
  <2>2. Fold(journal, e) = [journal EXCEPT !.judge = d]
    BY <2>1 DEF Fold, EvJudge
  <2>3. Complete(journal')
    BY <1>1, <1>2, <2>2 DEF Complete, JournalStates
  <2>. QED
    BY <2>1, <2>3, WriteSeqs
<1>3. ASSUME writes \in Seq(UnjudgedEvents)
      PROVE  /\ writes' \in Seq(UnjudgedEvents)
             /\ journal'.judge # "none" => Complete(journal')
  <2>1. e \in UnjudgedEvents /\ Tail(writes) \in Seq(UnjudgedEvents)
    BY <1>1, <1>3, TailType
  <2>2. e.kind # "judge"
    BY <2>1 DEF UnjudgedEvents
  <2>. QED
    BY <1>1, <2>1, <2>2, UnjudgedFold DEF JudgedInv
<1>4. CASE at \in Middle
  <2>1. /\ journal'.judge # "none" => Complete(journal')
        /\ writes' \in Seq(UnjudgedEvents)
    BY <1>2, <1>3, <1>4 DEF JudgedInv
  <2>2. at \in {"judge", "regate"} => Complete(journal') /\ writes' \in Seq(QuietEvents)
    <3>. SUFFICES ASSUME at \in {"judge", "regate"}
                  PROVE  Complete(journal') /\ writes' \in Seq(QuietEvents)
      OBVIOUS
    <3>1. Complete(journal) /\ e \in QuietEvents /\ writes' \in Seq(QuietEvents)
      BY <1>1, TailType DEF JudgedInv
    <3>. QED
      BY <1>1, <3>1, CompleteFold
  <2>3. at \in AtWave => BriefsFollow(journal', writes', cur.todo, cur.replay)
    BY <1>1, WaveAfterOne DEF JudgedInv
  <2>4. at = "replay_gates" => cur.todo = {}
    BY DEF JudgedInv
  <2>. QED
    BY <1>1, <2>1, <2>2, <2>3, <2>4 DEF JudgedInv
<1>5. CASE at \notin Middle
  <2>1. /\ at \notin {"judge", "regate"} /\ at \notin AtWave
        /\ at # "replay_gates" /\ at # "off"
    BY <1>1, <1>5 DEF Middle, Places, Drives, AtWave, FlowInv, WritesInv
  <2>2. e.kind # "judge"
    <3>1. at \in {"opening", "replayed", "close", "leave"}
      BY <1>1, <1>5, <2>1 DEF FlowInv, TypeOK, Middle
    <3>2. \/ e \in {EvBegin, EvInstruction, EvMismatch, FileSummary}
          \/ \E v \in Verdicts : e = EvClosed(v)
      BY <1>1, <3>1 DEF FlowInv, WritesInv
    <3>. QED
      BY <3>2 DEF EvBegin, EvInstruction, EvMismatch, FileSummary, EvClosed
  <2>3. journal'.judge # "none" => Complete(journal')
    BY <1>1, <2>2, UnjudgedFold DEF JudgedInv
  <2>. QED
    BY <1>1, <1>5, <2>1, <2>3 DEF JudgedInv
<1>. QED
  BY <1>4, <1>5

\* What a step leaves to be briefed.
JudgedStep ==
    /\ at' \in {"judge", "regate"} => Complete(journal)
    /\ at' \in AtWave => \/ DispatchPends(writes', cur'.todo, cur'.replay)
                         \/ BriefsFollow(journal, writes', cur'.todo, cur'.replay)
    /\ at' = "replay_gates" => cur'.todo = {}

\* The last line of a worker's commit is its brief.
LEMMA CommitsBrief ==
    ASSUME NEW s \in Seq(QuietEvents), NEW i \in Ids, NEW gate \in GateStates \cup {NoGate},
           NEW j \in JournalStates
    PROVE  Briefed(j, s \o <<EvBrief(i, gate)>>, i)
<1>. DEFINE b == EvBrief(i, gate)
            t == <<b>>
<1>1. b \in QuietEvents /\ b.kind = "brief" /\ b.id = i
  BY QuietConstructors DEF EvBrief
<1>. HIDE DEF b
<1>2. t \in Seq(QuietEvents) /\ Len(t) = 1 /\ t[1] = b
  BY <1>1, WriteSeqs
<1>. HIDE DEF t
<1>3. /\ Len(s \o t) = Len(s) + 1 /\ (s \o t)[Len(s) + 1] = b
      /\ Len(s) + 1 \in 1 .. Len(s) + 1
  BY SMTT(40), <1>2, ConcatProperties
<1>4. Briefed(j, s \o t, i)
  BY <1>1, <1>3 DEF Briefed
<1>. QED
  BY <1>4 DEF t, b

\* One more assignment of the step has its brief.
LEMMA FollowsOn ==
    ASSUME FlowInv, JudgedInv, Ready, at \in AtWave, NEW i \in Ids,
           writes' \in Seq(QuietEvents), Briefed(journal, writes', i),
           \/ cur'.todo = cur.todo \ {i} /\ cur'.replay = cur.replay
           \/ cur'.todo = cur.todo /\ cur'.replay = cur.replay \ {i}
    PROVE  BriefsFollow(journal, writes', cur'.todo, cur'.replay)
<1>1. BriefsFollow(journal, writes, cur.todo, cur.replay) /\ writes = <<>>
  <2>1. writes = <<>>
    BY DEF Ready
  <2>2. ~DispatchPends(<<>>, cur.todo, cur.replay)
    BY DEF DispatchPends
  <2>. QED
    BY <2>1, <2>2 DEF JudgedInv
<1>2. ASSUME NEW k \in (journal.run \ cur.todo) \cup (journal.replay \ cur.replay)
      PROVE  Briefed(journal, writes', k)
  BY <1>1 DEF BriefsFollow, Briefed
<1>. QED
  BY <1>2 DEF BriefsFollow

LEMMA WaveIsBriefed ==
    ASSUME FlowInv, NoWorkYet, JudgedInv, WaveSteps
    PROVE  JudgedStep
<1>. USE DEF Goto
<1>0. /\ lab \in LabStates /\ cur \in StepStates /\ journal \in JournalStates
      /\ StateTypes
  BY DEF FlowInv, TypeOK, StateTypes
<1>1. writes' \in Seq(QuietEvents) /\ Ready /\ at \in AtWave
  <2>1. RunSteps
    BY DEF RunSteps
  <2>. QED
    BY <1>0, <2>1, WaveIsQuiet, RunStepsAreReady
    DEF QuietStep, CommitsDispatch, CommitsDecision, AtWave
<1>2. ASSUME NEW i \in Ids, NEW o \in WorkerOutcomes, NEW prints \in BOOLEAN,
             WorkerReturns(i, o, prints)
      PROVE  JudgedStep
  <2>. DEFINE good == o.done /\ o.gate \in GoodGates
              s == LedgerWrites(lab, i, good, prints)
                     \o (IF o.gate = NoGate THEN <<>> ELSE GateWrites(lab, i, o.gate))
  <2>1. o.gate \in GateStates \cup {NoGate}
    BY ResultsAreGates DEF WorkerOutcomes
  <2>2. s \in Seq(QuietEvents)
    <3>1. LedgerWrites(lab, i, good, prints) \in Seq(QuietEvents)
      BY QuietConstructors, WriteSeqs DEF LedgerWrites
    <3>2. (IF o.gate = NoGate THEN <<>> ELSE GateWrites(lab, i, o.gate)) \in Seq(QuietEvents)
      BY <1>0, <2>1, QuietLines
    <3>. QED
      BY <3>1, <3>2, WriteSeqs
  <2>3. at' = "wave" /\ writes' = s \o <<EvBrief(i, o.gate)>>
    BY <1>2 DEF WorkerReturns, CommitWrites
  <2>4. cur'.todo = cur.todo \ {i} /\ cur'.replay = cur.replay
    BY <1>0, <1>2 DEF WorkerReturns, StepStates
  <2>. HIDE DEF good, s
  <2>5. Briefed(journal, writes', i)
    BY <1>0, <2>1, <2>2, <2>3, CommitsBrief
  <2>6. BriefsFollow(journal, writes', cur'.todo, cur'.replay)
    BY <1>1, <2>4, <2>5, FollowsOn
  <2>. QED
    BY <2>3, <2>6 DEF JudgedStep
<1>3. ASSUME NEW i \in Ids, Blocks(i)
      PROVE  JudgedStep
  <2>. DEFINE s == LedgerWrites(lab, i, FALSE, FALSE) \o <<>>
  <2>2. s \in Seq(QuietEvents)
    BY QuietConstructors, WriteSeqs DEF LedgerWrites
  <2>3. at' = "blocking" /\ writes' = s \o <<EvBrief(i, NoGate)>>
    BY <1>3 DEF Blocks, CommitWrites
  <2>4. cur'.todo = cur.todo \ {i} /\ cur'.replay = cur.replay
    BY <1>0, <1>3 DEF Blocks, StepStates
  <2>. HIDE DEF s
  <2>5. Briefed(journal, writes', i)
    BY <1>0, <2>2, <2>3, CommitsBrief
  <2>6. BriefsFollow(journal, writes', cur'.todo, cur'.replay)
    BY <1>1, <2>4, <2>5, FollowsOn
  <2>. QED
    BY <2>3, <2>6 DEF JudgedStep
<1>. /\ writes = <<>> /\ BriefsFollow(journal, writes, cur.todo, cur.replay)
  <2>1. writes = <<>>
    BY <1>1 DEF Ready
  <2>2. ~DispatchPends(<<>>, cur.todo, cur.replay)
    BY DEF DispatchPends
  <2>. QED
    BY <1>1, <2>1, <2>2 DEF JudgedInv
<1>4. CASE WaveEnds
  <2>1. CASE "sandbox" \in cur.flags
    BY <1>4, <2>1 DEF WaveEnds, JudgedStep, AtWave
  <2>2. CASE "sandbox" \notin cur.flags
    <3>1. /\ at' \in {"takeover", "replay_gates"} /\ writes' = <<>> /\ cur.todo = {}
          /\ cur' = [cur EXCEPT !.specInvalid = "spec_invalid" \in cur.flags, !.write = FALSE]
      BY <1>4, <2>2 DEF WaveEnds, AllBriefs
    <3>2. cur'.todo = {} /\ cur'.replay = cur.replay
      BY <1>0, <3>1 DEF StepStates
    <3>. QED
      BY <3>1, <3>2 DEF JudgedStep
  <2>. QED
    BY <2>1, <2>2
<1>5. ASSUME NEW i \in Ids, NEW gate \in GateStates, ReplayReturns(i, gate)
      PROVE  JudgedStep
  <2>3. /\ at = "replay_gates" /\ at' = "replay_gates"
        /\ writes' = GateWrites(lab, i, gate) \o <<EvBrief(i, gate)>>
    BY <1>5 DEF ReplayReturns
  <2>4. cur'.todo = cur.todo /\ cur'.replay = cur.replay \ {i}
    BY <1>0, <1>5 DEF ReplayReturns, StepStates
  <2>5. Briefed(journal, writes', i)
    BY <1>0, <2>3, CommitsBrief, QuietLines
  <2>6. BriefsFollow(journal, writes', cur'.todo, cur'.replay)
    BY <1>1, <2>4, <2>5, FollowsOn
  <2>. QED
    BY <2>3, <2>4, <2>6 DEF JudgedStep, JudgedInv
<1>6. ASSUME NEW i \in Ids, ReplayLosesSandbox(i)
      PROVE  JudgedStep
  BY <1>6 DEF ReplayLosesSandbox, JudgedStep, AtWave
<1>7. CASE ReplayEnds
  <2>1. /\ at = "replay_gates" /\ at' = "judge" /\ cur.replay = {} /\ cur.todo = {}
    BY <1>7 DEF ReplayEnds, JudgedInv
  <2>2. \A i \in journal.run \cup journal.replay : Briefed(journal, <<>>, i)
    BY <2>1 DEF BriefsFollow
  <2>3. Complete(journal)
    BY <2>2 DEF Briefed, Complete
  <2>. QED
    BY <2>1, <2>3 DEF JudgedStep, AtWave
<1>. QED
  BY <1>2, <1>3, <1>4, <1>5, <1>6, <1>7, ResultsAreGates DEF WaveSteps

LEMMA OthersAreBriefed ==
    ASSUME FlowInv, JudgedInv, AdvanceSteps \/ DispatchSteps \/ JudgeSteps
    PROVE  JudgedStep
<1>. USE DEF Goto
<1>0. /\ lab \in LabStates /\ cur \in StepStates /\ journal \in JournalStates
  BY DEF FlowInv, TypeOK
<1>1. CASE AdvanceStarts \/ AdvanceEnds \/ StepDrivesDispatch \/ StepResumesDecision
  BY <1>1 DEF AdvanceStarts, AdvanceEnds, StepDrivesDispatch, StepResumesDecision,
              JudgedStep, AtWave
<1>2. CASE StepResumesWork
  <2>. DEFINE todo == Missing(journal.run, journal.briefs)
  <2>1. /\ at' = WhereWave(todo) /\ writes' = <<>>
        /\ cur'.todo = todo /\ cur'.replay = Missing(journal.replay, journal.briefs)
    BY <1>2 DEF StepResumesWork, Wave, NoStep
  <2>2. BriefsFollow(journal, writes', cur'.todo, cur'.replay)
    BY <2>1, WriteSeqs DEF BriefsFollow, Briefed, Missing
  <2>3. /\ at' \in {"wave", "replay_gates"}
        /\ at' = "replay_gates" => cur'.todo = {}
    BY <2>1 DEF WhereWave
  <2>. QED
    BY <2>2, <2>3 DEF JudgedStep
<1>3. CASE DispatchHalts \/ DispatchLosesSandbox \/ DispatchEmpty \/ DispatchRefused
  BY <1>3 DEF DispatchHalts, DispatchLosesSandbox, DispatchEmpty, DispatchRefused,
              JudgedStep, AtWave
<1>4. ASSUME NEW asg \in SUBSET Ids, DispatchSubmits(asg)
      PROVE  JudgedStep
  <2>. DEFINE run == RunOf(asg, lab.resumable, lab.executed, lab.gates, lab.tries)
              replay == ReplayedOf(asg, lab.resumable, lab.executed, lab.gates, lab.tries)
              executed == lab.executed \cup (asg \ lab.resumable)
              more == lab.step + 1
  <2>1. /\ run \in SUBSET Ids /\ replay \in SUBSET Ids /\ executed \in SUBSET Ids
        /\ more \in Nat
    BY <1>0 DEF RunOf, ReplayedOf, LabStates
  <2>2. \/ at' = "step_end"
        \/ /\ cur' = Wave([NoStep EXCEPT !.asg = asg, !.replay = replay], run)
           /\ at' = WhereWave(run)
           /\ writes' = <<EvDispatch(more, asg, run, replay), EvExecuted(executed)>>
    BY <1>4 DEF DispatchSubmits, DispatchWrites
  <2>. HIDE DEF run, replay, executed, more
  <2>3. CASE at' = "step_end"
    BY <2>3 DEF JudgedStep, AtWave
  <2>4. CASE at' # "step_end"
    <3>1. cur'.todo = run /\ cur'.replay = replay
      BY <2>2, <2>4 DEF Wave, NoStep
    <3>2. DispatchPends(writes', cur'.todo, cur'.replay)
      BY <2>1, <2>2, <2>4, <3>1 DEF DispatchPends
    <3>3. /\ at' \in {"wave", "replay_gates"}
          /\ at' = "replay_gates" => cur'.todo = {}
      BY <2>2, <2>4, <3>1 DEF WhereWave
    <3>. QED
      BY <3>2, <3>3 DEF JudgedStep
  <2>. QED
    BY <2>3, <2>4
<1>5. CASE JudgeSteps
  <2>1. at \in {"judge", "regate"} /\ at' \in {"regate", "apply", "step_end"}
    BY <1>5 DEF JudgeSteps, JudgeHalts, JudgeLosesSandbox, JudgeSubmits, RegateReturns,
                RegateLosesSandbox, RegateEnds
  <2>. QED
    BY <2>1 DEF JudgedStep, JudgedInv, AtWave
<1>. QED
  BY <1>1, <1>2, <1>3, <1>4, <1>5 DEF AdvanceSteps, DispatchSteps

LEMMA UnjudgedSeqs ==
    /\ Seq(QuietEvents) \subseteq Seq(UnjudgedEvents)
    /\ <<>> \in Seq(UnjudgedEvents)
    /\ CommitsDispatch => writes' \in Seq(UnjudgedEvents)
<1>1. QuietEvents \subseteq UnjudgedEvents
  BY DEF QuietEvents, PlainEvents, UnjudgedEvents
<1>2. ASSUME CommitsDispatch
      PROVE  writes' \in Seq(UnjudgedEvents)
  <2>1. PICK n \in Nat, asg, run, replay, executed \in SUBSET Ids :
               writes' = <<EvDispatch(n, asg, run, replay), EvExecuted(executed)>>
    BY <1>2 DEF CommitsDispatch
  <2>2. EvDispatch(n, asg, run, replay) \in UnjudgedEvents /\ EvExecuted(executed) \in UnjudgedEvents
    BY InnerConstructors DEF UnjudgedEvents, EvDispatch, EvExecuted
  <2>. QED
    BY <2>1, <2>2, WriteSeqs
<1>. QED
  BY <1>1, <1>2, WriteSeqs

\* A quiet step that goes nowhere near the judge or a wave.
LEMMA AwayIsJudged ==
    ASSUME JudgedInv, UNCHANGED journal, at' \notin {"judge", "regate"}, at' \notin AtWave,
           at' \in Middle => writes' \in Seq(UnjudgedEvents)
    PROVE  JudgedInv'
<1>1. at' # "replay_gates"
  BY DEF AtWave
<1>. QED
  BY <1>1 DEF JudgedInv, AtWave

LEMMA HandoversJudgeNothing ==
    ASSUME StateTypes, Handovers
    PROVE  at' \in Middle => writes' \in Seq(UnjudgedEvents)
<1>1. /\ EvSpec \in UnjudgedEvents /\ FileSpec \in UnjudgedEvents
      /\ EvStage("advance", lab.step) \in UnjudgedEvents /\ EvSummary \in UnjudgedEvents
  BY InnerConstructors DEF UnjudgedEvents, EvSpec, FileSpec, EvStage, EvSummary,
     StateTypes, LabStates
<1>2. CASE SpecReused \/ SpecSubmits \/ ReviseSubmits
  <2>1. \/ writes' = <<FileSpec>>
        \/ writes' = <<EvSpec, FileSpec>>
        \/ writes' = <<FileSpec, EvStage("advance", lab.step)>>
        \/ writes' = <<EvSpec, FileSpec, EvStage("advance", lab.step)>>
    BY <1>2 DEF SpecReused, SpecSubmits, ReviseSubmits, Goto
  <2>. QED
    BY <1>1, <2>1, WriteSeqs
<1>3. CASE SummarySubmits
  <2>1. writes' = <<EvSummary>>
    BY <1>3 DEF SummarySubmits, Goto
  <2>. QED
    BY <1>1, <2>1, WriteSeqs
<1>4. CASE WriteSummary \/ CloseSession
  BY <1>4 DEF WriteSummary, CloseSession, Goto, Middle
<1>. QED
  BY <1>2, <1>3, <1>4 DEF Handovers

LEMMA HandoversAreJudged ==
    ASSUME StateTypes, JudgedInv, Handovers
    PROVE  JudgedInv'
<1>1. /\ at' \in {"advance", "step_end", "write_summary", "close", "leave"}
      /\ UNCHANGED journal
  BY HandoversRun
<1>. QED
  BY <1>1, HandoversJudgeNothing, AwayIsJudged DEF AtWave

LEMMA WorkIsJudged ==
    ASSUME FlowInv, NoWorkYet, JudgedInv, WorkSteps
    PROVE  JudgedInv'
<1>1. StateTypes /\ RegateDecides
  BY DEF FlowInv, TypeOK, StateTypes
<1>2. UNCHANGED journal
  <2>1. RunSteps
    BY DEF WorkSteps, RunSteps
  <2>. QED
    BY <2>1, RunStepsAreReady
<1>3. CASE ApplySteps /\ ~ReviseSubmits
  <2>1. /\ at' \in {"takeover", "revise_spec", "step_end", "step", "wrap_up"}
        /\ writes' \in Seq(QuietEvents) \/ CommitsDispatch \/ CommitsDecision
    BY <1>1, <1>3, ApplyIsQuiet DEF QuietStep
  <2>2. writes' \in Seq(UnjudgedEvents)
    BY <2>1, UnjudgedSeqs DEF CommitsDecision
  <2>. QED
    BY <1>2, <2>1, <2>2, AwayIsJudged DEF AtWave
<1>4. CASE AdvanceSteps
  <2>1. /\ writes' = <<>>
        /\ at' \in {"wrap_up", "step", "dispatch", "apply", "wave", "replay_gates"}
    BY <1>4 DEF AdvanceSteps, AdvanceStarts, AdvanceEnds, StepDrivesDispatch,
       StepResumesDecision, StepResumesWork, Goto, WhereWave
  <2>2. JudgedStep
    BY <1>4, OthersAreBriefed
  <2>. QED
    BY <1>2, <2>1, <2>2, UnjudgedSeqs DEF JudgedInv, JudgedStep
<1>5. CASE DispatchSteps \/ WaveSteps
  <2>1. JudgedStep
    BY <1>5, OthersAreBriefed, WaveIsBriefed
  <2>2. /\ writes' \in Seq(QuietEvents) \/ CommitsDispatch
        /\ at' \in {"judge", "regate"} => writes' \in Seq(QuietEvents)
    BY <1>1, <1>5, DispatchIsQuiet, WaveIsQuiet
    DEF QuietStep, CommitsDispatch, CommitsDecision
  <2>. QED
    BY <1>2, <2>1, <2>2, UnjudgedSeqs DEF JudgedInv, JudgedStep
<1>6. CASE JudgeSteps
  <2>1. JudgedStep
    BY <1>6, OthersAreBriefed
  <2>2. /\ at \in {"judge", "regate"} /\ at' \in {"regate", "apply", "step_end"}
        /\ writes' \in Seq(QuietEvents) \/ CommitsDecision
    BY <1>1, <1>6, JudgeIsQuiet DEF QuietStep, CommitsDispatch
  <2>3. Complete(journal)
    BY <2>2 DEF JudgedInv
  <2>4. /\ at' \notin AtWave /\ at' # "replay_gates"
        /\ at' \in {"judge", "regate"} => writes' \in Seq(QuietEvents)
    BY <2>2 DEF AtWave, CommitsDecision
  <2>. QED
    BY <1>2, <2>2, <2>3, <2>4, UnjudgedSeqs DEF JudgedInv, CommitsDecision
<1>. QED
  BY <1>3, <1>4, <1>5, <1>6 DEF WorkSteps

LEMMA JudgedNext ==
    ASSUME FlowInv, NoWorkYet, JudgedInv, [Next]_vars
    PROVE  JudgedInv'
<1>1. StateTypes /\ RegateDecides
  BY DEF FlowInv, TypeOK, StateTypes
<1>2. CASE Persist
  BY <1>2, JudgedPersists
<1>3. CASE EnterLab
  <2>1. at' \in {"remember", "wrap_up"} /\ writes' = <<>> /\ UNCHANGED journal
    BY <1>3 DEF EnterLab, Goto
  <2>. QED
    BY <2>1, UnjudgedSeqs, AwayIsJudged DEF AtWave
<1>4. CASE RunSteps
  <2>1. UNCHANGED journal
    BY <1>4, RunStepsAreReady
  <2>2. CASE EarlySteps \/ LateSteps
    <3>1. /\ at' \in {"remember_judge", "write_spec", "spec", "wrap_up", "summarize",
                      "summary", "write_summary", "pause"}
          /\ writes' \in Seq(QuietEvents)
      BY <1>1, <2>2, EarlyIsQuiet, LateIsQuiet DEF QuietStep, CommitsDispatch, CommitsDecision
    <3>. QED
      BY <2>1, <3>1, UnjudgedSeqs, AwayIsJudged DEF AtWave
  <2>3. CASE WorkSteps
    BY <2>3, WorkIsJudged
  <2>4. CASE Handovers
    BY <1>1, <2>4, HandoversAreJudged
  <2>. QED
    BY <1>4, <2>2, <2>3, <2>4, RunStepsByPlace
<1>5. CASE at' \in {"off", "opening", "replayed"} /\ UNCHANGED journal
  BY <1>5, AwayIsJudged DEF AtWave, Middle
<1>6. CASE UNCHANGED <<journal, writes, files, at, lab, cur>>
  BY <1>6 DEF JudgedInv
<1>. QED
  BY <1>2, <1>3, <1>4, <1>5, <1>6, KindsOfSteps

\* For every set of assignments and all limits: wherever the process dies, a decision
\* that is in the journal was taken over a step whose briefs are all there.
THEOREM JudgedStepsAreComplete == Spec => []JudgedStepIsComplete
<1>1. Init => NoWorkYet /\ JudgedInv
  BY DEF Init, EmptyJournal, NoWorkYet, JudgedInv, AtWork, AtWave, Middle
<1>2. FlowInv /\ NoWorkYet /\ JudgedInv /\ [Next]_vars => NoWorkYet' /\ JudgedInv'
  BY NoWorkStep, JudgedNext
<1>3. JudgedInv => JudgedStepIsComplete
  BY DEF JudgedInv, JudgedStepIsComplete, Complete
<1>. QED
  BY <1>1, <1>2, <1>3, InvHolds, PTL DEF Spec
-----------------------------------------------------------------------------
(* A brief is committed once *)

\* The assignments without a brief in the step.
Unbriefed(j) == {i \in Ids : j.briefs[i] = NoBrief}

\* The assignments that are to get one.
Unfinished == IF at \in AtWave THEN cur.todo \cup cur.replay ELSE {}

\* Lines that dispatch and brief nothing; a stage line is about step n.
StepLines(n) ==
    {e \in InnerEvents : e.kind \notin {"dispatch", "brief"} /\ (e.kind = "stage" => e.step = n)}

\* Such lines with at most one brief among them, for one of S.
OneBrief(ws, S, n) ==
    /\ \A k \in 1 .. Len(ws) :
          /\ ws[k].kind # "dispatch"
          /\ ws[k].kind = "stage" => ws[k].step = n
          /\ ws[k].kind = "brief" => ws[k].id \in S
    /\ \A k, m \in 1 .. Len(ws) : ws[k].kind = "brief" /\ ws[m].kind = "brief" => k = m

\* The commit of a new dispatch is pending.
NewDispatch ==
    /\ \E asg, executed \in SUBSET Ids :
          writes = <<EvDispatch(lab.step + 1, asg, cur.todo, cur.replay), EvExecuted(executed)>>
    /\ lab.step = journal.step /\ journal.dispatched # lab.step + 1

\* A step has one dispatch: its number is that of the step after the completed
\* ones, and where it was dispatched by an earlier run, pending says so.
OnceInv ==
    /\ journal.dispatched <= journal.step + 1
    /\ journal.run \cap journal.replay = {}
    /\ Running => journal.step <= lab.step
    /\ at \in Middle => \/ at \in AtWave /\ NewDispatch
                        \/ /\ OneBrief(writes, Unbriefed(journal) \ Unfinished, lab.step)
                           /\ Unfinished \subseteq Unbriefed(journal)
    /\ at \in AtWave => cur.todo \cap cur.replay = {}
    /\ at = "step" /\ journal.dispatched = lab.step + 1 => lab.pending = lab.step + 1
    /\ at = "dispatch" => journal.dispatched # lab.step + 1

LEMMA StepLineConstructors ==
    ASSUME NEW n \in Nat
    PROVE  /\ EvSpec \in StepLines(n) /\ EvSummary \in StepLines(n)
           /\ EvHalt \in StepLines(n) /\ EvDown \in StepLines(n)
           /\ FileApplied \in StepLines(n) /\ FileSpec \in StepLines(n)
           /\ \A s \in Stages : EvStage(s, n) \in StepLines(n)
           /\ \A S \in SUBSET Ids : EvExecuted(S) \in StepLines(n)
           /\ \A i \in Ids, g \in GateStates, t \in Nat : EvGate(i, g, t) \in StepLines(n)
           /\ \A g \in GateStates : EvRunGate(g) \in StepLines(n)
           /\ \A d \in Decisions : EvJudge(d) \in StepLines(n)
           /\ \A i \in Ids : EvRecord(i) \in StepLines(n) /\ EvDrop(i) \in StepLines(n)
BY InnerConstructors
DEF StepLines, EvSpec, EvSummary, EvHalt, EvDown, FileApplied, FileSpec, EvStage, EvExecuted,
    EvGate, EvRunGate, EvJudge, EvRecord, EvDrop

\* What the commits and the loss of the sandbox leave of LabState.
LEMMA DownedKeeps ==
    ASSUME NEW l \in LabStates
    PROVE  /\ DownWrites(l) \in Seq(StepLines(l.step))
           /\ Downed(l).step = l.step /\ Downed(l).resume = l.resume
           /\ Downed(l).resumable = l.resumable /\ Downed(l).pending = l.pending
           /\ Downed(l).executed = l.executed /\ Downed(l).gates = l.gates
<1>1. l.step \in Nat /\ EvStage("summary", l.step) \in StepLines(l.step)
  BY StepLineConstructors DEF LabStates
<1>2. DownWrites(l) \in Seq(StepLines(l.step))
  BY <1>1, StepLineConstructors, WriteSeqs DEF DownWrites
<1>3. /\ Downed(l).step = l.step /\ Downed(l).resume = l.resume
      /\ Downed(l).resumable = l.resumable /\ Downed(l).pending = l.pending
      /\ Downed(l).executed = l.executed /\ Downed(l).gates = l.gates
  BY DEF Downed, LabStates
<1>. QED
  BY <1>2, <1>3

LEMMA RecordedLines ==
    ASSUME NEW l \in LabStates, NEW i \in Ids, NEW g \in GateStates
    PROVE  GateWrites(l, i, g) \in Seq(StepLines(l.step)) /\ Recorded(l, i, g).step = l.step
<1>1. Recorded(l, i, g) \in LabStates
  BY RecordedType
<1>2. Recorded(l, i, g).tries[i] \in Nat /\ l.step \in Nat
  BY <1>1 DEF LabStates
<1>3. GateWrites(l, i, g) \in Seq(StepLines(l.step))
  BY <1>2, StepLineConstructors, WriteSeqs DEF GateWrites
<1>. QED
  BY <1>3 DEF Recorded, LabStates

\* Such lines and then the brief of i.
EndsInBrief(ws, n, i, g) == \E s \in Seq(StepLines(n)) : ws = s \o <<EvBrief(i, g)>>

LEMMA CommitLinesOnce ==
    ASSUME NEW l \in LabStates, NEW i \in Ids, NEW g \in GateStates \cup {NoGate},
           NEW good \in BOOLEAN, NEW prints \in BOOLEAN
    PROVE  /\ Committed(l, i, good, prints, g).step = l.step
           /\ EndsInBrief(CommitWrites(l, i, good, prints, g), l.step, i, g)
<1>. DEFINE k == Ledgered(l, i, good, prints)
            s == LedgerWrites(l, i, good, prints)
                   \o (IF g = NoGate THEN <<>> ELSE GateWrites(l, i, g))
<1>1. k \in LabStates /\ k.step = l.step
  BY DEF Ledgered, LabStates
<1>2. LedgerWrites(l, i, good, prints) \in Seq(StepLines(l.step))
  BY StepLineConstructors, WriteSeqs DEF LedgerWrites, LabStates
<1>3. (IF g = NoGate THEN <<>> ELSE GateWrites(l, i, g)) \in Seq(StepLines(l.step))
  BY RecordedLines, WriteSeqs
<1>4. s \in Seq(StepLines(l.step))
  BY <1>2, <1>3, WriteSeqs
<1>5. CommitWrites(l, i, good, prints, g) = s \o <<EvBrief(i, g)>>
  BY DEF CommitWrites
<1>6. Committed(l, i, good, prints, g) = IF g = NoGate THEN k ELSE Recorded(k, i, g)
  BY DEF Committed
<1>. HIDE DEF k, s
<1>7. Committed(l, i, good, prints, g).step = l.step
  <2>1. CASE g = NoGate
    BY <1>1, <1>6, <2>1
  <2>2. CASE g # NoGate
    <3>1. g \in GateStates
      BY <2>2
    <3>2. Recorded(k, i, g).step = k.step
      BY <1>1, <3>1, RecordedLines
    <3>. QED
      BY <1>1, <1>6, <2>2, <3>2
  <2>. QED
    BY <2>1, <2>2
<1>. QED
  BY <1>4, <1>5, <1>7 DEF EndsInBrief

\* Lines of a step brief nothing.
LEMMA LinesBriefNothing ==
    ASSUME NEW n, NEW ws \in Seq(StepLines(n)), NEW S
    PROVE  OneBrief(ws, S, n)
<1>1. \A k \in 1 .. Len(ws) : ws[k] \in StepLines(n)
  OBVIOUS
<1>. QED
  BY <1>1 DEF OneBrief, StepLines

\* A brief after such lines, and perhaps before others.
LEMMA OneBriefInside ==
    ASSUME NEW n, NEW s \in Seq(StepLines(n)), NEW t \in Seq(StepLines(n)),
           NEW i, NEW g, NEW S, i \in S
    PROVE  /\ OneBrief(s \o <<EvBrief(i, g)>>, S, n)
           /\ OneBrief((s \o <<EvBrief(i, g)>>) \o t, S, n)
<1>. DEFINE b == EvBrief(i, g)
            E == StepLines(n) \cup {b}
            u == s \o <<b>>
            v == u \o t
<1>1. b.kind = "brief" /\ b.id = i
  BY DEF EvBrief
<1>2. \A e \in StepLines(n) : /\ e.kind \notin {"dispatch", "brief"}
                              /\ e.kind = "stage" => e.step = n
  BY DEF StepLines
<1>. HIDE DEF b
<1>3. s \in Seq(E) /\ t \in Seq(E) /\ <<b>> \in Seq(E) /\ Len(<<b>>) = 1 /\ <<b>>[1] = b
  OBVIOUS
<1>4. u \in Seq(E) /\ Len(u) = Len(s) + 1
      /\ \A k \in 1 .. Len(u) : IF k <= Len(s) THEN u[k] = s[k] ELSE k = Len(s) + 1 /\ u[k] = b
  <2>1. /\ Len(u) = Len(s) + 1 /\ u \in Seq(E)
        /\ \A k \in 1 .. Len(u) : u[k] = IF k <= Len(s) THEN s[k] ELSE <<b>>[k - Len(s)]
    BY <1>3, ConcatProperties
  <2>2. \A k \in 1 .. Len(u) : k <= Len(s) \/ (k = Len(s) + 1 /\ k - Len(s) = 1)
    BY <2>1
  <2>. QED
    BY <1>3, <2>1, <2>2
<1>5. \A k \in 1 .. Len(u) : (k <= Len(s) /\ u[k] \in StepLines(n)) \/ (k = Len(s) + 1 /\ u[k] = b)
  BY <1>4
<1>6. OneBrief(u, S, n)
  BY <1>1, <1>2, <1>4, <1>5 DEF OneBrief
<1>. HIDE DEF u
<1>7. /\ Len(v) = Len(u) + Len(t)
      /\ \A k \in 1 .. Len(v) : v[k] = IF k <= Len(u) THEN u[k] ELSE t[k - Len(u)]
  <2>1. u \in Seq(E) /\ t \in Seq(E)
    BY <1>3, <1>4
  <2>. HIDE DEF E
  <2>2. /\ Len(u \o t) = Len(u) + Len(t)
        /\ \A k \in 1 .. Len(u) + Len(t) :
              (u \o t)[k] = IF k <= Len(u) THEN u[k] ELSE t[k - Len(u)]
    BY ONLY <2>1, ConcatProperties
  <2>. QED
    BY <2>2
<1>8. \A k \in 1 .. Len(v) : (k # Len(s) + 1 /\ v[k] \in StepLines(n))
                              \/ (k = Len(s) + 1 /\ v[k] = b)
  <2>. SUFFICES ASSUME NEW k \in 1 .. Len(v)
                PROVE  (k # Len(s) + 1 /\ v[k] \in StepLines(n)) \/ (k = Len(s) + 1 /\ v[k] = b)
    OBVIOUS
  <2>1. CASE k <= Len(u)
    BY <1>4, <1>5, <1>7, <2>1
  <2>2. CASE k > Len(u)
    <3>1. k - Len(u) \in 1 .. Len(t)
      BY <1>4, <1>7, <2>2
    <3>. QED
      BY <1>4, <1>7, <2>2, <3>1
  <2>. QED
    BY <1>4, <2>1, <2>2
<1>9. OneBrief(v, S, n)
  <2>. HIDE DEF v
  <2>. QED
    BY <1>1, <1>2, <1>8 DEF OneBrief
<1>. QED
  BY <1>6, <1>9 DEF u, b

\* What a line that dispatches nothing changes of a step.
LEMMA StepLineFold ==
    ASSUME NEW j \in JournalStates, NEW e \in InnerEvents, e.kind # "dispatch"
    PROVE  LET k == Fold(j, e)
           IN  /\ k.plan = j.plan /\ k.dispatched = j.dispatched
               /\ k.run = j.run /\ k.replay = j.replay /\ k.asg = j.asg
               /\ k.step = IF e.kind = "stage" THEN e.step ELSE j.step
               /\ k.briefs = IF e.kind = "brief" THEN [j.briefs EXCEPT ![e.id] = e.gate]
                             ELSE j.briefs
               /\ k.gates = IF e.kind = "gate" THEN [j.gates EXCEPT ![e.id] = e.state]
                            ELSE j.gates
               /\ e.kind # "gate" => k.tries = j.tries
               /\ k.judge = IF e.kind = "judge" THEN e.decision ELSE j.judge
<1>1. e.kind \notin {"begin", "user_instruction", "artifact_mismatch", "session_closed"}
  BY DEF InnerEvents
<1>. QED
  BY ZenonT(60), <1>1 DEF Fold, FoldGate, JournalStates

LEMMA DispatchFold ==
    ASSUME NEW j \in JournalStates, NEW n \in Nat, NEW asg, NEW run, NEW again
    PROVE  LET k == Fold(j, EvDispatch(n, asg, run, again))
           IN  /\ k.dispatched = n /\ k.run = run /\ k.replay = again /\ k.asg = asg
               /\ k.step = j.step /\ k.judge = "none"
               /\ k.gates = j.gates /\ k.tries = j.tries
               /\ Unbriefed(k) = Ids
BY DEF Fold, FoldDispatch, EvDispatch, JournalStates, Unbriefed

LEMMA NewPlanFold ==
    ASSUME NEW j \in JournalStates, NEW e, e \in {EvInstruction, EvMismatch}
    PROVE  LET k == Fold(j, e)
           IN  /\ k.plan = j.plan + 1 /\ k.dispatched = 0 /\ k.step = 0
               /\ k.run = {} /\ k.replay = {} /\ k.judge = "none"
               /\ k.gates = [i \in Ids |-> NoGate]
<1>1. Fold(j, e) = NewPlan(j)
  BY DEF Fold, EvInstruction, EvMismatch
<1>. QED
  BY <1>1 DEF NewPlan, EmptyJournal

\* The lines around a run leave its steps alone.
LEMMA SessionLineFold ==
    ASSUME NEW j \in JournalStates, NEW e,
           e \in {EvBegin, FileSummary} \/ \E v \in Verdicts : e = EvClosed(v)
    PROVE  LET k == Fold(j, e)
           IN  /\ k.plan = j.plan /\ k.dispatched = j.dispatched /\ k.step = j.step
               /\ k.run = j.run /\ k.replay = j.replay /\ k.judge = j.judge
               /\ k.briefs = j.briefs /\ k.gates = j.gates /\ k.tries = j.tries
<1>1. CASE e = EvBegin
  BY <1>1 DEF Fold, EvBegin, JournalStates
<1>2. CASE e = FileSummary
  BY <1>2 DEF Fold, FileSummary, JournalStates
<1>3. ASSUME NEW v \in Verdicts, e = EvClosed(v)
      PROVE  Fold(j, e) = [j EXCEPT !.result = v]
  BY <1>3 DEF Fold, EvClosed
<1>. QED
  BY <1>1, <1>2, <1>3 DEF JournalStates

LEMMA OneBriefTail ==
    ASSUME NEW E, NEW ws \in Seq(E), ws # <<>>, NEW S, NEW n, OneBrief(ws, S, n)
    PROVE  /\ Head(ws).kind # "dispatch"
           /\ Head(ws).kind = "stage" => Head(ws).step = n
           /\ Head(ws).kind = "brief" => Head(ws).id \in S
           /\ OneBrief(Tail(ws), IF Head(ws).kind = "brief" THEN {} ELSE S, n)
<1>1. Len(ws) \in Nat /\ Len(ws) >= 1 /\ Head(ws) = ws[1] /\ 1 \in 1 .. Len(ws)
  OBVIOUS
<1>2. /\ Len(Tail(ws)) = Len(ws) - 1
      /\ \A k \in 1 .. Len(Tail(ws)) : k + 1 \in 1 .. Len(ws) /\ Tail(ws)[k] = ws[k + 1]
  OBVIOUS
<1>3. ASSUME Head(ws).kind = "brief", NEW k \in 1 .. Len(Tail(ws))
      PROVE  Tail(ws)[k].kind # "brief"
  <2>1. k + 1 # 1
    OBVIOUS
  <2>. QED
    BY <1>1, <1>2, <1>3, <2>1 DEF OneBrief
<1>4. ASSUME NEW k \in 1 .. Len(Tail(ws)), NEW m \in 1 .. Len(Tail(ws)),
             Tail(ws)[k].kind = "brief", Tail(ws)[m].kind = "brief"
      PROVE  k = m
  <2>1. k + 1 = m + 1
    BY <1>2, <1>4 DEF OneBrief
  <2>. QED
    BY <2>1
<1>5. OneBrief(Tail(ws), IF Head(ws).kind = "brief" THEN {} ELSE S, n)
  BY <1>2, <1>3, <1>4 DEF OneBrief
<1>. QED
  BY <1>1, <1>5 DEF OneBrief

\* A line keeps the briefs of a step that is neither dispatched anew nor of a new plan.
KeepsBriefs ==
    \A i \in Ids :
        journal.briefs[i] # NoBrief /\ journal'.plan = journal.plan
            /\ journal'.dispatched = journal.dispatched
        => journal'.briefs[i] = journal.briefs[i]

\* Within a plan a dispatch is committed at the head of its wave only.
CountsDispatch ==
    journal'.plan = journal.plan /\ journal'.dispatched # journal.dispatched
    => at \in AtWave /\ NewDispatch /\ journal'.run = cur.todo

LEMMA DispatchIsNoLine ==
    ASSUME NEW ws, NEW S, NEW n, OneBrief(ws, S, n)
    PROVE  \A m, asg, run, again, x : ws # <<EvDispatch(m, asg, run, again), x>>
<1>. SUFFICES ASSUME NEW m, NEW asg, NEW run, NEW again, NEW x,
                     ws = <<EvDispatch(m, asg, run, again), x>>
              PROVE  FALSE
  OBVIOUS
<1>. DEFINE d == EvDispatch(m, asg, run, again)
<1>1. d.kind = "dispatch"
  BY DEF EvDispatch
<1>. HIDE DEF d
<1>2. 1 \in 1 .. Len(ws) /\ ws[1] = d
  <2>1. ws = <<d, x>>
    BY DEF d
  <2>. QED
    BY <2>1
<1>. QED
  BY <1>1, <1>2 DEF OneBrief

LEMMA OncePersists ==
    ASSUME FlowInv, OnceInv, Persist
    PROVE  /\ OnceInv' /\ KeepsBriefs /\ CountsDispatch
           /\ at \in Middle => ~NewDispatch'
<1>. DEFINE e == Head(writes)
<1>1. /\ journal \in JournalStates /\ writes # <<>> /\ journal' = Fold(journal, e)
      /\ writes' = Tail(writes) /\ UNCHANGED <<at, lab, cur>> /\ e \in Events
      /\ lab \in LabStates /\ lab.step \in Nat /\ cur \in StepStates
      /\ journal.step \in Nat /\ journal.dispatched \in Nat
  BY PersistTypes DEF FlowInv, TypeOK, Persist, JournalStates, LabStates
<1>2. Unfinished' = Unfinished /\ Running' = Running /\ (at \in AtWave => at \in Middle)
  BY <1>1 DEF Unfinished, Running, AtWave, Middle, Places, Drives
<1>3. CASE at \in AtWave /\ NewDispatch
  <2>1. PICK asg \in SUBSET Ids, executed \in SUBSET Ids :
               writes = <<EvDispatch(lab.step + 1, asg, cur.todo, cur.replay), EvExecuted(executed)>>
    BY <1>3 DEF NewDispatch
  <2>. DEFINE d == EvDispatch(lab.step + 1, asg, cur.todo, cur.replay)
              x == EvExecuted(executed)
  <2>2. /\ journal'.dispatched = lab.step + 1 /\ journal'.step = journal.step
        /\ journal'.run = cur.todo /\ journal'.replay = cur.replay
        /\ Unbriefed(journal') = Ids
    <3>. DEFINE n == lab.step + 1
    <3>1. n \in Nat /\ journal' = Fold(journal, EvDispatch(n, asg, cur.todo, cur.replay))
      BY <1>1, <2>1, TwoHaveATail
    <3>. HIDE DEF n
    <3>. DEFINE k == Fold(journal, EvDispatch(n, asg, cur.todo, cur.replay))
    <3>2. /\ k.dispatched = n /\ k.step = journal.step
          /\ k.run = cur.todo /\ k.replay = cur.replay
          /\ Unbriefed(k) = Ids
      <4>1. journal \in JournalStates /\ n \in Nat
        BY <1>1, <3>1
      <4>. DEFINE run == cur.todo
                  again == cur.replay
      <4>2. k = Fold(journal, EvDispatch(n, asg, run, again))
        OBVIOUS
      <4>. HIDE DEF run, again
      <4>3. /\ Fold(journal, EvDispatch(n, asg, run, again)).dispatched = n
            /\ Fold(journal, EvDispatch(n, asg, run, again)).run = run
            /\ Fold(journal, EvDispatch(n, asg, run, again)).replay = again
            /\ Fold(journal, EvDispatch(n, asg, run, again)).step = journal.step
            /\ Unbriefed(Fold(journal, EvDispatch(n, asg, run, again))) = Ids
        BY <4>1, DispatchFold
      <4>. QED  BY <4>2, <4>3 DEF run, again
    <3>3. journal' = k
      BY <3>1
    <3>. HIDE DEF k
    <3>. QED
      BY <3>2, <3>3 DEF n
  <2>3. writes' = <<x>> /\ x \in StepLines(lab.step)
    BY <1>1, <2>1, TwoHaveATail, StepLineConstructors
  <2>4. OneBrief(writes', Unbriefed(journal') \ Unfinished, lab.step)
    BY <2>3, WriteSeqs, LinesBriefNothing
  <2>5. lab.step = journal.step /\ journal.dispatched # lab.step + 1 /\ at \notin {"step", "dispatch"}
    BY <1>3 DEF NewDispatch, AtWave
  <2>6. Unfinished \subseteq Ids
    BY <1>1 DEF Unfinished, StepStates
  <2>7. OnceInv'
    BY <1>1, <1>2, <1>3, <2>2, <2>4, <2>5, <2>6 DEF OnceInv
  <2>. QED
    BY <1>3, <2>2, <2>4, <2>5, <2>7, DispatchIsNoLine DEF KeepsBriefs, CountsDispatch, NewDispatch
<1>4. CASE at \in Middle /\ ~(at \in AtWave /\ NewDispatch)
  <2>. DEFINE S == Unbriefed(journal) \ Unfinished
  <2>1. /\ OneBrief(writes, S, lab.step) /\ Unfinished \subseteq Unbriefed(journal)
        /\ writes \in Seq(InnerEvents) /\ e \in InnerEvents
    BY <1>1, <1>4, TailType DEF OnceInv, FlowInv, WritesInv
  <2>. HIDE DEF S
  <2>2. /\ e.kind # "dispatch" /\ (e.kind = "stage" => e.step = lab.step)
        /\ e.kind = "brief" => e.id \in S
        /\ OneBrief(writes', IF e.kind = "brief" THEN {} ELSE S, lab.step)
    BY <1>1, <2>1, OneBriefTail
  <2>3. /\ journal'.plan = journal.plan /\ journal'.dispatched = journal.dispatched
        /\ journal'.run = journal.run /\ journal'.replay = journal.replay
        /\ journal'.step = IF e.kind = "stage" THEN lab.step ELSE journal.step
        /\ journal'.briefs = IF e.kind = "brief" THEN [journal.briefs EXCEPT ![e.id] = e.gate]
                             ELSE journal.briefs
    BY <1>1, <2>1, <2>2, StepLineFold
  <2>4. journal.briefs \in [Ids -> GateStates \cup {NoGate, NoBrief}]
    BY <1>1 DEF JournalStates
  <2>5. \A i \in Ids : i # e.id \/ e.kind # "brief" => journal'.briefs[i] = journal.briefs[i]
    BY <2>3, <2>4
  <2>6. /\ Unfinished \subseteq Unbriefed(journal')
        /\ OneBrief(writes', Unbriefed(journal') \ Unfinished, lab.step)
    <3>1. CASE e.kind = "brief"
      <4>1. e.id \notin Unfinished
        BY <2>2, <3>1 DEF S
      <4>. QED
        BY <2>1, <2>2, <2>5, <3>1, <4>1 DEF Unbriefed, OneBrief
    <3>2. CASE e.kind # "brief"
      <4>1. Unbriefed(journal') = Unbriefed(journal)
        BY <2>3, <3>2 DEF Unbriefed
      <4>. QED
        BY <2>1, <2>2, <3>2, <4>1 DEF S
    <3>. QED
      BY <3>1, <3>2
  <2>7. Running
    BY <1>4 DEF Running, Middle
  <2>8. journal.step <= journal'.step /\ journal'.step <= lab.step
    BY <1>1, <2>3, <2>7 DEF OnceInv
  <2>9. OnceInv'
    <3>1. journal'.dispatched <= journal'.step + 1
      BY <1>1, <2>3, <2>8 DEF OnceInv
    <3>. QED
      BY <1>1, <1>2, <2>3, <2>6, <2>8, <3>1 DEF OnceInv
  <2>10. KeepsBriefs
    <3>. SUFFICES ASSUME NEW i \in Ids, journal.briefs[i] # NoBrief
                  PROVE  journal'.briefs[i] = journal.briefs[i]
      BY DEF KeepsBriefs
    <3>1. i \notin S
      BY DEF S, Unbriefed
    <3>. QED
      BY <2>2, <2>5, <3>1
  <2>. QED
    BY <2>3, <2>6, <2>9, <2>10, DispatchIsNoLine DEF CountsDispatch, NewDispatch
<1>5. CASE at \notin Middle
  <2>1. /\ \/ e \in {EvInstruction, EvMismatch}
           \/ e \in {EvBegin, FileSummary} \/ \E v \in Verdicts : e = EvClosed(v)
        /\ Running => e \notin {EvInstruction, EvMismatch}
        /\ at \notin AtWave /\ at \notin {"step", "dispatch"}
    <3>1. at \in {"opening", "replayed", "close", "leave"}
      BY <1>1, <1>5 DEF FlowInv, TypeOK, WritesInv, Middle
    <3>2. CASE at = "opening"
      BY <1>1, <3>2 DEF FlowInv, WritesInv, Running, AtWave
    <3>3. CASE at = "replayed"
      BY <1>1, <3>3 DEF FlowInv, WritesInv, Running, AtWave
    <3>4. CASE at = "close"
      <4>1. e = FileSummary
        BY <1>1, <3>4 DEF FlowInv, WritesInv
      <4>. QED
        BY <3>4, <4>1 DEF FileSummary, EvInstruction, EvMismatch, AtWave
    <3>5. CASE at = "leave"
      <4>1. \E v \in Verdicts : e = EvClosed(v)
        BY <1>1, <3>5 DEF FlowInv, WritesInv
      <4>. QED
        BY <3>5, <4>1 DEF EvClosed, EvInstruction, EvMismatch, AtWave
    <3>. QED
      BY <3>1, <3>2, <3>3, <3>4, <3>5
  <2>2. CASE e \in {EvInstruction, EvMismatch}
    <3>1. /\ journal'.plan = journal.plan + 1 /\ journal'.dispatched = 0 /\ journal'.step = 0
          /\ journal'.run = {} /\ journal'.replay = {}
      BY <1>1, <2>2, NewPlanFold
    <3>2. journal'.plan # journal.plan
      BY <1>1, <3>1 DEF JournalStates
    <3>. QED
      BY <1>1, <1>2, <1>5, <2>1, <2>2, <3>1, <3>2 DEF OnceInv, KeepsBriefs, CountsDispatch
  <2>3. CASE e \in {EvBegin, FileSummary} \/ \E v \in Verdicts : e = EvClosed(v)
    <3>1. /\ journal'.dispatched = journal.dispatched /\ journal'.step = journal.step
          /\ journal'.run = journal.run /\ journal'.replay = journal.replay
          /\ journal'.briefs = journal.briefs
      BY <1>1, <2>3, SessionLineFold
    <3>. QED
      BY <1>1, <1>2, <1>5, <2>1, <3>1 DEF OnceInv, KeepsBriefs, CountsDispatch
  <2>. QED
    BY <2>1, <2>2, <2>3
<1>. QED
  BY <1>3, <1>4, <1>5

\* A step that dispatches and briefs nothing.
CalmStep ==
    /\ writes' \in Seq(StepLines(lab'.step))
    /\ lab'.step = lab.step

LEMMA RememberIsCalm ==
    ASSUME StateTypes, RememberSteps
    PROVE  CalmStep
<1>. USE DEF Goto, CalmStep
<1>0. /\ lab \in LabStates /\ lab.step \in Nat /\ Downed(lab) \in LabStates
      /\ Downed(lab).step = lab.step /\ DownWrites(lab) \in Seq(StepLines(lab.step))
      /\ FileApplied \in StepLines(lab.step) /\ EvHalt \in StepLines(lab.step)
      /\ \A s \in Stages : EvStage(s, lab.step) \in StepLines(lab.step)
  BY StepLineConstructors, DownedKeeps, DownedType DEF StateTypes, LabStates
<1>1. CASE RememberSkips \/ RememberDrives
  BY <1>0, <1>1, WriteSeqs DEF RememberSkips, RememberDrives
<1>2. CASE RememberSubmits
  <2>1. lab'.step = lab.step
    BY <1>0, <1>2 DEF RememberSubmits, LabStates
  <2>. QED
    BY <1>0, <1>2, <2>1, WriteSeqs DEF RememberSubmits
<1>3. CASE RememberHalts
  <2>1. lab'.step = lab.step
    BY <1>0, <1>3 DEF RememberHalts, LabStates
  <2>. QED
    BY <1>0, <1>3, <2>1, WriteSeqs DEF RememberHalts
<1>4. CASE RememberLosesSandbox
  <2>1. lab'.step = lab.step
    BY <1>0, <1>4 DEF RememberLosesSandbox, LabStates
  <2>2. <<FileApplied, EvStage("spec", lab.step)>> \in Seq(StepLines(lab.step))
    BY <1>0, WriteSeqs
  <2>. QED
    BY <1>0, <1>4, <2>1, <2>2, WriteSeqs DEF RememberLosesSandbox
<1>. QED
  BY <1>1, <1>2, <1>3, <1>4 DEF RememberSteps

LEMMA SpecIsCalm ==
    ASSUME StateTypes, SpecSteps
    PROVE  CalmStep
<1>. USE DEF Goto, CalmStep
<1>0. /\ lab \in LabStates /\ lab.step \in Nat /\ Downed(lab) \in LabStates
      /\ Downed(lab).step = lab.step /\ DownWrites(lab) \in Seq(StepLines(lab.step))
      /\ FileSpec \in StepLines(lab.step) /\ EvSpec \in StepLines(lab.step)
      /\ EvHalt \in StepLines(lab.step)
      /\ \A s \in Stages : EvStage(s, lab.step) \in StepLines(lab.step)
  BY StepLineConstructors, DownedKeeps, DownedType DEF StateTypes, LabStates
<1>1. CASE SpecSkips \/ SpecDrives
  BY <1>0, <1>1, WriteSeqs DEF SpecSkips, SpecDrives
<1>2. CASE SpecReused
  <2>1. lab'.step = lab.step
    BY <1>0, <1>2 DEF SpecReused, LabStates
  <2>2. writes' = <<FileSpec>> \/ writes' = <<FileSpec, EvStage("advance", lab.step)>>
    BY <1>2 DEF SpecReused
  <2>. QED
    BY <1>0, <2>1, <2>2, WriteSeqs
<1>3. CASE SpecSubmits
  <2>1. lab'.step = lab.step
    BY <1>0, <1>3 DEF SpecSubmits, LabStates
  <2>. QED
    BY <1>0, <1>3, <2>1, WriteSeqs DEF SpecSubmits
<1>4. CASE SpecHalts
  <2>1. lab'.step = lab.step
    BY <1>0, <1>4 DEF SpecHalts, LabStates
  <2>. QED
    BY <1>0, <1>4, <2>1, WriteSeqs DEF SpecHalts
<1>5. CASE SpecLosesSandbox
  <2>1. lab'.step = lab.step
    BY <1>0, <1>5 DEF SpecLosesSandbox, LabStates
  <2>2. <<EvStage("summary", lab.step)>> \in Seq(StepLines(lab.step))
    BY <1>0, WriteSeqs
  <2>. QED
    BY <1>0, <1>5, <2>1, <2>2, WriteSeqs DEF SpecLosesSandbox
<1>. QED
  BY <1>1, <1>2, <1>3, <1>4, <1>5 DEF SpecSteps

LEMMA SummaryIsCalm ==
    ASSUME StateTypes, SummarySteps
    PROVE  CalmStep
<1>. USE DEF Goto, CalmStep
<1>0. /\ lab \in LabStates /\ lab.step \in Nat
      /\ Downed(lab).step = lab.step /\ DownWrites(lab) \in Seq(StepLines(lab.step))
      /\ EvSummary \in StepLines(lab.step)
      /\ \A s \in Stages : EvStage(s, lab.step) \in StepLines(lab.step)
  BY StepLineConstructors, DownedKeeps DEF StateTypes, LabStates
<1>1. CASE WrapUp
  <2>1. lab'.step = lab.step
    BY <1>0, <1>1 DEF WrapUp, LabStates
  <2>. QED
    BY <1>0, <1>1, <2>1, WriteSeqs DEF WrapUp
<1>2. CASE SummaryReused \/ SummaryDrives \/ SummarySubmits
  BY <1>0, <1>2, WriteSeqs DEF SummaryReused, SummaryDrives, SummarySubmits
<1>3. CASE SummaryLosesSandbox
  BY <1>0, <1>3 DEF SummaryLosesSandbox
<1>. QED
  BY <1>1, <1>2, <1>3 DEF SummarySteps

LEMMA AdvanceIsCalm ==
    ASSUME StateTypes, AdvanceSteps
    PROVE  CalmStep /\ writes' = <<>>
<1>1. writes' = <<>>
  BY DEF AdvanceSteps, AdvanceStarts, AdvanceEnds, StepDrivesDispatch, StepResumesDecision,
         StepResumesWork, Goto
<1>2. lab'.step = lab.step
  <2>1. CASE AdvanceStarts
    BY <2>1 DEF AdvanceStarts, StateTypes, LabStates
  <2>. QED
    BY <2>1 DEF AdvanceSteps, AdvanceEnds, StepDrivesDispatch, StepResumesDecision,
                StepResumesWork
<1>. QED
  BY <1>1, <1>2, WriteSeqs DEF CalmStep

LEMMA DispatchIsCalm ==
    ASSUME StateTypes,
           DispatchHalts \/ DispatchLosesSandbox \/ DispatchEmpty \/ DispatchRefused
    PROVE  CalmStep /\ at' = "step_end"
<1>. USE DEF Goto, CalmStep
<1>0. /\ lab \in LabStates /\ lab.step \in Nat /\ EvHalt \in StepLines(lab.step)
      /\ Downed(lab).step = lab.step /\ DownWrites(lab) \in Seq(StepLines(lab.step))
  BY StepLineConstructors, DownedKeeps DEF StateTypes, LabStates
<1>1. CASE DispatchHalts
  <2>1. lab'.step = lab.step
    BY <1>0, <1>1 DEF DispatchHalts, LabStates
  <2>. QED
    BY <1>0, <1>1, <2>1, WriteSeqs DEF DispatchHalts
<1>2. CASE DispatchLosesSandbox
  BY <1>0, <1>2 DEF DispatchLosesSandbox
<1>3. CASE DispatchEmpty \/ DispatchRefused
  BY <1>0, <1>3, WriteSeqs DEF DispatchEmpty, DispatchRefused
<1>. QED
  BY <1>1, <1>2, <1>3

LEMMA JudgeIsCalm ==
    ASSUME StateTypes, RegateDecides, JudgeSteps
    PROVE  CalmStep
<1>. USE DEF Goto, CalmStep
<1>0. /\ lab \in LabStates /\ lab.step \in Nat /\ EvHalt \in StepLines(lab.step)
      /\ Downed(lab).step = lab.step /\ DownWrites(lab) \in Seq(StepLines(lab.step))
      /\ \A d \in Decisions : EvJudge(d) \in StepLines(lab.step)
      /\ cur \in StepStates
  BY StepLineConstructors, DownedKeeps DEF StateTypes, LabStates
<1>1. CASE JudgeHalts
  <2>1. lab'.step = lab.step
    BY <1>0, <1>1 DEF JudgeHalts, LabStates
  <2>. QED
    BY <1>0, <1>1, <2>1, WriteSeqs DEF JudgeHalts
<1>2. CASE JudgeLosesSandbox
  BY <1>0, <1>2 DEF JudgeLosesSandbox
<1>3. ASSUME NEW decision \in Decisions, NEW rulesOk \in BOOLEAN, JudgeSubmits(decision, rulesOk)
      PROVE  CalmStep
  <2>1. Decided(lab, RulesChecked(decision, rulesOk), cur.worst) \in Decisions
    BY DEF Decided, RulesChecked, GateChecked
  <2>. QED
    BY <1>0, <1>3, <2>1, WriteSeqs DEF JudgeSubmits
<1>4. ASSUME NEW i \in Ids, NEW gate \in GateStates, RegateReturns(i, gate)
      PROVE  CalmStep
  <2>1. /\ lab' = Recorded(lab, i, gate) /\ writes' = GateWrites(lab, i, gate)
    BY <1>4 DEF RegateReturns
  <2>2. /\ Recorded(lab, i, gate).step = lab.step
        /\ GateWrites(lab, i, gate) \in Seq(StepLines(lab.step))
    BY <1>0, RecordedLines
  <2>. QED
    BY <2>1, <2>2
<1>5. ASSUME NEW i \in Ids, RegateLosesSandbox(i)
      PROVE  CalmStep
  <2>. DEFINE l == Recorded(lab, i, TestInvalid)
  <2>1. lab' = Downed(l) /\ writes' = GateWrites(lab, i, TestInvalid) \o DownWrites(l)
    BY <1>5 DEF RegateLosesSandbox
  <2>2. /\ l \in LabStates /\ l.step = lab.step
        /\ GateWrites(lab, i, TestInvalid) \in Seq(StepLines(lab.step))
    BY <1>0, RecordedLines, RecordedType
  <2>. HIDE DEF l
  <2>3. Downed(l).step = lab.step /\ DownWrites(l) \in Seq(StepLines(lab.step))
    BY <2>2, DownedKeeps
  <2>. QED
    BY <2>1, <2>2, <2>3, WriteSeqs
<1>6. CASE RegateEnds
  <2>1. Decided(lab, cur.decision, WorstGate({cur.worst})) \in Decisions
    BY <1>6, DecisionType DEF RegateEnds, RegateDecides, Decided, GateChecked
  <2>2. lab'.step = lab.step
    BY <1>0, <1>6 DEF RegateEnds, LabStates
  <2>. QED
    BY <1>0, <1>6, <2>1, <2>2, WriteSeqs DEF RegateEnds
<1>. QED
  BY <1>1, <1>2, <1>3, <1>4, <1>5, <1>6, ResultsAreGates DEF JudgeSteps

LEMMA ApplyIsCalm ==
    ASSUME StateTypes, ApplySteps
    PROVE  \/ CalmStep /\ at' # "step"
           \/ /\ StepEnds /\ lab'.step = lab.step + 1
              /\ writes' \in Seq(StepLines(lab.step + 1))
<1>. USE DEF Goto, CalmStep
<1>0. /\ lab \in LabStates /\ lab.step \in Nat /\ EvHalt \in StepLines(lab.step)
      /\ Downed(lab).step = lab.step /\ DownWrites(lab) \in Seq(StepLines(lab.step))
      /\ FileSpec \in StepLines(lab.step) /\ EvSpec \in StepLines(lab.step)
  BY StepLineConstructors, DownedKeeps DEF StateTypes, LabStates
<1>1. CASE ApplyFinish \/ ApplyTakeover \/ ApplyContinue \/ TakeoverSubmits
  BY <1>0, <1>1, WriteSeqs DEF ApplyFinish, ApplyTakeover, ApplyContinue, TakeoverSubmits
<1>2. CASE ApplyRevision
  <2>1. lab'.step = lab.step
    BY <1>0, <1>2 DEF ApplyRevision, LabStates
  <2>. QED
    BY <1>0, <1>2, <2>1, WriteSeqs DEF ApplyRevision
<1>3. CASE BranchLosesSandbox
  BY <1>0, <1>3 DEF BranchLosesSandbox
<1>4. CASE BranchHalts
  <2>1. lab'.step = lab.step
    BY <1>0, <1>4 DEF BranchHalts, LabStates
  <2>. QED
    BY <1>0, <1>4, <2>1, WriteSeqs DEF BranchHalts
<1>5. CASE ReviseSubmits
  BY <1>0, <1>5, WriteSeqs DEF ReviseSubmits
<1>6. CASE StepEnds
  <2>. DEFINE l == StepCounted(lab)
  <2>. DEFINE n == lab.step + 1
  <2>a. n \in Nat /\ l = [lab EXCEPT !.step = n]
    BY <1>0 DEF StepCounted
  <2>. HIDE DEF n, l
  <2>b. l.step = n /\ l \in LabStates
    BY <1>0, <2>a DEF LabStates
  <2>1. l.step = lab.step + 1 /\ l \in LabStates /\ lab.step + 1 \in Nat
    BY <2>a, <2>b DEF n
  <2>2. \A s \in Stages : EvStage(s, l.step) \in StepLines(l.step)
    BY <2>1, StepLineConstructors
  <2>3. lab' = l \/ lab' = [l EXCEPT !.stage = "summary"]
    BY <1>6 DEF StepEnds, l
  <2>4. \/ writes' = <<EvStage(l.stage, l.step)>>
        \/ writes' = <<EvStage(l.stage, l.step), EvStage("summary", l.step)>>
    BY <1>6 DEF StepEnds, l
  <2>5. lab'.step = l.step /\ l.stage \in Stages
    BY <2>1, <2>3 DEF LabStates
  <2>. QED
    BY <1>6, <2>1, <2>2, <2>4, <2>5, WriteSeqs
<1>. QED
  BY <1>1, <1>2, <1>3, <1>4, <1>5, <1>6 DEF ApplySteps

\* A wave and the gates that are run again: a step leaves one assignment less to be
\* briefed, and its brief among the writes.
WaveStep ==
    /\ lab'.step = lab.step /\ at' \in AtWave \cup {"takeover", "judge", "step_end"}
    /\ at' \in AtWave => cur'.todo \cap cur'.replay = {}
    /\ Unfinished' \subseteq Unfinished
    /\ OneBrief(writes', Unfinished \ Unfinished', lab'.step)

LEMMA WaveIsOnce ==
    ASSUME StateTypes, at \in AtWave => cur.todo \cap cur.replay = {}, WaveSteps
    PROVE  WaveStep
<1>. USE DEF Goto
<1>0. /\ lab \in LabStates /\ lab.step \in Nat /\ cur \in StepStates
      /\ Downed(lab).step = lab.step /\ DownWrites(lab) \in Seq(StepLines(lab.step))
  BY DownedKeeps DEF StateTypes, LabStates
<1>1. ASSUME NEW i \in Ids, NEW o \in WorkerOutcomes, NEW prints \in BOOLEAN,
             WorkerReturns(i, o, prints)
      PROVE  WaveStep
  <2>. DEFINE good == o.done /\ o.gate \in GoodGates
  <2>1. o.gate \in GateStates \cup {NoGate} /\ good \in BOOLEAN
    BY ResultsAreGates DEF WorkerOutcomes
  <2>2. /\ at = "wave" /\ at' = "wave" /\ i \in cur.todo
        /\ lab' = Committed(lab, i, good, prints, o.gate)
        /\ writes' = CommitWrites(lab, i, good, prints, o.gate)
    BY <1>1 DEF WorkerReturns
  <2>3. cur'.todo = cur.todo \ {i} /\ cur'.replay = cur.replay
    BY <1>0, <1>1 DEF WorkerReturns, StepStates
  <2>. HIDE DEF good
  <2>4. lab'.step = lab.step /\ EndsInBrief(writes', lab.step, i, o.gate)
    BY <1>0, <2>1, <2>2, CommitLinesOnce
  <2>5. i \in Unfinished \ Unfinished'
    BY <2>2, <2>3 DEF Unfinished, AtWave
  <2>6. OneBrief(writes', Unfinished \ Unfinished', lab.step)
    BY <2>4, <2>5, WriteSeqs, OneBriefInside DEF EndsInBrief
  <2>. QED
    BY <2>2, <2>3, <2>4, <2>6 DEF WaveStep, Unfinished, AtWave
<1>2. ASSUME NEW i \in Ids, Blocks(i)
      PROVE  WaveStep
  <2>2. /\ at \in AtWave /\ at' = "blocking" /\ i \in cur.todo
        /\ lab' = Committed(lab, i, FALSE, FALSE, NoGate)
        /\ writes' = CommitWrites(lab, i, FALSE, FALSE, NoGate)
    BY <1>2 DEF Blocks, AtWave
  <2>3. cur'.todo = cur.todo \ {i} /\ cur'.replay = cur.replay
    BY <1>0, <1>2 DEF Blocks, StepStates
  <2>4. lab'.step = lab.step /\ EndsInBrief(writes', lab.step, i, NoGate)
    BY ZenonT(60), <1>0, <2>2, CommitLinesOnce
  <2>5. i \in Unfinished \ Unfinished'
    BY <2>2, <2>3 DEF Unfinished, AtWave
  <2>6. OneBrief(writes', Unfinished \ Unfinished', lab.step)
    BY <2>4, <2>5, WriteSeqs, OneBriefInside DEF EndsInBrief
  <2>. QED
    BY <2>2, <2>3, <2>4, <2>6 DEF WaveStep, Unfinished, AtWave
<1>3. CASE WaveEnds
  <2>1. CASE "sandbox" \in cur.flags
    <3>1. lab' = Downed(lab) /\ writes' = DownWrites(lab) /\ at' = "step_end"
      BY <1>3, <2>1 DEF WaveEnds
    <3>. QED
      BY <1>0, <3>1, LinesBriefNothing DEF WaveStep, Unfinished, AtWave
  <2>2. CASE "sandbox" \notin cur.flags
    <3>1. /\ at \in AtWave /\ at' \in {"takeover", "replay_gates"} /\ writes' = <<>>
          /\ lab' = lab
          /\ cur' = [cur EXCEPT !.specInvalid = "spec_invalid" \in cur.flags, !.write = FALSE]
      BY <1>3, <2>2 DEF WaveEnds, AtWave
    <3>2. cur'.todo = cur.todo /\ cur'.replay = cur.replay
      BY <1>0, <3>1 DEF StepStates
    <3>3. OneBrief(writes', Unfinished \ Unfinished', lab.step)
      BY <3>1, WriteSeqs, LinesBriefNothing
    <3>. QED
      BY <3>1, <3>2, <3>3 DEF WaveStep, Unfinished, AtWave
  <2>. QED
    BY <2>1, <2>2
<1>4. ASSUME NEW i \in Ids, NEW gate \in GateStates, ReplayReturns(i, gate)
      PROVE  WaveStep
  <2>1. /\ at = "replay_gates" /\ at' = "replay_gates" /\ i \in cur.replay
        /\ lab' = Recorded(lab, i, gate)
        /\ writes' = GateWrites(lab, i, gate) \o <<EvBrief(i, gate)>>
    BY <1>4 DEF ReplayReturns
  <2>2. cur'.todo = cur.todo /\ cur'.replay = cur.replay \ {i}
    BY <1>0, <1>4 DEF ReplayReturns, StepStates
  <2>3. i \in Unfinished \ Unfinished'
    BY <1>4, <2>1, <2>2 DEF Unfinished, AtWave
  <2>4. lab'.step = lab.step /\ GateWrites(lab, i, gate) \in Seq(StepLines(lab.step))
    <3>1. /\ Recorded(lab, i, gate).step = lab.step
          /\ GateWrites(lab, i, gate) \in Seq(StepLines(lab.step))
      BY <1>0, RecordedLines
    <3>. QED
      BY <2>1, <3>1
  <2>5. OneBrief(writes', Unfinished \ Unfinished', lab.step)
    BY <2>1, <2>3, <2>4, WriteSeqs, OneBriefInside
  <2>. QED
    BY <2>1, <2>2, <2>4, <2>5 DEF WaveStep, Unfinished, AtWave
<1>5. ASSUME NEW i \in Ids, ReplayLosesSandbox(i)
      PROVE  WaveStep
  <2>. DEFINE l == Recorded(lab, i, TestInvalid)
              g == GateWrites(lab, i, TestInvalid)
  <2>1. /\ at = "replay_gates" /\ at' = "step_end" /\ i \in cur.replay
        /\ lab' = Downed(l)
        /\ writes' = (g \o <<EvBrief(i, TestInvalid)>>) \o DownWrites(l)
    BY <1>5 DEF ReplayLosesSandbox
  <2>2. l \in LabStates /\ l.step = lab.step /\ g \in Seq(StepLines(lab.step))
    BY <1>0, RecordedLines, RecordedType
  <2>. HIDE DEF l, g
  <2>3. Downed(l).step = lab.step /\ DownWrites(l) \in Seq(StepLines(lab.step))
    BY <2>2, DownedKeeps
  <2>4. i \in Unfinished \ Unfinished'
    BY <2>1 DEF Unfinished, AtWave
  <2>5. OneBrief(writes', Unfinished \ Unfinished', lab.step)
    BY <2>1, <2>2, <2>3, <2>4, OneBriefInside
  <2>. QED
    BY <2>1, <2>3, <2>5 DEF WaveStep, Unfinished, AtWave
<1>6. CASE ReplayEnds
  <2>. DEFINE gate == WorstGate({cur.worst})
  <2>1. at' = "judge" /\ writes' = <<EvRunGate(gate)>> /\ lab' = [lab EXCEPT !.runGate = gate]
    BY <1>6 DEF ReplayEnds
  <2>2. lab'.step = lab.step
    BY <1>0, <2>1 DEF LabStates
  <2>3. EvRunGate(gate) \in StepLines(lab.step)
    BY <1>0, WorstGateType, StepLineConstructors
  <2>. HIDE DEF gate
  <2>4. OneBrief(writes', Unfinished \ Unfinished', lab.step)
    BY <2>1, <2>3, WriteSeqs, LinesBriefNothing
  <2>. QED
    BY <2>1, <2>2, <2>4 DEF WaveStep, Unfinished, AtWave
<1>. QED
  BY <1>1, <1>2, <1>3, <1>4, <1>5, <1>6, ResultsAreGates DEF WaveSteps

\* A step that begins no wave and no step.
LEMMA CalmKeepsOnce ==
    ASSUME OnceInv, Running, UNCHANGED journal, CalmStep, at' \notin AtWave,
           at' \notin {"step", "dispatch"}
    PROVE  OnceInv'
<1>1. Unfinished' = {} /\ journal' = journal /\ lab'.step = lab.step
  BY DEF Unfinished, CalmStep
<1>2. OneBrief(writes', (Unbriefed(journal) \ Unfinished)', lab'.step)
  BY LinesBriefNothing DEF CalmStep
<1>. QED
  BY <1>1, <1>2 DEF OnceInv

LEMMA StepEndKeepsOnce ==
    ASSUME DurableInv, OnceInv, Running, UNCHANGED journal, StepEnds,
           lab'.step = lab.step + 1, writes' \in Seq(StepLines(lab.step + 1))
    PROVE  OnceInv'
<1>1. at' \in {"step", "wrap_up"} /\ Ready
  BY DEF StepEnds, Goto
<1>2. /\ journal.step = lab.step /\ lab.step \in Nat
      /\ journal.dispatched \in Nat /\ journal' = journal
  BY <1>1, ReadyAgrees DEF Agrees, DurableInv, FlowInv, TypeOK, LabStates, JournalStates
<1>3. Unfinished' = {} /\ at' \notin AtWave
  BY <1>1 DEF Unfinished, AtWave
<1>4. OneBrief(writes', (Unbriefed(journal) \ Unfinished)', lab'.step)
  BY LinesBriefNothing
<1>5. journal.dispatched # lab'.step + 1
  BY <1>2 DEF OnceInv
<1>. QED
  BY <1>1, <1>2, <1>3, <1>4, <1>5 DEF OnceInv

LEMMA AdvanceKeepsOnce ==
    ASSUME DurableInv, OnceInv, Running, UNCHANGED journal, AdvanceSteps
    PROVE  OnceInv'
<1>. USE DEF Goto
<1>0. /\ lab \in LabStates /\ journal \in JournalStates /\ StateTypes
  BY DEF DurableInv, FlowInv, TypeOK, StateTypes
<1>1. CalmStep /\ writes' = <<>>
  BY <1>0, AdvanceIsCalm
<1>2. /\ OneBrief(writes', (Unbriefed(journal) \ Unfinished)', lab'.step)
      /\ journal' = journal /\ lab'.step = lab.step
  BY <1>1, LinesBriefNothing DEF CalmStep
<1>3. CASE AdvanceStarts
  <2>1. at' \in {"wrap_up", "step"}
    BY <1>3 DEF AdvanceStarts
  <2>2. at' = "step" /\ journal.dispatched = lab.step + 1 => lab'.pending = lab.step + 1
    BY <1>0, <1>3 DEF AdvanceStarts, LabStates
  <2>3. Unfinished' = {} /\ at' \notin AtWave
    BY <2>1 DEF Unfinished, AtWave
  <2>. QED
    BY <1>2, <2>1, <2>2, <2>3 DEF OnceInv
<1>4. CASE AdvanceEnds \/ StepResumesDecision
  <2>1. at' \in {"wrap_up", "apply"}
    BY <1>4 DEF AdvanceEnds, StepResumesDecision
  <2>. QED
    BY <1>1, <2>1, CalmKeepsOnce DEF AtWave
<1>5. CASE StepDrivesDispatch
  <2>1. at = "step" /\ at' = "dispatch" /\ lab.step + 1 # lab.pending
    BY <1>5 DEF StepDrivesDispatch, StepGoesOn
  <2>2. Unfinished' = {} /\ at' \notin AtWave
    BY <2>1 DEF Unfinished, AtWave
  <2>. QED
    BY <1>2, <2>1, <2>2 DEF OnceInv
<1>6. CASE StepResumesWork
  <2>. DEFINE todo == Missing(journal.run, journal.briefs)
  <2>1. /\ at' = WhereWave(todo)
        /\ cur'.todo = todo /\ cur'.replay = Missing(journal.replay, journal.briefs)
    BY <1>6 DEF StepResumesWork, Wave, NoStep
  <2>2. at' \in {"wave", "replay_gates"}
    BY <2>1 DEF WhereWave
  <2>3. journal.run \in SUBSET Ids /\ journal.replay \in SUBSET Ids
    BY <1>0 DEF JournalStates
  <2>4. Unfinished' \subseteq Unbriefed(journal) /\ cur'.todo \cap cur'.replay = {}
    BY <2>1, <2>3 DEF Unfinished, Missing, Unbriefed, OnceInv
  <2>. QED
    BY <1>2, <2>2, <2>4 DEF OnceInv
<1>. QED
  BY <1>3, <1>4, <1>5, <1>6 DEF AdvanceSteps

LEMMA DispatchIsNew ==
    ASSUME DurableInv, OnceInv, Running, UNCHANGED journal,
           NEW asg \in SUBSET Ids, DispatchSubmits(asg)
    PROVE  \/ at' = "step_end" /\ CalmStep
           \/ /\ at' \in {"wave", "replay_gates"} /\ NewDispatch' /\ lab'.step = lab.step
              /\ cur'.todo \cap cur'.replay = {}
              /\ cur'.asg = asg /\ cur'.todo \cup cur'.replay \subseteq asg
<1>. USE DEF Goto
<1>0. lab \in LabStates
  BY DEF DurableInv, FlowInv, TypeOK
<1>. DEFINE run == RunOf(asg, lab.resumable, lab.executed, lab.gates, lab.tries)
            replay == ReplayedOf(asg, lab.resumable, lab.executed, lab.gates, lab.tries)
            executed == lab.executed \cup (asg \ lab.resumable)
            more == lab.step + 1
<1>1. /\ run \cap replay = {} /\ run \cup replay \subseteq asg /\ executed \in SUBSET Ids
  BY <1>0, DispatchIsSplit DEF LabStates
<1>2. /\ at = "dispatch" /\ Ready
      /\ lab'.step = lab.step
      /\ \/ at' = "step_end" /\ writes' = <<>>
         \/ /\ cur' = Wave([NoStep EXCEPT !.asg = asg, !.replay = replay], run)
            /\ at' = WhereWave(run)
            /\ writes' = <<EvDispatch(more, asg, run, replay), EvExecuted(executed)>>
  BY <1>0 DEF DispatchSubmits, DispatchWrites, LabStates
<1>. HIDE DEF run, replay, executed
<1>3. CASE at' = "step_end"
  <2>1. writes' = <<>>
    BY <1>2, <1>3 DEF WhereWave
  <2>. QED
    BY <1>2, <1>3, <2>1, WriteSeqs DEF CalmStep
<1>4. CASE at' # "step_end"
  <2>1. cur'.todo = run /\ cur'.replay = replay /\ cur'.asg = asg
    BY <1>2, <1>4 DEF Wave, NoStep
  <2>2. at' \in {"wave", "replay_gates"}
    BY <1>2, <1>4 DEF WhereWave
  <2>3. /\ journal.step = lab.step /\ journal.dispatched # lab.step + 1
        /\ journal' = journal
    BY <1>2, ReadyAgrees DEF Agrees, OnceInv
  <2>4. NewDispatch'
    BY <1>1, <1>2, <1>4, <2>1, <2>3 DEF NewDispatch
  <2>. QED
    BY <1>1, <1>2, <2>1, <2>2, <2>4
<1>. QED
  BY <1>3, <1>4

LEMMA DispatchKeepsOnce ==
    ASSUME DurableInv, OnceInv, Running, UNCHANGED journal, DispatchSteps
    PROVE  OnceInv'
<1>1. CASE DispatchHalts \/ DispatchLosesSandbox \/ DispatchEmpty \/ DispatchRefused
  <2>1. StateTypes
    BY DEF DurableInv, FlowInv, TypeOK, StateTypes
  <2>. QED
    BY <1>1, <2>1, DispatchIsCalm, CalmKeepsOnce DEF AtWave
<1>2. ASSUME NEW asg \in SUBSET Ids, DispatchSubmits(asg)
      PROVE  OnceInv'
  <2>1. CASE at' = "step_end" /\ CalmStep
    BY <2>1, CalmKeepsOnce DEF AtWave
  <2>2. CASE /\ at' \in {"wave", "replay_gates"} /\ NewDispatch' /\ lab'.step = lab.step
             /\ cur'.todo \cap cur'.replay = {}
    BY <2>2 DEF OnceInv, AtWave
  <2>. QED
    BY <1>2, <2>1, <2>2, DispatchIsNew
<1>. QED
  BY <1>1, <1>2 DEF DispatchSteps

LEMMA WaveKeepsOnce ==
    ASSUME DurableInv, OnceInv, Running, Ready, UNCHANGED journal, WaveSteps
    PROVE  OnceInv'
<1>0. StateTypes /\ at \in AtWave
  BY DEF DurableInv, FlowInv, TypeOK, StateTypes, AtWave, WaveSteps, WorkerReturns, Blocks,
         WaveEnds, ReplayReturns, ReplayLosesSandbox, ReplayEnds
<1>1. WaveStep /\ journal' = journal
  BY <1>0, WaveIsOnce DEF OnceInv
<1>2. Unfinished \subseteq Unbriefed(journal)
  <2>1. ~NewDispatch /\ at \in Middle
    BY <1>0 DEF NewDispatch, Ready, AtWave, Middle, Places, Drives
  <2>. QED
    BY <2>1 DEF OnceInv
<1>3. OneBrief(writes', (Unbriefed(journal) \ Unfinished)', lab'.step)
  BY <1>1, <1>2 DEF WaveStep, OneBrief
<1>4. at' \notin {"step", "dispatch"}
  BY <1>1 DEF WaveStep, AtWave
<1>. QED
  BY <1>1, <1>2, <1>3, <1>4 DEF OnceInv, WaveStep

LEMMA OnceNext ==
    ASSUME DurableInv, OnceInv, [Next]_vars
    PROVE  OnceInv' /\ (KeepsBriefs \/ UNCHANGED journal)
<1>0. /\ StateTypes /\ RegateDecides /\ FlowInv
      /\ journal.dispatched \in Nat /\ journal.step \in Nat
  BY DEF DurableInv, FlowInv, TypeOK, StateTypes, JournalStates
<1>1. CASE Persist
  BY <1>0, <1>1, OncePersists
<1>2. CASE EnterLab
  <2>1. /\ at' \in {"remember", "wrap_up"} /\ writes' = <<>> /\ journal' = journal
        /\ lab'.step = journal.step
    BY <1>2 DEF EnterLab, Goto, Restored, Idle
  <2>2. Unfinished' = {} /\ at' \notin AtWave
    BY <2>1 DEF Unfinished, AtWave
  <2>3. OneBrief(writes', (Unbriefed(journal) \ Unfinished)', lab'.step)
    BY <2>1, WriteSeqs, LinesBriefNothing
  <2>. QED
    BY <1>0, <2>1, <2>2, <2>3 DEF OnceInv
<1>3. CASE RunSteps
  <2>0. Ready /\ UNCHANGED journal /\ Running
    BY <1>0, <1>3, RunStepsAreReady, RunStepsRun
  <2>1. CASE RememberSteps
    BY <1>0, <2>0, <2>1, RememberIsCalm, RememberIsQuiet, CalmKeepsOnce DEF QuietStep, AtWave
  <2>2. CASE SpecSteps
    <3>1. at' \in {"advance", "wrap_up", "spec"}
      BY <2>2 DEF SpecSteps, SpecSkips, SpecReused, SpecDrives, SpecSubmits, SpecHalts,
                  SpecLosesSandbox, Goto
    <3>. QED
      BY <1>0, <2>0, <2>2, <3>1, SpecIsCalm, CalmKeepsOnce DEF AtWave
  <2>3. CASE SummarySteps
    <3>1. at' \in {"summarize", "summary", "write_summary", "pause"}
      BY <2>3 DEF SummarySteps, WrapUp, SummaryReused, SummaryDrives, SummarySubmits,
                  SummaryLosesSandbox, Goto
    <3>. QED
      BY <1>0, <2>0, <2>3, <3>1, SummaryIsCalm, CalmKeepsOnce DEF AtWave
  <2>4. CASE WriteSummary \/ CloseSession
    <3>1. at' \in {"close", "leave"} /\ lab' = lab /\ journal' = journal
      BY <2>0, <2>4 DEF WriteSummary, CloseSession, Goto
    <3>. QED
      BY <2>0, <3>1 DEF OnceInv, AtWave, Middle
  <2>5. CASE AdvanceSteps
    BY <2>0, <2>5, AdvanceKeepsOnce
  <2>6. CASE DispatchSteps
    BY <2>0, <2>6, DispatchKeepsOnce
  <2>7. CASE WaveSteps
    BY <2>0, <2>7, WaveKeepsOnce
  <2>8. CASE JudgeSteps
    <3>1. at' \in {"regate", "apply", "step_end"}
      BY <2>8 DEF JudgeSteps, JudgeHalts, JudgeLosesSandbox, JudgeSubmits, RegateReturns,
                  RegateLosesSandbox, RegateEnds, Goto
    <3>. QED
      BY <1>0, <2>0, <2>8, <3>1, JudgeIsCalm, CalmKeepsOnce DEF AtWave
  <2>9. CASE ApplySteps
    <3>1. at' \in {"takeover", "revise_spec", "step_end", "step", "wrap_up"}
      BY <2>9 DEF ApplySteps, ApplyFinish, ApplyTakeover, ApplyRevision, ApplyContinue,
                  BranchLosesSandbox, BranchHalts, TakeoverSubmits, ReviseSubmits, StepEnds, Goto
    <3>. QED
      BY <1>0, <2>0, <2>9, <3>1, ApplyIsCalm, CalmKeepsOnce, StepEndKeepsOnce DEF AtWave
  <2>. QED
    BY <1>3, <2>0, <2>1, <2>2, <2>3, <2>4, <2>5, <2>6, <2>7, <2>8, <2>9 DEF RunSteps
<1>4. CASE at' \in {"off", "opening", "replayed"} /\ UNCHANGED journal
  BY <1>4 DEF OnceInv, Running, AtWave, Middle
<1>5. CASE UNCHANGED <<journal, writes, files, at, lab, cur>>
  BY <1>5 DEF OnceInv, Running, Unfinished, NewDispatch
<1>. QED
  BY <1>1, <1>2, <1>3, <1>4, <1>5, KindsOfSteps

\* For every set of assignments and all limits: however often a run is interrupted
\* and resumed, an assignment of a dispatched step gets its brief once.
THEOREM BriefsAreKept == Spec => BriefsAreFinal
<1>1. Init => OnceInv
  BY DEF Init, EmptyJournal, OnceInv, Running, Middle, AtWave
<1>2. DurableInv /\ OnceInv /\ [Next]_vars
        => OnceInv' /\ (KeepsBriefs \/ UNCHANGED journal)
  BY OnceNext
<1>3. DurableInv /\ OnceInv /\ [Next]_vars
        => [\A i \in Ids :
              journal.briefs[i] # NoBrief /\ journal'.plan = journal.plan
                  /\ journal'.dispatched = journal.dispatched
              => journal'.briefs[i] = journal.briefs[i]]_journal
  BY OnceNext DEF KeepsBriefs
<1>. QED
  BY <1>1, <1>2, <1>3, DurableHolds, PTL DEF Spec, BriefsAreFinal

-----------------------------------------------------------------------------
(* A gate that passed is not run for again *)

\* Nothing was done under the plan.
Blank(j) == j.dispatched = 0 /\ j.judge = "none" /\ j.gates = [i \in Ids |-> NoGate]

\* A gate is recorded of an assignment that was handed out.
GatesWereRun(l) == \A i \in Ids : l.gates[i] # NoGate => i \in l.executed

\* What the step is about was handed out.
OwnWork(c, l) == c.asg \cup c.todo \cup c.replay \cup c.regate \subseteq l.executed

\* The run that opened the session holds nothing to be skipped as done, and no step
\* to be taken up: what it skips or replays, it ran itself.
PolishInv ==
    /\ ~journal.begun => Blank(journal)
    /\ ~lab.resume =>
          /\ at \in Opening => Blank(journal)
          /\ at \in Early \cup {"advance"} => journal.dispatched = 0
          /\ at \in Middle => lab.resumable = {} /\ lab.pending = 0 /\ GatesWereRun(lab)
          /\ at \in AtWave \cup {"judge", "regate"} => OwnWork(cur, lab)
          /\ at \in AtWave /\ NewDispatch => \A i \in cur.todo : journal.gates[i] # Pass

\* The property of the step that commits a dispatch.
PolishesNothing ==
    ~lab.resume /\ journal'.plan = journal.plan /\ journal'.dispatched # journal.dispatched
    => \A i \in journal'.run : journal.gates[i] # Pass

LEMMA PolishPersists ==
    ASSUME FlowInv, OnceInv, PolishInv, Persist
    PROVE  PolishInv' /\ PolishesNothing
<1>. DEFINE e == Head(writes)
<1>1. /\ journal \in JournalStates /\ writes # <<>> /\ journal' = Fold(journal, e)
      /\ UNCHANGED <<at, lab, cur>> /\ at \in Places
  BY PersistTypes DEF FlowInv, TypeOK, Persist
<1>2. CountsDispatch /\ (at \in Middle => ~NewDispatch')
  BY OncePersists
<1>3. PolishesNothing
  BY <1>2 DEF CountsDispatch, PolishInv, PolishesNothing
<1>4. AtWave \subseteq Middle /\ Early \cup {"advance"} \subseteq Middle \ AtWave
  BY DEF AtWave, Middle, Places, Drives, Early
<1>5. CASE at \in Opening
  <2>1. /\ e \in {EvBegin, EvInstruction, EvMismatch} /\ journal'.begun
    <3>1. at = "opening" => e \in {EvBegin, EvInstruction}
      BY <1>1 DEF FlowInv, WritesInv
    <3>2. at = "replayed" => e = EvMismatch
      BY <1>1 DEF FlowInv, WritesInv
    <3>. QED
      BY <1>5, <3>1, <3>2, PersistOpening DEF Opening
  <2>2. Blank(journal) => Blank(journal')
    <3>1. CASE e = EvBegin
      BY <1>1, <3>1, SessionLineFold DEF Blank
    <3>2. CASE e \in {EvInstruction, EvMismatch}
      BY <1>1, <3>2, NewPlanFold DEF Blank
    <3>. QED
      BY <2>1, <3>1, <3>2
  <2>3. at \notin Middle
    BY <1>5 DEF Opening, Middle
  <2>. QED
    BY <1>1, <1>3, <1>4, <1>5, <2>1, <2>2, <2>3 DEF PolishInv
<1>6. CASE at \in Middle
  <2>1. journal'.begun /\ journal'.plan = journal.plan
    BY <1>6, PersistInner DEF FlowInv, SessionInv, Middle
  <2>2. at \notin Opening
    BY <1>6 DEF Opening, Middle
  <2>3. at \in Early \cup {"advance"} => journal'.dispatched = journal.dispatched
    BY <1>2, <1>4, <2>1 DEF CountsDispatch
  <2>. QED
    BY <1>1, <1>2, <1>3, <1>4, <1>6, <2>1, <2>2, <2>3 DEF PolishInv
<1>7. CASE at \notin Middle /\ at \notin Opening
  <2>1. at \in {"close", "leave"}
    BY <1>1, <1>7 DEF FlowInv, WritesInv, Opening, Middle
  <2>2. journal'.begun
    BY <2>1, PersistClosing
  <2>. QED
    BY <1>1, <1>3, <1>4, <1>7, <2>2 DEF PolishInv
<1>. QED
  BY <1>5, <1>6, <1>7

\* What a step leaves of the memory of gates and handed out work.
LabKept ==
    /\ lab'.resume = lab.resume /\ lab'.resumable = lab.resumable
    /\ lab'.pending = lab.pending /\ lab'.gates = lab.gates
    /\ lab'.executed = lab.executed

LEMMA EarlyKeepsMemory ==
    ASSUME StateTypes, ~lab.resume, RememberSteps \/ SpecSteps
    PROVE  LabKept
<1>. USE DEF LabKept, Downed, Resumables, StateTypes, LabStates
<1>1. CASE RememberSteps
  BY <1>1 DEF RememberSteps, RememberSkips, RememberDrives, RememberSubmits, RememberHalts,
              RememberLosesSandbox
<1>2. CASE SpecSkips \/ SpecReused \/ SpecDrives
  BY <1>2 DEF SpecSkips, SpecReused, SpecDrives
<1>3. CASE SpecSubmits
  BY <1>3 DEF SpecSubmits
<1>4. CASE SpecHalts \/ SpecLosesSandbox
  BY <1>4 DEF SpecHalts, SpecLosesSandbox
<1>. QED
  BY <1>1, <1>2, <1>3, <1>4 DEF SpecSteps

LEMMA LateKeepsMemory ==
    ASSUME StateTypes, SummarySteps \/ WriteSummary \/ CloseSession
    PROVE  LabKept
BY DEF LabKept, Downed, StateTypes, LabStates, SummarySteps, WrapUp, SummaryReused,
       SummaryDrives, SummarySubmits, SummaryLosesSandbox, WriteSummary, CloseSession

LEMMA ApplyKeepsMemory ==
    ASSUME StateTypes, ApplySteps
    PROVE  LabKept
<1>. USE DEF LabKept, Downed, StateTypes, LabStates
<1>1. CASE ApplyFinish \/ ApplyTakeover \/ ApplyRevision \/ ApplyContinue
  BY <1>1 DEF ApplyFinish, ApplyTakeover, ApplyRevision, ApplyContinue
<1>2. CASE BranchLosesSandbox \/ BranchHalts \/ TakeoverSubmits \/ ReviseSubmits
  BY <1>2 DEF BranchLosesSandbox, BranchHalts, TakeoverSubmits, ReviseSubmits
<1>3. CASE StepEnds
  BY <1>3 DEF StepEnds, StepCounted
<1>. QED
  BY <1>1, <1>2, <1>3 DEF ApplySteps

\* The steps around the wave that record no gate.
LEMMA OthersKeepMemory ==
    ASSUME StateTypes,
           \/ AdvanceEnds \/ StepDrivesDispatch
           \/ DispatchHalts \/ DispatchLosesSandbox \/ DispatchEmpty \/ DispatchRefused
           \/ WaveEnds \/ ReplayEnds
           \/ JudgeHalts \/ JudgeLosesSandbox \/ RegateEnds
           \/ \E decision \in Decisions, rulesOk \in BOOLEAN : JudgeSubmits(decision, rulesOk)
    PROVE  LabKept
<1>. USE DEF LabKept, Downed, StateTypes, LabStates
<1>1. CASE \/ AdvanceEnds \/ StepDrivesDispatch
           \/ DispatchHalts \/ DispatchLosesSandbox \/ DispatchEmpty \/ DispatchRefused
  BY <1>1 DEF AdvanceEnds, StepDrivesDispatch, DispatchHalts, DispatchLosesSandbox,
              DispatchEmpty, DispatchRefused
<1>2. CASE WaveEnds \/ ReplayEnds
  BY <1>2 DEF WaveEnds, ReplayEnds
<1>3. CASE \/ JudgeHalts \/ JudgeLosesSandbox \/ RegateEnds
           \/ \E decision \in Decisions, rulesOk \in BOOLEAN : JudgeSubmits(decision, rulesOk)
  BY <1>3 DEF JudgeHalts, JudgeLosesSandbox, RegateEnds, JudgeSubmits
<1>. QED
  BY <1>1, <1>2, <1>3

\* What the run of a gate of i leaves of the memory.
GateKept(i) ==
    /\ lab'.resume = lab.resume /\ lab'.resumable = lab.resumable
    /\ lab'.pending = lab.pending /\ lab'.executed = lab.executed
    /\ \A k \in Ids \ {i} : lab'.gates[k] = lab.gates[k]

LEMMA RecordedGate ==
    ASSUME NEW l \in LabStates, NEW i \in Ids, NEW g \in GateStates
    PROVE  \A k \in Ids : Recorded(l, i, g).gates[k] = IF k = i THEN g ELSE l.gates[k]
BY DEF Recorded, LabStates

LEMMA CommittedGate ==
    ASSUME NEW l \in LabStates, NEW i \in Ids, NEW g \in GateStates \cup {NoGate},
           NEW good \in BOOLEAN, NEW prints \in BOOLEAN
    PROVE  \A k \in Ids : Committed(l, i, good, prints, g).gates[k]
                            = IF k = i /\ g # NoGate THEN g ELSE l.gates[k]
<1>. DEFINE m == Ledgered(l, i, good, prints)
<1>1. m \in LabStates /\ m.gates = l.gates
  BY DEF Ledgered, LabStates
<1>2. Committed(l, i, good, prints, g) = IF g = NoGate THEN m ELSE Recorded(m, i, g)
  BY DEF Committed
<1>. HIDE DEF m
<1>3. CASE g = NoGate
  BY <1>1, <1>2, <1>3
<1>4. CASE g # NoGate
  <2>1. g \in GateStates
    BY <1>4
  <2>2. \A k \in Ids : Recorded(m, i, g).gates[k] = IF k = i THEN g ELSE m.gates[k]
    BY <1>1, <2>1, RecordedGate
  <2>. QED
    BY <1>1, <1>2, <1>4, <2>2
<1>. QED
  BY <1>3, <1>4

LEMMA CommittedMemory ==
    ASSUME NEW l \in LabStates, NEW i \in Ids, NEW g \in GateStates \cup {NoGate},
           NEW good \in BOOLEAN, NEW prints \in BOOLEAN
    PROVE  LET m == Committed(l, i, good, prints, g)
           IN  /\ m.resume = l.resume /\ m.resumable = l.resumable
               /\ m.pending = l.pending /\ m.executed = l.executed
BY DEF Committed, Recorded, Ledgered, LabStates

LEMMA RecordedMemory ==
    ASSUME NEW l \in LabStates, NEW i \in Ids, NEW g \in GateStates
    PROVE  LET m == Recorded(l, i, g)
           IN  /\ m.resume = l.resume /\ m.resumable = l.resumable
               /\ m.pending = l.pending /\ m.executed = l.executed
BY DEF Recorded, LabStates

LEMMA GateRunKeepsMemory ==
    ASSUME StateTypes, NEW i \in Ids,
           \/ \E o \in WorkerOutcomes, prints \in BOOLEAN : WorkerReturns(i, o, prints)
           \/ Blocks(i)
           \/ \E gate \in GateStates : ReplayReturns(i, gate) \/ RegateReturns(i, gate)
           \/ ReplayLosesSandbox(i) \/ RegateLosesSandbox(i)
    PROVE  GateKept(i)
<1>0. lab \in LabStates
  BY DEF StateTypes
<1>1. ASSUME NEW o \in WorkerOutcomes, NEW prints \in BOOLEAN, WorkerReturns(i, o, prints)
      PROVE  GateKept(i)
  <2>. DEFINE good == o.done /\ o.gate \in GoodGates
  <2>1. o.gate \in GateStates \cup {NoGate} /\ good \in BOOLEAN
    BY ResultsAreGates DEF WorkerOutcomes
  <2>2. lab' = Committed(lab, i, good, prints, o.gate)
    BY <1>1 DEF WorkerReturns
  <2>. HIDE DEF good
  <2>. QED
    BY <1>0, <2>1, <2>2, CommittedGate, CommittedMemory DEF GateKept
<1>2. CASE Blocks(i)
  <2>1. lab' = Committed(lab, i, FALSE, FALSE, NoGate)
    BY <1>2 DEF Blocks
  <2>2. \A k \in Ids : lab'.gates[k] = lab.gates[k]
    <3>1. Committed(lab, i, FALSE, FALSE, NoGate).gates = lab.gates
      BY <1>0 DEF Committed, Ledgered, LabStates
    <3>. QED
      BY <2>1, <3>1
  <2>3. /\ lab'.resume = lab.resume /\ lab'.resumable = lab.resumable
        /\ lab'.pending = lab.pending /\ lab'.executed = lab.executed
    <3>. DEFINE m == Committed(lab, i, FALSE, FALSE, NoGate)
    <3>1. /\ m.resume = lab.resume /\ m.resumable = lab.resumable
          /\ m.pending = lab.pending /\ m.executed = lab.executed
      BY <1>0, CommittedMemory
    <3>. HIDE DEF m
    <3>2. lab' = m
      BY <2>1 DEF m
    <3>. QED
      BY <3>1, <3>2
  <2>. QED
    BY <2>2, <2>3 DEF GateKept
<1>3. ASSUME NEW gate \in GateStates, ReplayReturns(i, gate) \/ RegateReturns(i, gate)
      PROVE  GateKept(i)
  <2>1. lab' = Recorded(lab, i, gate)
    BY <1>3 DEF ReplayReturns, RegateReturns
  <2>. QED
    BY <1>0, <2>1, RecordedGate, RecordedMemory DEF GateKept
<1>4. CASE ReplayLosesSandbox(i) \/ RegateLosesSandbox(i)
  <2>. DEFINE l == Recorded(lab, i, TestInvalid)
  <2>1. lab' = Downed(l)
    BY <1>4 DEF ReplayLosesSandbox, RegateLosesSandbox
  <2>2. /\ l \in LabStates
        /\ l.resume = lab.resume /\ l.resumable = lab.resumable
        /\ l.pending = lab.pending /\ l.executed = lab.executed
        /\ \A k \in Ids \ {i} : l.gates[k] = lab.gates[k]
    BY <1>0, RecordedType, RecordedGate, RecordedMemory
  <2>. HIDE DEF l
  <2>. QED
    BY <2>1, <2>2, DownedKeeps DEF GateKept
<1>. QED
  BY <1>1, <1>2, <1>3, <1>4

\* A step of the run that opened the session.
Polished ==
    /\ lab'.resumable = {} /\ lab'.pending = 0 /\ GatesWereRun(lab')
    /\ at' \in AtWave \cup {"judge", "regate"} => OwnWork(cur', lab')
    /\ at' \in AtWave /\ NewDispatch' => \A i \in cur'.todo : journal.gates[i] # Pass

LEMMA KeptIsPolished ==
    ASSUME lab.resumable = {}, lab.pending = 0, GatesWereRun(lab), LabKept,
           at' \notin AtWave, at' \notin {"judge", "regate"}
    PROVE  Polished
BY DEF LabKept, Polished, GatesWereRun

LEMMA AdvanceIsPolished ==
    ASSUME StateTypes, lab.resumable = {}, lab.pending = 0, GatesWereRun(lab),
           at = "advance" => journal.dispatched = 0, AdvanceSteps
    PROVE  Polished
<1>0. lab \in LabStates /\ lab.step \in Nat
  BY DEF StateTypes, LabStates
<1>1. CASE AdvanceStarts
  <2>1. /\ at' \in {"wrap_up", "step"} /\ at = "advance"
        /\ lab'.resumable = lab.resumable /\ lab'.gates = lab.gates
        /\ lab'.executed = lab.executed
    BY <1>0, <1>1 DEF AdvanceStarts, Goto, LabStates
  <2>2. lab'.pending = 0
    <3>1. journal.dispatched # lab.step + 1
      BY <1>0, <2>1
    <3>. QED
      BY <1>0, <1>1, <3>1 DEF AdvanceStarts, LabStates
  <2>. QED
    BY <2>1, <2>2 DEF Polished, GatesWereRun, AtWave
<1>2. CASE AdvanceEnds \/ StepDrivesDispatch
  <2>1. at' \in {"wrap_up", "dispatch"}
    BY <1>2 DEF AdvanceEnds, StepDrivesDispatch, Goto
  <2>. QED
    BY <1>2, <2>1, OthersKeepMemory, KeptIsPolished DEF AtWave
<1>3. CASE StepResumesDecision \/ StepResumesWork
  <2>1. lab.step + 1 = 0
    BY <1>3 DEF StepResumesDecision, StepResumesWork
  <2>. QED
    BY <1>0, <2>1
<1>. QED
  BY <1>1, <1>2, <1>3 DEF AdvanceSteps

LEMMA DispatchIsPolished ==
    ASSUME StateTypes, lab.resumable = {}, lab.pending = 0, GatesWereRun(lab),
           journal.gates = lab.gates, DispatchSteps
    PROVE  Polished
<1>. USE DEF Goto
<1>0. lab \in LabStates
  BY DEF StateTypes
<1>1. CASE DispatchHalts \/ DispatchLosesSandbox \/ DispatchEmpty \/ DispatchRefused
  <2>1. at' = "step_end"
    BY <1>1 DEF DispatchHalts, DispatchLosesSandbox, DispatchEmpty, DispatchRefused
  <2>. QED
    BY <1>1, <2>1, OthersKeepMemory, KeptIsPolished DEF AtWave
<1>2. ASSUME NEW asg \in SUBSET Ids, DispatchSubmits(asg)
      PROVE  Polished
  <2>. DEFINE run == RunOf(asg, lab.resumable, lab.executed, lab.gates, lab.tries)
              replay == ReplayedOf(asg, lab.resumable, lab.executed, lab.gates, lab.tries)
              executed == lab.executed \cup (asg \ lab.resumable)
  <2>1. /\ lab'.resumable = {} /\ lab'.pending = 0 /\ lab'.gates = lab.gates
        /\ lab'.executed = lab.executed \cup asg
    BY <1>0, <1>2 DEF DispatchSubmits, LabStates
  <2>2. GatesWereRun(lab')
    BY <2>1 DEF GatesWereRun
  <2>3. /\ run \subseteq asg /\ replay \subseteq asg
        /\ \A i \in run : i \in Ids /\ (i \in lab.executed => lab.gates[i] = Fail)
    BY DEF RunOf, ReplayedOf
  <2>4. \/ at' = "step_end"
        \/ cur' = Wave([NoStep EXCEPT !.asg = asg, !.replay = replay], run)
    BY ZenonT(30), <1>2 DEF DispatchSubmits
  <2>. HIDE DEF run, replay
  <2>5. at' = "step_end" \/ (OwnWork(cur', lab') /\ cur'.todo = run)
    <3>. DEFINE w == Wave([NoStep EXCEPT !.asg = asg, !.replay = replay], run)
    <3>1. w.asg = asg /\ w.todo = run /\ w.replay = replay /\ w.regate = {}
      BY DEF Wave, NoStep
    <3>. HIDE DEF w
    <3>2. OwnWork(w, lab')
      BY <2>1, <2>3, <3>1 DEF OwnWork
    <3>. QED  BY <2>4, <3>1, <3>2 DEF w
  <2>6. \A i \in run : journal.gates[i] # Pass
    <3>. SUFFICES ASSUME NEW i \in run, lab.gates[i] = Pass
                  PROVE  FALSE
      OBVIOUS
    <3>1. i \in lab.executed
      BY <2>3 DEF GatesWereRun
    <3>. QED
      BY <2>3, <3>1
  <2>. QED
    BY <2>1, <2>2, <2>5, <2>6 DEF Polished, AtWave
<1>. QED
  BY <1>1, <1>2 DEF DispatchSteps

\* The gate of an assignment that was handed out is recorded.
LEMMA GateRunIsPolished ==
    ASSUME lab.resumable = {}, lab.pending = 0, GatesWereRun(lab),
           NEW i \in lab.executed, GateKept(i)
    PROVE  lab'.resumable = {} /\ lab'.pending = 0 /\ GatesWereRun(lab')
BY DEF GateKept, GatesWereRun

LEMMA WaveIsPolished ==
    ASSUME StateTypes, lab.resumable = {}, lab.pending = 0, GatesWereRun(lab),
           OwnWork(cur, lab), cur.todo \cap cur.replay = {}, WaveSteps
    PROVE  Polished
<1>. USE DEF Goto
<1>0. lab \in LabStates /\ cur \in StepStates
  BY DEF StateTypes
<1>1. ~NewDispatch'
  BY WaveIsOnce, DispatchIsNoLine DEF WaveStep, NewDispatch
<1>2. ASSUME NEW i \in Ids,
             \/ \E o \in WorkerOutcomes, prints \in BOOLEAN : WorkerReturns(i, o, prints)
             \/ Blocks(i)
             \/ \E gate \in GateStates : ReplayReturns(i, gate)
             \/ ReplayLosesSandbox(i)
      PROVE  Polished
  <2>1. GateKept(i)
    BY <1>2, GateRunKeepsMemory
  <2>2. i \in lab.executed
    BY <1>2 DEF WorkerReturns, Blocks, ReplayReturns, ReplayLosesSandbox, OwnWork
  <2>3. /\ cur'.asg = cur.asg /\ cur'.regate = cur.regate
        /\ cur'.todo \subseteq cur.todo /\ cur'.replay \subseteq cur.replay
    <3>1. CASE (\E o \in WorkerOutcomes, prints \in BOOLEAN : WorkerReturns(i, o, prints))
               \/ Blocks(i)
      BY ZenonT(60), <1>0, <3>1 DEF WorkerReturns, Blocks, StepStates
    <3>2. CASE \E gate \in GateStates : ReplayReturns(i, gate)
      BY <1>0, <3>2 DEF ReplayReturns, StepStates
    <3>3. CASE ReplayLosesSandbox(i)
      BY <1>0, <3>3 DEF ReplayLosesSandbox, Break, StepStates
    <3>. QED
      BY <1>2, <3>1, <3>2, <3>3
  <2>4. OwnWork(cur', lab')
    BY <2>1, <2>3 DEF OwnWork, GateKept
  <2>. QED
    BY <1>1, <2>1, <2>2, <2>4, GateRunIsPolished DEF Polished
<1>3. CASE WaveEnds \/ ReplayEnds
  <2>1. LabKept
    BY <1>3, OthersKeepMemory
  <2>2. /\ cur'.asg = cur.asg /\ cur'.regate = cur.regate
        /\ cur'.todo = cur.todo /\ cur'.replay = cur.replay
    BY ZenonT(60), <1>0, <1>3 DEF WaveEnds, ReplayEnds, Break, StepStates
  <2>. QED
    BY <1>1, <2>1, <2>2 DEF LabKept, Polished, GatesWereRun, OwnWork
<1>. QED
  BY <1>2, <1>3, ResultsAreGates DEF WaveSteps

LEMMA JudgeIsPolished ==
    ASSUME StateTypes, lab.resumable = {}, lab.pending = 0, GatesWereRun(lab),
           OwnWork(cur, lab), JudgeSteps
    PROVE  Polished
<1>. USE DEF Goto
<1>0. lab \in LabStates /\ cur \in StepStates
  BY DEF StateTypes
<1>1. at' \in {"regate", "apply", "step_end"}
  BY DEF JudgeSteps, JudgeHalts, JudgeLosesSandbox, JudgeSubmits, RegateReturns,
         RegateLosesSandbox, RegateEnds
<1>2. CASE JudgeHalts \/ JudgeLosesSandbox \/ RegateEnds
  <2>1. at' \in {"apply", "step_end"}
    BY <1>2 DEF JudgeHalts, JudgeLosesSandbox, RegateEnds
  <2>. QED
    BY <1>2, <2>1, OthersKeepMemory, KeptIsPolished DEF AtWave
<1>3. ASSUME NEW decision \in Decisions, NEW rulesOk \in BOOLEAN,
             JudgeSubmits(decision, rulesOk)
      PROVE  Polished
  <2>1. LabKept
    BY <1>3, OthersKeepMemory
  <2>2. /\ cur'.asg = cur.asg /\ cur'.todo = cur.todo /\ cur'.replay = cur.replay
        /\ cur'.regate \in {cur.asg, cur.regate}
    BY <1>0, <1>3 DEF JudgeSubmits, StepStates
  <2>. QED
    BY <1>1, <2>1, <2>2 DEF LabKept, Polished, GatesWereRun, OwnWork, AtWave
<1>4. ASSUME NEW i \in Ids,
             (\E gate \in GateStates : RegateReturns(i, gate)) \/ RegateLosesSandbox(i)
      PROVE  Polished
  <2>1. GateKept(i)
    BY <1>4, GateRunKeepsMemory
  <2>2. i \in lab.executed
    BY <1>4 DEF RegateReturns, RegateLosesSandbox, OwnWork
  <2>3. /\ cur'.asg = cur.asg /\ cur'.todo = cur.todo /\ cur'.replay = cur.replay
        /\ cur'.regate \subseteq cur.regate
    BY ZenonT(60), <1>0, <1>4 DEF RegateReturns, RegateLosesSandbox, Break, StepStates
  <2>4. OwnWork(cur', lab')
    BY <2>1, <2>3 DEF OwnWork, GateKept
  <2>. QED
    BY <1>1, <2>1, <2>2, <2>4, GateRunIsPolished DEF Polished, AtWave
<1>. QED
  BY <1>2, <1>3, <1>4, ResultsAreGates DEF JudgeSteps

LEMMA RunIsPolished ==
    ASSUME DurableInv, OnceInv, PolishInv, RunSteps, ~lab'.resume, NoWorkYet
    PROVE  PolishInv'
<1>0. /\ StateTypes /\ RegateDecides /\ FlowInv /\ Ready /\ journal' = journal /\ Running
  BY RunStepsAreReady, RunStepsRun DEF DurableInv, FlowInv, TypeOK, StateTypes
<1>1. lab'.resume = lab.resume
  BY <1>0, RunStepsByPlace, EarlyIsQuiet, WorkIsQuiet, LateIsQuiet, HandoversRun DEF QuietStep
<1>2. Agrees(journal, lab)
  BY <1>0, ReadyAgrees
<1>3. at \in Middle => lab.resumable = {} /\ lab.pending = 0 /\ GatesWereRun(lab)
  BY <1>1 DEF PolishInv
<1>4. /\ at' \notin Opening
      /\ at' \in Early \cup {"advance"} => at \in Early
      /\ at' \in Middle => at \in Middle /\ Polished
  <2>1. CASE RememberSteps \/ SpecSteps
    <3>1. at \in Early /\ at' \in Early \cup {"advance", "wrap_up"}
      BY <2>1 DEF RememberSteps, RememberSkips, RememberDrives, RememberSubmits, RememberHalts,
         RememberLosesSandbox, SpecSteps, SpecSkips, SpecReused, SpecDrives, SpecSubmits,
         SpecHalts, SpecLosesSandbox, Goto, Early
    <3>2. at' \notin AtWave /\ at' \notin {"judge", "regate"} /\ at' \notin Opening /\ at \in Middle
      BY <3>1 DEF Early, AtWave, Opening, Middle, Places, Drives
    <3>. QED
      BY <1>0, <1>1, <1>3, <2>1, <3>1, <3>2, EarlyKeepsMemory, KeptIsPolished
  <2>2. CASE SummarySteps \/ WriteSummary \/ CloseSession
    <3>1. /\ at \in {"wrap_up", "summarize", "summary", "write_summary", "close"}
          /\ at' \in {"summarize", "summary", "write_summary", "pause", "close", "leave"}
          /\ at' \in Middle => at \in Middle
      BY <2>2 DEF SummarySteps, WrapUp, SummaryReused, SummaryDrives, SummarySubmits,
                  SummaryLosesSandbox, WriteSummary, CloseSession, Goto, Middle, Places, Drives
    <3>2. /\ at' \notin AtWave /\ at' \notin {"judge", "regate"} /\ at' \notin Opening
          /\ at' \notin Early \cup {"advance"}
      BY <3>1 DEF Early, AtWave, Opening
    <3>. QED
      BY <1>0, <1>3, <2>2, <3>1, <3>2, LateKeepsMemory, KeptIsPolished
  <2>3. CASE AdvanceSteps
    <3>1. /\ at \in {"advance", "step"}
          /\ at' \in {"wrap_up", "step", "dispatch", "apply", "wave", "replay_gates"}
      BY <1>0, <2>3, AdvanceIsQuiet DEF QuietStep, AdvanceSteps, AdvanceStarts, AdvanceEnds, StepGoesOn,
         StepDrivesDispatch, StepResumesDecision, StepResumesWork
    <3>2. at \in Middle /\ at' \notin Opening /\ at' \notin Early \cup {"advance"}
      BY <3>1 DEF Middle, Places, Drives, Opening, Early
    <3>3. at = "advance" => journal.dispatched = 0
      BY <1>1 DEF PolishInv
    <3>. QED
      BY <1>0, <1>3, <2>3, <3>2, <3>3, AdvanceIsPolished
  <2>4. CASE DispatchSteps
    <3>1. at = "dispatch" /\ at' \in {"step_end", "wave", "replay_gates"}
      BY <1>0, <2>4, DispatchIsQuiet DEF QuietStep
    <3>2. at \in Middle /\ at' \notin Opening /\ at' \notin Early \cup {"advance"}
      BY <3>1 DEF Middle, Places, Drives, Opening, Early
    <3>. QED
      BY <1>0, <1>2, <1>3, <2>4, <3>2, DispatchIsPolished DEF Agrees
  <2>5. CASE WaveSteps
    <3>1. /\ at \in AtWave
          /\ at' \in {"wave", "blocking", "takeover", "replay_gates", "judge", "step_end"}
      BY <1>0, <2>5, WaveIsQuiet DEF QuietStep, AtWave
    <3>2. at \in Middle /\ at' \notin Opening /\ at' \notin Early \cup {"advance"}
      BY <3>1 DEF AtWave, Middle, Places, Drives, Opening, Early
    <3>3. OwnWork(cur, lab) /\ cur.todo \cap cur.replay = {}
      BY <1>1, <3>1 DEF PolishInv, OnceInv
    <3>. QED
      BY <1>0, <1>3, <2>5, <3>2, <3>3, WaveIsPolished
  <2>6. CASE JudgeSteps
    <3>1. at \in {"judge", "regate"} /\ at' \in {"regate", "apply", "step_end"}
      BY <1>0, <2>6, JudgeIsQuiet DEF QuietStep
    <3>2. at \in Middle /\ at' \notin Opening /\ at' \notin Early \cup {"advance"}
      BY <3>1 DEF Middle, Places, Drives, Opening, Early
    <3>3. OwnWork(cur, lab)
      BY <1>1, <3>1 DEF PolishInv
    <3>. QED
      BY <1>0, <1>3, <2>6, <3>2, <3>3, JudgeIsPolished
  <2>7. CASE ApplySteps
    <3>1. /\ at \in {"apply", "takeover", "revise_spec", "step_end"}
          /\ at' \in {"takeover", "revise_spec", "step_end", "step", "wrap_up"}
      BY <2>7 DEF ApplySteps, ApplyFinish, ApplyTakeover, ApplyRevision, ApplyContinue,
                  BranchLosesSandbox, BranchHalts, TakeoverSubmits, ReviseSubmits, StepEnds, Goto
    <3>2. /\ at \in Middle /\ at' \notin Opening /\ at' \notin Early \cup {"advance"}
          /\ at' \notin AtWave /\ at' \notin {"judge", "regate"}
      BY <3>1 DEF Middle, Places, Drives, Opening, Early, AtWave
    <3>. QED
      BY <1>0, <1>3, <2>7, <3>2, ApplyKeepsMemory, KeptIsPolished
  <2>. QED
    BY <2>1, <2>2, <2>3, <2>4, <2>5, <2>6, <2>7 DEF RunSteps
<1>5. at' \in Early \cup {"advance"} => journal.dispatched = 0
  BY <1>1, <1>4 DEF PolishInv
<1>6. at' \in AtWave \cup {"judge", "regate"} => at' \in Middle
  BY DEF AtWave, Middle, Places, Drives
<1>. QED
  BY <1>0, <1>4, <1>5, <1>6 DEF PolishInv, Polished

LEMMA PolishNext ==
    ASSUME DurableInv, NoWorkYet, OnceInv, PolishInv, [Next]_vars
    PROVE  PolishInv' /\ (PolishesNothing \/ UNCHANGED journal)
<1>0. FlowInv
  BY DEF DurableInv
<1>1. CASE Persist
  BY <1>0, <1>1, PolishPersists
<1>2. CASE EnterLab
  <2>1. /\ at = "replayed" /\ at' \in {"remember", "wrap_up"} /\ writes' = <<>>
        /\ journal' = journal
        /\ lab'.resume = lab.resume /\ lab'.resumable = {} /\ lab'.pending = 0
        /\ lab'.gates = journal.gates
    BY <1>2 DEF EnterLab, Goto, Restored, Idle
  <2>2. /\ at' \notin Opening /\ at' \notin AtWave /\ at' \notin {"judge", "regate"}
        /\ at \in Opening
    BY <2>1 DEF Opening, AtWave
  <2>3. ~lab.resume => GatesWereRun(lab') /\ journal.dispatched = 0
    BY <2>1, <2>2 DEF PolishInv, Blank, GatesWereRun
  <2>. QED
    BY <2>1, <2>2, <2>3 DEF PolishInv
<1>3. CASE RunSteps
  <2>1. journal' = journal
    BY <1>3, RunStepsAreReady
  <2>. QED
    BY <1>3, <2>1, RunIsPolished DEF PolishInv
<1>4. CASE /\ at' \in {"off", "opening", "replayed"} /\ UNCHANGED <<journal, files, drift>>
           /\ at' = "off" \/ OpeningSteps
  <2>1. /\ at' \notin Middle /\ at' \notin AtWave
        /\ at' \notin Early \cup {"advance", "judge", "regate"}
    BY <1>4 DEF Middle, AtWave, Early
  <2>2. ~lab'.resume /\ at' \in Opening => Blank(journal)
    <3>1. CASE at' = "off"
      BY <3>1 DEF Opening
    <3>2. CASE NewRun
      BY <3>2 DEF NewRun, PolishInv
    <3>3. CASE \E instruction \in BOOLEAN : ResumeRun(instruction)
      <4>1. lab \in LabStates
        BY <1>0 DEF FlowInv, TypeOK
      <4>. QED
        BY <3>3, <4>1 DEF ResumeRun, LabStates
    <3>4. CASE BeginRun
      BY <3>4 DEF BeginRun, PolishInv, Opening
    <3>. QED
      BY <1>4, <3>1, <3>2, <3>3, <3>4 DEF OpeningSteps
  <2>. QED
    BY <1>4, <2>1, <2>2 DEF PolishInv
<1>5. CASE UNCHANGED <<journal, writes, files, at, lab, cur>>
  BY <1>5 DEF PolishInv, NewDispatch
<1>. QED
  BY <1>1, <1>2, <1>3, <1>4, <1>5, KindsOfSteps

\* For every set of assignments and all limits: the run that opened a session never
\* commits a dispatch that gives a worker an assignment whose gate passed.
THEOREM PassedWorkIsLeft == Spec => NoPolishing
<1>1. Init => OnceInv /\ PolishInv /\ NoWorkYet
  BY DEF Init, EmptyJournal, OnceInv, PolishInv, Blank, Running, Opening, Middle, AtWave,
         Early, NoWorkYet, AtWork
<1>2. DurableInv /\ NoWorkYet /\ OnceInv /\ PolishInv /\ [Next]_vars
        => OnceInv' /\ PolishInv' /\ NoWorkYet'
  BY OnceNext, PolishNext, NoWorkStep DEF DurableInv
<1>3. DurableInv /\ NoWorkYet /\ OnceInv /\ PolishInv /\ [Next]_vars
        => [~lab.resume /\ journal'.plan = journal.plan
              /\ journal'.dispatched # journal.dispatched
            => \A i \in journal'.run : journal.gates[i] # Pass]_<<journal, lab>>
  BY PolishNext DEF PolishesNothing
<1>. QED
  BY <1>1, <1>2, <1>3, DurableHolds, PTL DEF Spec, NoPolishing

-----------------------------------------------------------------------------
(* finish is earned in the run that decides it *)

\* What finish may be decided over.
Earned(j) ==
    \A i \in j.run \cup j.replay :
        j.briefs[i] # NoGate =>
            /\ j.gates[i] # Fail
            /\ j.gates[i] = TestInvalid => i \in Broken(j.tries)

\* Lines that leave a judged step as it was.
VerdictEvents == {e \in Events : e.kind \notin {"gate", "brief"}}

\* The brief of an assignment, or the one on its way, carries no gate.
Ungated(j, ws, i) ==
    \/ j.briefs[i] = NoGate
    \/ \E k \in 1 .. Len(ws) : ws[k].kind = "brief" /\ ws[k].id = i /\ ws[k].gate = NoGate

\* The gate to judge by is no better than that of the assignment.
Covered(i) == GateRank(lab.gates[i]) <= GateRank(cur.worst)

\* Places at which the step has no decision yet.
Undecided == Early \cup (Building \ {"apply", "step_end"})

\* The assignments whose gates are not in yet.
Ungathered == IF at = "regate" THEN cur.regate ELSE Unfinished

\* The gate to judge by has seen the gates of the step, but those still to come.
Gathers ==
    /\ cur.todo \cup cur.replay \subseteq cur.asg
    /\ \/ at \in AtWave /\ NewDispatch
       \/ /\ journal.run \cup journal.replay \subseteq cur.asg
          /\ \A i \in (journal.run \cup journal.replay) \ Ungathered :
                Ungated(journal, writes, i) \/ Covered(i)

\* A decision on its way is the one the step is going to apply.
Decides ==
    \/ writes = <<>> /\ (journal.judge = "finish" => cur.decision = "finish")
    \/ /\ writes = <<EvJudge(cur.decision)>> /\ journal.judge # "finish"
       /\ cur.decision = "finish" => Earned(journal)

\* Where the decision to finish comes from and what may follow it.
Finishes ==
    /\ journal.judge = "finish" => Earned(journal) /\ writes \in Seq(VerdictEvents)
    /\ at \in Undecided => journal.judge # "finish"
    /\ at = "apply" => Decides
    /\ at = "step_end" /\ journal.judge = "finish" => cur.signal = "break"
    /\ at \in AtWave \cup {"judge", "regate"} => Gathers

EarnedInv ==
    /\ at \in Middle \ {"apply"} => writes \in Seq(UnjudgedEvents)
    /\ Running /\ ~lab.resume => Finishes

LEMMA UngatedAfterOne ==
    ASSUME NEW j \in JournalStates, NEW ws \in Seq(InnerEvents), ws # <<>>, NEW i \in Ids,
           Head(ws).kind # "dispatch",
           Head(ws).kind = "brief" => j.briefs[Head(ws).id] = NoBrief,
           Ungated(j, ws, i)
    PROVE  Ungated(Fold(j, Head(ws)), Tail(ws), i)
<1>. DEFINE e == Head(ws)
<1>1. /\ e \in InnerEvents /\ e = ws[1]
      /\ j.briefs \in [Ids -> GateStates \cup {NoGate, NoBrief}]
  BY TailType DEF JournalStates
<1>2. Fold(j, e).briefs = IF e.kind = "brief" THEN [j.briefs EXCEPT ![e.id] = e.gate]
                          ELSE j.briefs
  BY <1>1, StepLineFold
<1>3. CASE j.briefs[i] = NoGate
  <2>1. e.kind = "brief" => e.id # i
    BY <1>3
  <2>. QED
    BY <1>1, <1>2, <1>3, <2>1 DEF Ungated
<1>4. ASSUME NEW k \in 1 .. Len(ws), ws[k].kind = "brief", ws[k].id = i, ws[k].gate = NoGate
      PROVE  Ungated(Fold(j, e), Tail(ws), i)
  <2>1. CASE k = 1
    BY <1>1, <1>2, <1>4, <2>1 DEF Ungated
  <2>2. CASE k # 1
    <3>1. k - 1 \in 1 .. Len(Tail(ws)) /\ Tail(ws)[k - 1] = ws[k]
      BY <2>2
    <3>. QED
      BY <1>4, <3>1 DEF Ungated
  <2>. QED
    BY <2>1, <2>2
<1>. QED
  BY <1>3, <1>4 DEF Ungated

LEMMA EarnedPersists ==
    ASSUME FlowInv, OnceInv, EarnedInv, Persist
    PROVE  EarnedInv'
<1>. DEFINE e == Head(writes)
<1>1. /\ journal \in JournalStates /\ writes # <<>> /\ journal' = Fold(journal, e)
      /\ writes' = Tail(writes) /\ UNCHANGED <<at, lab, cur>> /\ at \in Places
      /\ e \in Events /\ writes \in Seq(Events) /\ cur \in StepStates /\ lab \in LabStates
  BY PersistTypes DEF FlowInv, TypeOK, Persist
<1>2. /\ Running' = Running /\ AtWave \subseteq Middle /\ Unfinished' = Unfinished
      /\ Ungathered' = Ungathered
  BY <1>1 DEF Running, AtWave, Middle, Places, Drives, Unfinished, Ungathered
<1>3. at \in Middle \ {"apply"} => writes' \in Seq(UnjudgedEvents) /\ e.kind # "judge"
  <2>. SUFFICES ASSUME at \in Middle \ {"apply"}
                PROVE  writes' \in Seq(UnjudgedEvents) /\ e.kind # "judge"
    OBVIOUS
  <2>1. writes \in Seq(UnjudgedEvents)
    BY DEF EarnedInv
  <2>2. e \in UnjudgedEvents /\ writes' \in Seq(UnjudgedEvents)
    BY <1>1, <2>1, TailType
  <2>. QED
    BY <2>2 DEF UnjudgedEvents
<1>4. ASSUME Running, ~lab.resume
      PROVE  Finishes'
  <2>0. Finishes
    BY <1>4 DEF EarnedInv
  <2>1. writes \in Seq(VerdictEvents)
          => e.kind \notin {"gate", "brief"} /\ writes' \in Seq(VerdictEvents)
    BY <1>1, TailType DEF VerdictEvents
  <2>2. CASE at \in AtWave /\ NewDispatch
    <3>1. PICK asg \in SUBSET Ids, executed \in SUBSET Ids :
                 writes = <<EvDispatch(lab.step + 1, asg, cur.todo, cur.replay),
                            EvExecuted(executed)>>
      BY <2>2 DEF NewDispatch
    <3>. DEFINE n == lab.step + 1
    <3>2. n \in Nat /\ journal' = Fold(journal, EvDispatch(n, asg, cur.todo, cur.replay))
      BY <1>1, <3>1, TwoHaveATail DEF LabStates
    <3>. HIDE DEF n
    <3>3. journal'.judge = "none" /\ journal'.run = cur.todo /\ journal'.replay = cur.replay
      BY <1>1, <3>2, DispatchFold
    <3>4. /\ Ungathered = cur.todo \cup cur.replay
          /\ at \notin {"apply", "step_end"}
      BY <2>2 DEF Ungathered, Unfinished, AtWave
    <3>5. Gathers'
      BY <1>1, <1>2, <2>0, <2>2, <3>3, <3>4 DEF Finishes, Gathers
    <3>. QED
      BY <1>1, <3>3, <3>4, <3>5 DEF Finishes
  <2>3. CASE at = "apply"
    <3>1. /\ writes = <<EvJudge(cur.decision)>> /\ journal.judge # "finish"
          /\ cur.decision = "finish" => Earned(journal)
      BY <1>1, <2>0, <2>3 DEF Finishes, Decides
    <3>2. e = EvJudge(cur.decision) /\ writes' = <<>>
      BY <1>1, <3>1, OneHasNoTail
    <3>3. journal' = [journal EXCEPT !.judge = cur.decision]
      BY <1>1, <3>2, FoldLines DEF EvJudge
    <3>4. /\ journal'.judge = cur.decision
          /\ Earned(journal) => Earned(journal')
      BY <1>1, <3>3 DEF JournalStates, Earned
    <3>5. at \notin Undecided /\ at \notin AtWave \cup {"judge", "regate", "step_end"}
      BY <2>3 DEF Undecided, Early, Building, AtWork, AtWave
    <3>. QED
      BY <1>1, <2>3, <3>1, <3>2, <3>4, <3>5, WriteSeqs DEF Finishes, Decides
  <2>4. CASE at \in Middle \ {"apply"} /\ ~(at \in AtWave /\ NewDispatch)
    <3>. DEFINE S == Unbriefed(journal) \ Unfinished
    <3>1. /\ OneBrief(writes, S, lab.step)
          /\ writes \in Seq(InnerEvents) /\ e \in InnerEvents
      BY <1>1, <2>4, TailType DEF OnceInv, FlowInv, WritesInv
    <3>. HIDE DEF S
    <3>2. e.kind # "dispatch" /\ (e.kind = "brief" => e.id \in S)
      BY <1>1, <3>1, OneBriefTail
    <3>3. /\ journal'.run = journal.run /\ journal'.replay = journal.replay
          /\ e.kind # "brief" => journal'.briefs = journal.briefs
          /\ e.kind # "gate" => journal'.gates = journal.gates /\ journal'.tries = journal.tries
          /\ journal'.judge = journal.judge
      BY <1>1, <1>3, <2>4, <3>1, <3>2, StepLineFold
    <3>4. journal'.judge = "finish" => Earned(journal') /\ writes' \in Seq(VerdictEvents)
      BY <2>0, <2>1, <3>3 DEF Finishes, Earned
    <3>5. Gathers /\ at \in AtWave \cup {"judge", "regate"} => Gathers'
      <4>. SUFFICES ASSUME Gathers, at \in AtWave \cup {"judge", "regate"}
                    PROVE  Gathers'
        OBVIOUS
      <4>1. ASSUME NEW i \in Ids, Ungated(journal, writes, i)
            PROVE  Ungated(journal', writes', i)
        <5>1. e.kind = "brief" => journal.briefs[e.id] = NoBrief
          BY <3>2 DEF S, Unbriefed
        <5>. QED
          BY <1>1, <3>1, <3>2, <4>1, <5>1, UngatedAfterOne
      <4>2. journal.run \cup journal.replay \subseteq Ids
        BY <1>1 DEF JournalStates
      <4>3. \A i : Covered(i)' <=> Covered(i)
        BY <1>1 DEF Covered
      <4>. QED
        BY <1>1, <1>2, <2>4, <3>3, <4>1, <4>2, <4>3 DEF Gathers
    <3>. QED
      BY <1>1, <2>0, <2>4, <3>3, <3>4, <3>5 DEF Finishes
  <2>5. CASE at \notin Middle
    <3>1. at \in {"close", "leave"}
      BY <1>1, <1>4, <2>5 DEF Middle, Running
    <3>2. e = FileSummary \/ \E v \in Verdicts : e = EvClosed(v)
      BY <1>1, <3>1 DEF FlowInv, WritesInv
    <3>3. /\ journal'.run = journal.run /\ journal'.replay = journal.replay
          /\ journal'.briefs = journal.briefs /\ journal'.judge = journal.judge
          /\ journal'.gates = journal.gates /\ journal'.tries = journal.tries
      BY <1>1, <3>2, SessionLineFold
    <3>4. journal'.judge = "finish" => Earned(journal') /\ writes' \in Seq(VerdictEvents)
      BY <2>0, <2>1, <3>3 DEF Finishes, Earned
    <3>5. /\ at \notin Undecided /\ at \notin AtWave
          /\ at \notin {"judge", "regate", "step_end", "apply"}
      BY <3>1 DEF Undecided, Early, Building, AtWork, AtWave
    <3>. QED
      BY <1>1, <3>4, <3>5 DEF Finishes
  <2>. QED
    BY <1>2, <2>2, <2>3, <2>4, <2>5
<1>. QED
  BY <1>1, <1>2, <1>3, <1>4 DEF EarnedInv

\* A step that is not decided is begun, goes on or is given up.
LEMMA UndecidedStays ==
    ASSUME journal.judge # "finish", journal' = journal, at' # "apply",
           at' \in AtWave \cup {"judge", "regate"} => Gathers'
    PROVE  Finishes'
BY DEF Finishes

LEMMA WorseRanks ==
    \A g, h \in GateStates \cup {NoGate} :
        /\ GateRank(g) <= GateRank(Worse(g, h))
        /\ GateRank(h) <= GateRank(Worse(g, BriefGate(h)))
        /\ GateRank(g) <= GateRank(Worse(g, BriefGate(h)))
        /\ GateRank(g) <= GateRank(WorstGate({g}))
BY DEF Worse, WorstGate, GateRank, BriefGate

LEMMA RanksAreInts == \A g : GateRank(g) \in Int
BY DEF GateRank

\* One more gate is in, and the gate to judge by has seen it.
LEMMA GathersOn ==
    ASSUME Gathers, Ready, ~(at \in AtWave /\ NewDispatch), NEW i \in Ids,
           journal' = journal, journal \in JournalStates,
           \A k \in Ids \ {i} : lab'.gates[k] = lab.gates[k],
           cur'.asg = cur.asg, cur'.todo \subseteq cur.todo, cur'.replay \subseteq cur.replay,
           Ungathered \ {i} \subseteq Ungathered',
           GateRank(cur.worst) <= GateRank(cur'.worst),
           Ungated(journal, writes', i) \/ GateRank(lab'.gates[i]) <= GateRank(cur'.worst)
    PROVE  Gathers'
<1>1. journal.run \cup journal.replay \subseteq Ids
  BY DEF JournalStates
<1>2. ASSUME NEW k \in (journal.run \cup journal.replay) \ Ungathered', k # i
      PROVE  Ungated(journal, writes', k) \/ GateRank(lab'.gates[k]) <= GateRank(cur'.worst)
  <2>1. Ungated(journal, writes, k) \/ Covered(k)
    BY <1>2 DEF Gathers
  <2>2. lab'.gates[k] = lab.gates[k]
    BY <1>1, <1>2
  <2>3. Ungated(journal, writes, k) => Ungated(journal, writes', k)
    BY DEF Ungated, Ready
  <2>4. Covered(k) => GateRank(lab'.gates[k]) <= GateRank(cur'.worst)
    BY <2>2, RanksAreInts DEF Covered
  <2>. QED
    BY <2>1, <2>3, <2>4
<1>3. \A k \in (journal.run \cup journal.replay) \ Ungathered' :
          Ungated(journal, writes', k) \/ GateRank(lab'.gates[k]) <= GateRank(cur'.worst)
  BY <1>2
<1>. QED
  BY <1>3 DEF Gathers, Covered

\* The brief that such lines end in is one of them.
LEMMA BriefAtTheEnd ==
    ASSUME NEW ws, NEW n, NEW i, NEW g, EndsInBrief(ws, n, i, g)
    PROVE  \E k \in 1 .. Len(ws) : ws[k].kind = "brief" /\ ws[k].id = i /\ ws[k].gate = g
<1>. DEFINE b == EvBrief(i, g)
<1>1. PICK s \in Seq(StepLines(n)) : ws = s \o <<b>>
  BY DEF EndsInBrief
<1>2. b.kind = "brief" /\ b.id = i /\ b.gate = g
  BY DEF EvBrief
<1>. HIDE DEF b
<1>3. Len(s) \in Nat /\ Len(ws) = Len(s) + 1 /\ ws[Len(s) + 1] = b
  BY <1>1
<1>4. Len(s) + 1 \in 1 .. Len(ws)
  BY <1>3
<1>. QED
  BY <1>2, <1>3, <1>4

LEMMA WaveGathers ==
    ASSUME StateTypes, journal \in JournalStates, journal' = journal, Gathers, Ready,
           at = "replay_gates" => cur.todo = {}, WaveSteps,
           at' \in AtWave \cup {"judge", "regate"}
    PROVE  Gathers'
<1>. USE DEF Goto
<1>0. /\ lab \in LabStates /\ cur \in StepStates /\ ~NewDispatch
      /\ cur.worst \in GateStates \cup {NoGate}
  BY DEF StateTypes, NewDispatch, Ready, StepStates
<1>1. ASSUME NEW i \in Ids, NEW o \in WorkerOutcomes, NEW prints \in BOOLEAN,
             WorkerReturns(i, o, prints)
      PROVE  Gathers'
  <2>. DEFINE good == o.done /\ o.gate \in GoodGates
              g == o.gate
  <2>1. g \in GateStates \cup {NoGate} /\ good \in BOOLEAN
    BY ResultsAreGates DEF WorkerOutcomes
  <2>2. /\ at = "wave" /\ at' = "wave"
        /\ lab' = Committed(lab, i, good, prints, g)
        /\ writes' = CommitWrites(lab, i, good, prints, g)
    BY <1>1 DEF WorkerReturns
  <2>3. /\ cur'.asg = cur.asg /\ cur'.todo = cur.todo \ {i} /\ cur'.replay = cur.replay
        /\ cur'.worst = Worse(cur.worst, BriefGate(g))
    BY <1>0, <1>1 DEF WorkerReturns, StepStates
  <2>4. Ungathered \ {i} \subseteq Ungathered'
    BY <2>2, <2>3 DEF Ungathered, Unfinished, AtWave
  <2>. HIDE DEF good, g
  <2>5. \A k \in Ids : lab'.gates[k] = IF k = i /\ g # NoGate THEN g ELSE lab.gates[k]
    BY <1>0, <2>1, <2>2, CommittedGate
  <2>6. EndsInBrief(writes', lab.step, i, g)
    BY <1>0, <2>1, <2>2, CommitLinesOnce
  <2>7. g = NoGate => Ungated(journal, writes', i)
    BY <2>6, BriefAtTheEnd DEF Ungated
  <2>8. /\ GateRank(cur.worst) <= GateRank(cur'.worst)
        /\ GateRank(g) <= GateRank(cur'.worst)
    BY <1>0, <2>1, <2>3, WorseRanks
  <2>. QED
    BY <1>0, <2>3, <2>4, <2>5, <2>7, <2>8, GathersOn
<1>2. ASSUME NEW i \in Ids, Blocks(i)
      PROVE  Gathers'
  <2>1. /\ at \in AtWave /\ at' \in AtWave
        /\ lab' = Committed(lab, i, FALSE, FALSE, NoGate)
        /\ writes' = CommitWrites(lab, i, FALSE, FALSE, NoGate)
    BY <1>2 DEF Blocks, AtWave
  <2>2. /\ cur'.asg = cur.asg /\ cur'.todo = cur.todo \ {i} /\ cur'.replay = cur.replay
        /\ cur'.worst = Worse(cur.worst, NoHard)
    BY <1>0, <1>2 DEF Blocks, StepStates
  <2>3. Ungathered \ {i} \subseteq Ungathered'
    BY <2>1, <2>2 DEF Ungathered, Unfinished, AtWave
  <2>4. lab'.gates = lab.gates
    BY <1>0, <2>1 DEF Committed, Ledgered, LabStates
  <2>5. Ungated(journal, writes', i)
    <3>1. EndsInBrief(CommitWrites(lab, i, FALSE, FALSE, NoGate), lab.step, i, NoGate)
      BY <1>0, CommitLinesOnce
    <3>2. EndsInBrief(writes', lab.step, i, NoGate)
      BY <2>1, <3>1
    <3>. QED
      BY <3>2, BriefAtTheEnd DEF Ungated
  <2>6. GateRank(cur.worst) <= GateRank(cur'.worst)
    BY <1>0, <2>2, WorseRanks
  <2>. QED
    BY <1>0, <2>2, <2>3, <2>4, <2>5, <2>6, GathersOn
<1>3. ASSUME NEW i \in Ids, NEW gate \in GateStates, ReplayReturns(i, gate)
      PROVE  Gathers'
  <2>1. /\ at \in AtWave /\ at' \in AtWave /\ lab' = Recorded(lab, i, gate)
    BY <1>3 DEF ReplayReturns, AtWave
  <2>2. /\ cur'.asg = cur.asg /\ cur'.todo = cur.todo /\ cur'.replay = cur.replay \ {i}
        /\ cur'.worst = Worse(cur.worst, gate)
    BY <1>0, <1>3 DEF ReplayReturns, StepStates
  <2>3. Ungathered \ {i} \subseteq Ungathered'
    BY <2>1, <2>2 DEF Ungathered, Unfinished, AtWave
  <2>4. \A k \in Ids : lab'.gates[k] = IF k = i THEN gate ELSE lab.gates[k]
    BY <1>0, <2>1, RecordedGate
  <2>5. BriefGate(gate) = gate
    BY DEF BriefGate
  <2>6. /\ GateRank(cur.worst) <= GateRank(cur'.worst)
        /\ GateRank(lab'.gates[i]) <= GateRank(cur'.worst)
    BY <1>0, <2>2, <2>4, <2>5, WorseRanks
  <2>. QED
    BY <1>0, <2>2, <2>3, <2>4, <2>6, GathersOn
<1>4. CASE WaveEnds \/ ReplayEnds
  <2>1. LabKept
    BY <1>4, OthersKeepMemory
  <2>2. /\ cur'.asg = cur.asg /\ cur'.todo = cur.todo /\ cur'.replay = cur.replay
        /\ cur'.worst \in {cur.worst, WorstGate({cur.worst})}
    BY <1>0, <1>4 DEF WaveEnds, ReplayEnds, Break, StepStates
  <2>3. Ungathered \subseteq Ungathered'
    <3>1. CASE WaveEnds
      BY <2>2, <3>1 DEF WaveEnds, Ungathered, Unfinished, AtWave
    <3>2. CASE ReplayEnds
      BY <3>2 DEF ReplayEnds, Ungathered, Unfinished, AtWave
    <3>. QED
      BY <1>4, <3>1, <3>2
  <2>4. GateRank(cur.worst) <= GateRank(cur'.worst)
    <3>1. GateRank(cur.worst) <= GateRank(WorstGate({cur.worst}))
      BY <1>0, WorseRanks
    <3>2. GateRank(cur.worst) <= GateRank(cur.worst)
      BY RanksAreInts
    <3>3. CASE cur'.worst = cur.worst
      BY <3>2, <3>3
    <3>4. CASE cur'.worst = WorstGate({cur.worst})
      BY <3>1, <3>4
    <3>. QED
      BY <2>2, <3>3, <3>4
  <2>5. ASSUME NEW k \in (journal.run \cup journal.replay) \ Ungathered'
        PROVE  Ungated(journal, writes', k) \/ GateRank(lab'.gates[k]) <= GateRank(cur'.worst)
    <3>1. Ungated(journal, writes, k) \/ Covered(k)
      BY <1>0, <2>3 DEF Gathers
    <3>2. Ungated(journal, writes, k) => Ungated(journal, writes', k)
      BY DEF Ungated, Ready
    <3>. QED
      BY <2>1, <2>4, <3>1, <3>2, RanksAreInts DEF Covered, LabKept
  <2>. QED
    BY <1>0, <2>2, <2>5 DEF Gathers, Covered
<1>5. ASSUME NEW i \in Ids, ReplayLosesSandbox(i)
      PROVE  FALSE
  BY <1>5 DEF ReplayLosesSandbox, AtWave
<1>. QED
  BY <1>1, <1>2, <1>3, <1>4, <1>5, ResultsAreGates DEF WaveSteps

LEMMA DispatchGathers ==
    ASSUME DurableInv, OnceInv, Running, UNCHANGED journal, DispatchSteps,
           at' \in AtWave \cup {"judge", "regate"}
    PROVE  Gathers'
<1>1. CASE DispatchHalts \/ DispatchLosesSandbox \/ DispatchEmpty \/ DispatchRefused
  BY <1>1 DEF DispatchHalts, DispatchLosesSandbox, DispatchEmpty, DispatchRefused, Goto, AtWave
<1>2. ASSUME NEW asg \in SUBSET Ids, DispatchSubmits(asg)
      PROVE  Gathers'
  BY <1>2, DispatchIsNew DEF Gathers, AtWave
<1>. QED
  BY <1>1, <1>2 DEF DispatchSteps

\* A finish that is let through stands on gates that were seen.
LEMMA FinishStandsOnGates ==
    ASSUME journal \in JournalStates, StateTypes, Agrees(journal, lab), Ready,
           journal.run \cup journal.replay \subseteq cur.asg,
           \A i \in journal.run \cup journal.replay : Ungated(journal, writes, i) \/ Covered(i),
           NEW gate \in GateStates \cup {NoGate},
           GateRank(cur.worst) <= GateRank(gate),
           NEW d \in Decisions, Decided(lab, d, gate) = "finish"
    PROVE  Earned(journal)
<1>1. /\ lab.gates = journal.gates /\ lab.tries = journal.tries
      /\ journal.run \cup journal.replay \subseteq Ids
      /\ journal.gates \in [Ids -> GateStates \cup {NoGate}] /\ journal.tries \in [Ids -> Nat]
  BY DEF Agrees, JournalStates
<1>2. gate # Fail /\ (gate = TestInvalid => Unrunnable(lab.gates, lab.tries))
  BY DEF Decided, GateChecked
<1>3. GateRank(Fail) = 4 /\ GateRank(TestInvalid) = 3 /\ (gate \in {Pass, NoHard, NoGate} => GateRank(gate) <= 2)
  BY DEF GateRank
<1>4. ASSUME NEW i \in journal.run \cup journal.replay, journal.briefs[i] # NoGate
      PROVE  /\ journal.gates[i] # Fail
             /\ journal.gates[i] = TestInvalid => i \in Broken(journal.tries)
  <2>1. Covered(i)
    BY <1>4 DEF Ungated, Ready
  <2>2. GateRank(journal.gates[i]) <= GateRank(gate)
    BY <1>1, <2>1, RanksAreInts DEF Covered
  <2>3. GateRank(TestInvalid) = 3 /\ GateRank(gate) \in Int /\ GateRank(gate) <= 3
    BY <1>2, <1>3 DEF GateRank
  <2>4. journal.gates[i] # Fail
    BY <1>3, <2>2, <2>3
  <2>5. ASSUME journal.gates[i] = TestInvalid
        PROVE  i \in Broken(journal.tries)
    <3>1. gate = TestInvalid
      BY <1>2, <1>3, <2>2, <2>3, <2>5
    <3>2. i \in {k \in DOMAIN lab.gates : lab.gates[k] = TestInvalid}
      BY <1>1, <1>4, <2>5
    <3>. QED
      BY <1>1, <1>2, <3>1, <3>2 DEF Unrunnable
  <2>. QED
    BY <2>4, <2>5
<1>. QED
  BY <1>4 DEF Earned

\* The judge decides when no gate is still to come.
LEMMA DecisionStands ==
    ASSUME journal \in JournalStates, StateTypes, Agrees(journal, lab), Ready,
           Gathers, at \notin AtWave, Ungathered = {}, journal.judge # "finish",
           NEW gate \in GateStates \cup {NoGate}, GateRank(cur.worst) <= GateRank(gate),
           NEW d \in Decisions, journal' = journal, at' = "apply",
           writes' = <<EvJudge(Decided(lab, d, gate))>>,
           cur'.decision = Decided(lab, d, gate)
    PROVE  Finishes'
<1>1. /\ journal.run \cup journal.replay \subseteq cur.asg
      /\ \A i \in journal.run \cup journal.replay : Ungated(journal, writes, i) \/ Covered(i)
  BY DEF Gathers
<1>2. Decided(lab, d, gate) = "finish" => Earned(journal)
  BY <1>1, FinishStandsOnGates
<1>3. Decides'
  BY <1>2 DEF Decides
<1>4. at' \notin Undecided /\ at' \notin AtWave \cup {"judge", "regate", "step_end"}
  BY DEF Undecided, Early, Building, AtWork, AtWave
<1>. QED
  BY <1>3, <1>4 DEF Finishes

LEMMA JudgeFinishes ==
    ASSUME DurableInv, Finishes, JudgeSteps, at \in {"judge", "regate"}
    PROVE  Finishes'
<1>. USE DEF Goto
<1>0. /\ StateTypes /\ journal \in JournalStates /\ RegateDecides
      /\ lab \in LabStates /\ cur \in StepStates /\ cur.worst \in GateStates \cup {NoGate}
  BY DEF DurableInv, FlowInv, TypeOK, StateTypes, StepStates
<1>1. Ready /\ journal' = journal /\ Agrees(journal, lab)
  <2>1. RunSteps /\ Running
    BY DEF RunSteps, Running
  <2>. QED
    BY <2>1, RunStepsAreReady, ReadyAgrees
<1>2. /\ Gathers /\ journal.judge # "finish" /\ at \notin AtWave
      /\ at = "judge" => Ungathered = {}
      /\ at = "regate" => Ungathered = cur.regate
  BY DEF Finishes, Undecided, Building, AtWork, AtWave, Ungathered, Unfinished
<1>3. CASE \/ JudgeHalts \/ JudgeLosesSandbox
           \/ \E i \in Ids : RegateLosesSandbox(i)
  <2>1. at' = "step_end"
    BY <1>3 DEF JudgeHalts, JudgeLosesSandbox, RegateLosesSandbox
  <2>. QED
    BY <1>1, <1>2, <2>1, UndecidedStays DEF AtWave
<1>4. ASSUME NEW submitted \in Decisions, NEW rulesOk \in BOOLEAN,
             JudgeSubmits(submitted, rulesOk)
      PROVE  Finishes'
  <2>. DEFINE d == RulesChecked(submitted, rulesOk)
  <2>1. d \in Decisions /\ at = "judge"
    BY <1>4, DecisionType DEF JudgeSubmits
  <2>2. \/ /\ cur' = [cur EXCEPT !.decision = d, !.regate = cur.asg, !.worst = NoGate]
           /\ at' = "regate"
        \/ /\ cur' = [cur EXCEPT !.decision = Decided(lab, d, cur.worst)]
           /\ at' = "apply" /\ writes' = <<EvJudge(Decided(lab, d, cur.worst))>>
    BY <1>4 DEF JudgeSubmits
  <2>. HIDE DEF d
  <2>3. CASE at' = "regate"
    <3>1. cur' = [cur EXCEPT !.decision = d, !.regate = cur.asg, !.worst = NoGate]
      BY <2>2, <2>3
    <3>2. /\ cur'.asg = cur.asg /\ cur'.regate = cur.asg
          /\ cur'.todo = cur.todo /\ cur'.replay = cur.replay
      BY <1>0, <3>1 DEF StepStates
    <3>3. Ungathered' = cur.asg
      BY <2>3, <3>2 DEF Ungathered
    <3>4. Gathers'
      BY <1>1, <1>2, <3>2, <3>3 DEF Gathers
    <3>. QED
      BY <1>1, <1>2, <2>3, <3>4, UndecidedStays
  <2>4. CASE at' = "apply"
    <3>1. /\ writes' = <<EvJudge(Decided(lab, d, cur.worst))>>
          /\ cur' = [cur EXCEPT !.decision = Decided(lab, d, cur.worst)]
      BY <2>2, <2>4
    <3>2. cur'.decision = Decided(lab, d, cur.worst)
      BY <1>0, <3>1 DEF StepStates
    <3>3. GateRank(cur.worst) <= GateRank(cur.worst)
      BY RanksAreInts
    <3>. QED
      BY <1>0, <1>1, <1>2, <2>1, <2>4, <3>1, <3>2, <3>3, DecisionStands
  <2>. QED
    BY <2>2, <2>3, <2>4
<1>5. ASSUME NEW i \in Ids, NEW gate \in GateStates, RegateReturns(i, gate)
      PROVE  Finishes'
  <2>1. at = "regate" /\ at' = "regate" /\ lab' = Recorded(lab, i, gate)
    BY <1>5 DEF RegateReturns
  <2>2. /\ cur'.asg = cur.asg /\ cur'.todo = cur.todo /\ cur'.replay = cur.replay
        /\ cur'.regate = cur.regate \ {i} /\ cur'.worst = Worse(cur.worst, gate)
    BY <1>0, <1>5 DEF RegateReturns, StepStates
  <2>3. Ungathered \ {i} \subseteq Ungathered'
    BY <1>2, <2>1, <2>2 DEF Ungathered
  <2>4. \A k \in Ids : lab'.gates[k] = IF k = i THEN gate ELSE lab.gates[k]
    BY <1>0, <2>1, RecordedGate
  <2>5. BriefGate(gate) = gate
    BY DEF BriefGate
  <2>6. /\ GateRank(cur.worst) <= GateRank(cur'.worst)
        /\ GateRank(lab'.gates[i]) <= GateRank(cur'.worst)
    BY <1>0, <2>2, <2>4, <2>5, WorseRanks
  <2>7. Gathers'
    BY <1>0, <1>1, <1>2, <2>2, <2>3, <2>4, <2>6, GathersOn
  <2>. QED
    BY <1>1, <1>2, <2>1, <2>7, UndecidedStays
<1>6. CASE RegateEnds
  <2>. DEFINE gate == WorstGate({cur.worst})
              d == cur.decision
  <2>1. /\ at = "regate" /\ at' = "apply" /\ cur.regate = {}
        /\ writes' = <<EvJudge(Decided(lab, d, gate))>>
        /\ cur' = [cur EXCEPT !.decision = Decided(lab, d, gate), !.worst = gate]
    BY <1>6 DEF RegateEnds
  <2>2. d \in Decisions
    BY <1>0, <2>1 DEF RegateDecides
  <2>3. gate \in GateStates /\ GateRank(cur.worst) <= GateRank(gate)
    <3>1. gate \in GateStates
      BY DEF WorstGate
    <3>. QED
      BY <1>0, <3>1, WorseRanks
  <2>. HIDE DEF gate, d
  <2>4. cur'.decision = Decided(lab, d, gate)
    BY <1>0, <2>1 DEF StepStates
  <2>. QED
    BY <1>0, <1>1, <1>2, <2>1, <2>2, <2>3, <2>4, DecisionStands
<1>. QED
  BY <1>3, <1>4, <1>5, <1>6, ResultsAreGates DEF JudgeSteps

\* What goes by no gate and no brief.
LEMMA VerdictSeqs ==
    ASSUME NEW l \in LabStates
    PROVE  /\ <<>> \in Seq(VerdictEvents)
           /\ \A s \in Stages : EvStage(s, l.step) \in VerdictEvents
           /\ DownWrites(l) \in Seq(VerdictEvents)
           /\ <<EvSummary>> \in Seq(VerdictEvents) /\ <<FileSummary>> \in Seq(VerdictEvents)
           /\ \A v \in Verdicts : <<EvClosed(v)>> \in Seq(VerdictEvents)
<1>1. /\ EvDown \in VerdictEvents /\ EvSummary \in VerdictEvents
      /\ FileSummary \in VerdictEvents
      /\ \A v \in Verdicts : EvClosed(v) \in VerdictEvents
      /\ \A s \in Stages, n \in Nat : EvStage(s, n) \in VerdictEvents
  <2>1. \A s \in Stages, n \in Nat : EvStage(s, n) \in Events
    BY InnerConstructors DEF InnerEvents
  <2>2. \A v \in Verdicts : EvClosed(v) \in Events
    BY DEF Events, EvClosed
  <2>. QED
    BY <2>1, <2>2, EventsAreEvents
    DEF VerdictEvents, EvDown, EvSummary, FileSummary, EvClosed, EvStage
<1>2. l.step \in Nat
  BY DEF LabStates
<1>3. \A s \in Stages : EvStage(s, l.step) \in VerdictEvents
  BY <1>1, <1>2
<1>4. "summary" \in Stages
  BY DEF Stages
<1>5. DownWrites(l) \in Seq(VerdictEvents)
  BY <1>1, <1>3, <1>4, WriteSeqs DEF DownWrites
<1>. QED
  BY <1>1, <1>3, <1>5, WriteSeqs

\* A finish in the journal is the decision being applied, and ends the steps.
LEMMA ApplyFinishes ==
    ASSUME DurableInv, Finishes, ApplySteps,
           at \in {"apply", "takeover", "revise_spec", "step_end"}
    PROVE  Finishes'
<1>. USE DEF Goto
<1>0. /\ journal \in JournalStates /\ lab \in LabStates /\ cur \in StepStates
  BY DEF DurableInv, FlowInv, TypeOK
<1>1. Ready /\ journal' = journal
  <2>1. RunSteps
    BY DEF RunSteps
  <2>. QED
    BY <2>1, RunStepsAreReady
<1>2. at' \in {"takeover", "revise_spec", "step_end", "step", "wrap_up"}
  BY DEF ApplySteps, ApplyFinish, ApplyTakeover, ApplyRevision, ApplyContinue,
         BranchLosesSandbox, BranchHalts, TakeoverSubmits, ReviseSubmits, StepEnds
<1>3. CASE journal.judge # "finish"
  BY <1>1, <1>2, <1>3, UndecidedStays DEF AtWave
<1>4. CASE journal.judge = "finish"
  <2>1. at \in {"apply", "step_end"} /\ Earned(journal)
    BY <1>4 DEF Finishes, Undecided, Building, AtWork
  <2>2. at = "apply" => cur.decision = "finish"
    BY <1>1, <1>4 DEF Finishes, Decides, Ready
  <2>3. at = "step_end" => cur.signal = "break"
    BY <1>4 DEF Finishes
  <2>4. CASE at = "apply"
    <3>1. ApplyFinish \/ ApplyRevision
      BY <2>2, <2>4 DEF ApplySteps, ApplyTakeover, ApplyContinue, BranchLosesSandbox,
                        BranchHalts, TakeoverSubmits, ReviseSubmits, StepEnds
    <3>2. ~ApplyRevision
      BY <2>2, <2>4 DEF ApplyRevision, WantsRevision
    <3>3. at' = "step_end" /\ writes' = <<>> /\ cur'.signal = "break"
      BY <1>0, <3>1, <3>2 DEF ApplyFinish, Break, StepStates
    <3>. QED
      BY <1>0, <1>1, <2>1, <3>3, VerdictSeqs
      DEF Finishes, Undecided, Early, Building, AtWork, AtWave
  <2>5. CASE at = "step_end"
    <3>1. StepEnds
      BY <2>5 DEF ApplySteps, ApplyFinish, ApplyTakeover, ApplyRevision, ApplyContinue,
                  BranchLosesSandbox, BranchHalts, TakeoverSubmits, ReviseSubmits
    <3>. DEFINE l == StepCounted(lab)
    <3>2. /\ at' = "wrap_up"
          /\ writes' = <<EvStage(l.stage, l.step), EvStage("summary", l.step)>>
      BY <2>3, <2>5, <3>1 DEF StepEnds
    <3>3. l \in LabStates /\ l.stage \in Stages /\ "summary" \in Stages
      BY <1>0 DEF StepCounted, LabStates, Stages
    <3>. HIDE DEF l
    <3>4. writes' \in Seq(VerdictEvents)
      BY <3>2, <3>3, VerdictSeqs, WriteSeqs
    <3>. QED
      BY <1>1, <2>1, <3>2, <3>4 DEF Finishes, Undecided, Early, Building, AtWork, AtWave
  <2>. QED
    BY <2>1, <2>4, <2>5
<1>. QED
  BY <1>3, <1>4

LEMMA EndFinishes ==
    ASSUME StateTypes, Finishes, SummarySteps \/ WriteSummary \/ CloseSession
    PROVE  Finishes'
<1>. USE DEF Goto
<1>0. lab \in LabStates
  BY DEF StateTypes
<1>1. /\ journal' = journal
      /\ at' \in {"summarize", "summary", "write_summary", "pause", "close", "leave"}
  BY DEF SummarySteps, WrapUp, SummaryReused, SummaryDrives, SummarySubmits,
         SummaryLosesSandbox, WriteSummary, CloseSession
<1>2. writes' \in Seq(VerdictEvents)
  <2>1. Verdict(lab) \in Verdicts /\ "summary" \in Stages
    <3>1. SummaryGate(lab) \in GateStates
      BY <1>0, WorstGateType DEF SummaryGate, LabStates
    <3>. QED
      BY <3>1 DEF Verdict, Stages
  <2>2. \/ writes' \in {<<>>, <<EvStage("summary", lab.step)>>, <<EvSummary>>,
                        DownWrites(lab), <<FileSummary>>, <<EvClosed(Verdict(lab))>>}
    BY DEF SummarySteps, WrapUp, SummaryReused, SummaryDrives, SummarySubmits,
           SummaryLosesSandbox, WriteSummary, CloseSession
  <2>. QED
    BY <1>0, <2>1, <2>2, VerdictSeqs, WriteSeqs
<1>3. at' \notin Undecided /\ at' \notin AtWave \cup {"judge", "regate", "step_end", "apply"}
  BY <1>1 DEF Undecided, Early, Building, AtWork, AtWave
<1>. QED
  BY <1>1, <1>2, <1>3 DEF Finishes, Earned

LEMMA RunFinishes ==
    ASSUME DurableInv, NoWorkYet, OnceInv, PolishInv, JudgedInv, EarnedInv, RunSteps,
           ~lab.resume
    PROVE  Finishes'
<1>0. /\ StateTypes /\ journal \in JournalStates /\ RegateDecides /\ cur \in StepStates
      /\ lab \in LabStates
  BY DEF DurableInv, FlowInv, TypeOK, StateTypes
<1>1. Running /\ Ready /\ UNCHANGED journal
  BY RunStepsRun, RunStepsAreReady DEF DurableInv
<1>2. Finishes
  BY <1>1 DEF EarnedInv
<1>3. CASE RememberSteps \/ SpecSteps
  <2>1. /\ at \in Early
        /\ at' \in Early \cup {"wrap_up", "advance"}
    BY <1>3 DEF RememberSteps, RememberSkips, RememberDrives, RememberSubmits, RememberHalts,
       RememberLosesSandbox, SpecSteps, SpecSkips, SpecReused, SpecDrives, SpecSubmits,
       SpecHalts, SpecLosesSandbox, Goto, Early
  <2>. QED
    BY <1>1, <1>2, <2>1, UndecidedStays DEF Finishes, Undecided, Early, AtWave
<1>4. CASE SummarySteps \/ WriteSummary \/ CloseSession
  BY <1>0, <1>2, <1>4, EndFinishes
<1>5. CASE AdvanceSteps
  <2>1. at \in {"advance", "step"}
    BY <1>0, <1>5, AdvanceIsQuiet DEF QuietStep
  <2>2. journal.judge # "finish" /\ lab.pending = 0 /\ lab.step + 1 # 0
    BY <1>0, <1>2, <2>1 DEF Finishes, Undecided, Building, PolishInv, Middle, Places,
                            LabStates
  <2>3. ~StepResumesDecision /\ ~StepResumesWork
    BY <2>2 DEF StepResumesDecision, StepResumesWork
  <2>4. at' \in {"wrap_up", "step", "dispatch"}
    BY <1>5, <2>3 DEF AdvanceSteps, AdvanceStarts, AdvanceEnds, StepDrivesDispatch, Goto
  <2>. QED
    BY <1>1, <2>2, <2>4, UndecidedStays DEF AtWave
<1>6. CASE DispatchSteps
  <2>1. at = "dispatch" /\ at' \in {"step_end", "wave", "replay_gates"}
    BY <1>0, <1>6, DispatchIsQuiet DEF QuietStep
  <2>2. journal.judge # "finish"
    BY <1>2, <2>1 DEF Finishes, Undecided, Building, AtWork
  <2>. QED
    BY <1>1, <1>6, <2>1, <2>2, DispatchGathers, UndecidedStays
<1>7. CASE WaveSteps
  <2>1. /\ at \in AtWave
        /\ at' \in {"wave", "blocking", "takeover", "replay_gates", "judge", "step_end"}
    BY <1>0, <1>7, WaveIsQuiet DEF QuietStep, AtWave
  <2>2. journal.judge # "finish" /\ Gathers
    BY <1>2, <2>1 DEF Finishes, Undecided, Building, AtWork, AtWave
  <2>. QED
    BY <1>0, <1>1, <1>7, <2>1, <2>2, WaveGathers, UndecidedStays DEF JudgedInv
<1>8. CASE JudgeSteps
  <2>1. at \in {"judge", "regate"}
    BY <1>0, <1>8, JudgeIsQuiet DEF QuietStep
  <2>. QED
    BY <1>2, <1>8, <2>1, JudgeFinishes
<1>9. CASE ApplySteps
  <2>1. at \in {"apply", "takeover", "revise_spec", "step_end"}
    BY <1>9 DEF ApplySteps, ApplyFinish, ApplyTakeover, ApplyRevision, ApplyContinue,
                BranchLosesSandbox, BranchHalts, TakeoverSubmits, ReviseSubmits, StepEnds
  <2>. QED
    BY <1>2, <1>9, <2>1, ApplyFinishes
<1>. QED
  BY <1>3, <1>4, <1>5, <1>6, <1>7, <1>8, <1>9 DEF RunSteps

\* A decision is handed over on the way to applying it only.
LEMMA RunLeavesUnjudged ==
    ASSUME FlowInv, NoWorkYet, RunSteps
    PROVE  /\ at' \in Middle \ {"apply"} => writes' \in Seq(UnjudgedEvents)
           /\ lab'.resume = lab.resume
<1>0. StateTypes /\ RegateDecides
  BY DEF FlowInv, TypeOK, StateTypes
<1>1. CASE EarlySteps \/ WorkSteps \/ LateSteps
  <2>1. /\ writes' \in Seq(QuietEvents) \/ CommitsDispatch \/ CommitsDecision
        /\ lab'.resume = lab.resume
    BY <1>0, <1>1, EarlyIsQuiet, WorkIsQuiet, LateIsQuiet DEF QuietStep
  <2>. QED
    BY <2>1, UnjudgedSeqs DEF CommitsDecision
<1>2. CASE Handovers
  BY <1>0, <1>2, HandoversRun, HandoversJudgeNothing
<1>. QED
  BY <1>1, <1>2, RunStepsByPlace

LEMMA EarnedNext ==
    ASSUME DurableInv, NoWorkYet, OnceInv, PolishInv, JudgedInv, EarnedInv, [Next]_vars
    PROVE  EarnedInv'
<1>0. FlowInv
  BY DEF DurableInv
<1>1. CASE Persist
  BY <1>0, <1>1, EarnedPersists
<1>2. CASE EnterLab
  <2>1. /\ at = "replayed" /\ at' \in {"remember", "wrap_up"} /\ writes' = <<>>
        /\ journal' = journal /\ lab'.resume = lab.resume
    BY <1>2 DEF EnterLab, Goto, Restored, Idle
  <2>2. ~lab.resume => journal.judge # "finish"
    BY <2>1 DEF PolishInv, Opening, Blank
  <2>3. ~lab'.resume => Finishes'
    BY <2>1, <2>2, UndecidedStays DEF AtWave
  <2>. QED
    BY <2>1, <2>3, UnjudgedSeqs DEF EarnedInv
<1>3. CASE RunSteps
  BY <1>0, <1>3, RunFinishes, RunLeavesUnjudged DEF EarnedInv
<1>4. CASE at' \in {"off", "opening", "replayed"}
  BY <1>4 DEF EarnedInv, Running, Middle
<1>5. CASE UNCHANGED <<journal, writes, files, at, lab, cur>>
  BY <1>5 DEF EarnedInv, Running, Finishes, Earned, Decides, Gathers, NewDispatch,
              Ungathered, Unfinished, Ungated, Covered
<1>. QED
  BY <1>1, <1>2, <1>3, <1>4, <1>5, KindsOfSteps

\* For every set of assignments and all limits: when the run that opened a session
\* decides finish, no gate of the step failed, and one that could not run was given up.
THEOREM FinishIsEarnedByItsRun == Spec => []FinishIsEarnedAtOnce
<1>. DEFINE IInv == NoWorkYet /\ OnceInv /\ PolishInv /\ JudgedInv /\ EarnedInv
<1>1. Init => IInv
  BY DEF Init, EmptyJournal, OnceInv, PolishInv, JudgedInv, EarnedInv, Blank, Running,
         Opening, Middle, AtWave, Early, NoWorkYet, AtWork
<1>2. DurableInv /\ IInv /\ [Next]_vars => IInv'
  BY OnceNext, PolishNext, NoWorkStep, JudgedNext, EarnedNext DEF DurableInv
<1>3. IInv => FinishIsEarnedAtOnce
  BY DEF EarnedInv, Finishes, Earned, FinishIsEarnedAtOnce, FinishIsEarned
<1>. QED
  BY <1>1, <1>2, <1>3, DurableHolds, PTL DEF Spec
=============================================================================
