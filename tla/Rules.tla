-------------------------------- MODULE Rules --------------------------------
(***************************************************************************)
(* The rules a person asked to remember (memory/profile.py) and those that *)
(* apply to a lab (runtime/lab/remember.py, remember of flow.py).  The     *)
(* profile may change at any time: by a request, by hand, into something   *)
(* that is no profile.  Remember-Judge rules once for a lab, by the index  *)
(* of each rule in the list it was shown; the judge of a step answers by   *)
(* the index in the list of the rules that apply.                          *)
(***************************************************************************)
EXTENDS Integers, Sequences, SequencesExt

CONSTANTS
    Rules,
    MaxRules,       \* bound of the model: rules in the profile
    MaxEdits,       \* bound of the model: changes of the profile
    RememberOff     \* EVAL_DISABLE_REMEMBER

Nothing == <<"nothing">>        \* no list: no REMEMBER.json, no profile

\* What an instance has to give.
RulesAssumption ==
    "nothing" \notin Rules /\ {MaxRules, MaxEdits} \subseteq Nat /\ RememberOff \in BOOLEAN

Lists == {<<>>} \cup {<<r>> : r \in Rules} \cup {<<r, q>> : r, q \in Rules}

VARIABLES
    profile,    \* style_rules of me.yaml, or Nothing when it cannot be read
    edits,      \* changes of the profile so far
    saved,      \* REMEMBER.json of the session
    applied,    \* _applied_rules of the runner
    lab,        \* where the lab is, the list its judge was shown, whether the stage that
                \* its journal names is the Summary (over)
    ruled,      \* the rules that the first ruling of the lab found to apply (for the properties)
    satisfied   \* the rules the last verdict found satisfied (for the properties)

vars == <<profile, edits, saved, applied, lab, ruled, satisfied>>

Unruled == [once |-> FALSE, rules |-> {}]
NoLab == [at |-> "off", resume |-> FALSE, shown |-> <<>>, over |-> FALSE]

Init ==
    /\ profile \in {Nothing, <<>>}
    /\ edits = 0
    /\ saved = Nothing /\ applied = Nothing
    /\ lab = NoLab
    /\ ruled = Unruled /\ satisfied = {}

-----------------------------------------------------------------------------
(* The profile *)

\* load_profile: what cannot be read is an empty profile.
Catalog == IF profile = Nothing THEN <<>> ELSE profile

\* append_rule reads, appends and writes in one step of the event loop.
AppendRule(r) ==
    /\ edits < MaxEdits /\ Len(Catalog) < MaxRules
    /\ profile' = Append(Catalog, r)
    /\ edits' = edits + 1
    /\ UNCHANGED <<saved, applied, lab, ruled, satisfied>>

\* By hand, or by update_field and add_field.
EditProfile(rules) ==
    /\ edits < MaxEdits /\ Len(rules) <= MaxRules
    /\ profile' = rules
    /\ edits' = edits + 1
    /\ UNCHANGED <<saved, applied, lab, ruled, satisfied>>

-----------------------------------------------------------------------------
(* Remember *)

\* A new lab has a session of its own.
LabBegins ==
    /\ lab.at = "off"
    /\ saved' = Nothing /\ applied' = Nothing
    /\ lab' = [NoLab EXCEPT !.at = "remember"]
    /\ ruled' = Unruled /\ satisfied' = {}
    /\ UNCHANGED <<profile, edits>>

\* A lab whose stage is the Summary goes there, without its rules; an instruction of
\* the person or changed products have taken it back to its spec.
LabResumes(toSummary) ==
    /\ lab.at = "off" /\ (toSummary => lab.over)
    /\ applied' = Nothing
    /\ lab' = [NoLab EXCEPT !.at = IF toSummary THEN "summary" ELSE "remember",
                            !.resume = TRUE, !.over = toSummary]
    /\ UNCHANGED <<profile, edits, saved, ruled, satisfied>>

FirstRuling(rules) == ruled' = IF ruled.once THEN ruled ELSE [once |-> TRUE, rules |-> rules]

\* The list of the lab, in memory and in its file.
Settles(rules, at) ==
    /\ applied' = rules /\ saved' = rules
    /\ FirstRuling(ToSet(rules))
    /\ lab' = [lab EXCEPT !.at = at]

\* Slip: a lab that is resumed rules again.
RulesAgain ==
    /\ lab.at = "remember"
    /\ IF RememberOff \/ Catalog = <<>>
       THEN Settles(<<>>, "working")
       ELSE /\ lab' = [lab EXCEPT !.at = "judging", !.shown = Catalog]
            /\ UNCHANGED <<saved, applied, ruled>>
    /\ UNCHANGED <<profile, edits, satisfied>>

Remembers ==
    /\ lab.at = "remember"
    /\ IF ~RememberOff /\ lab.resume /\ saved # Nothing
       THEN /\ applied' = saved
            /\ lab' = [lab EXCEPT !.at = "working"]
            /\ UNCHANGED <<saved, ruled>>
       ELSE IF RememberOff \/ Catalog = <<>>
       THEN Settles(<<>>, "working")
       ELSE /\ lab' = [lab EXCEPT !.at = "judging", !.shown = Catalog]
            /\ UNCHANGED <<saved, applied, ruled>>
    /\ UNCHANGED <<profile, edits, satisfied>>

\* _resolve: an index that the list has not names nothing.  A row without an index names
\* a rule by its text, which is that of a rule of the same list or of none.
Resolve(list, i) == IF i \in DOMAIN list THEN {list[i]} ELSE {}

\* applied_from_payload: the rules of the rows, each once, in the order of the rows.
AppliedFrom(list, rows) ==
    LET chosen[j \in 0 .. Len(rows)] ==
          IF j = 0 THEN <<>>
          ELSE IF rows[j] \in DOMAIN list /\ list[rows[j]] \notin ToSet(chosen[j - 1])
          THEN Append(chosen[j - 1], list[rows[j]])
          ELSE chosen[j - 1]
    IN  chosen[Len(rows)]

\* Slip: the index is looked up in the profile of now.
JudgeRulesLate(rows) ==
    /\ lab.at = "judging"
    /\ applied' = AppliedFrom(Catalog, rows) /\ saved' = applied'
    /\ FirstRuling(UNION {Resolve(lab.shown, rows[j]) : j \in DOMAIN rows})
    /\ lab' = [lab EXCEPT !.at = "working", !.over = FALSE]
    /\ UNCHANGED <<profile, edits, satisfied>>

\* rows: the indexes of the rows that apply.
JudgeRules(rows) ==
    /\ lab.at = "judging"
    /\ applied' = AppliedFrom(lab.shown, rows) /\ saved' = applied'
    /\ FirstRuling(UNION {Resolve(lab.shown, rows[j]) : j \in DOMAIN rows})
    /\ lab' = [lab EXCEPT !.at = "working", !.over = FALSE]
    /\ UNCHANGED <<profile, edits, satisfied>>

JudgeHalts ==
    /\ lab.at = "judging"
    /\ Settles(<<>>, "working")
    /\ UNCHANGED <<profile, edits, satisfied>>

-----------------------------------------------------------------------------
(* The judge of a step *)

\* rules_satisfied: every rule that applies is found satisfied.
RulesSatisfied(rows) ==
    ToSet(applied) \subseteq UNION {Resolve(applied, rows[j]) : j \in DOMAIN rows}

\* Slip: as many rows as rules will do.
EnoughRows(rows) == Len(rows) >= Len(applied)

MayFinish(rows) == RulesSatisfied(rows)

StepIsJudged(rows) ==
    /\ lab.at = "working"
    /\ satisfied' = UNION {Resolve(saved, rows[j]) : j \in DOMAIN rows}
    /\ lab' = IF MayFinish(rows) THEN [lab EXCEPT !.at = "finished"] ELSE lab
    /\ UNCHANGED <<profile, edits, saved, applied, ruled>>

\* The sandbox is lost while the judge thinks: the stage is the Summary until the
\* ruling is there.
SandboxLost ==
    /\ lab.at = "judging"
    /\ lab' = [lab EXCEPT !.over = TRUE]
    /\ UNCHANGED <<profile, edits, saved, applied, ruled, satisfied>>

SummaryBegins ==
    /\ lab.at \in {"working", "finished"}
    /\ lab' = [lab EXCEPT !.at = "summary", !.over = TRUE]
    /\ UNCHANGED <<profile, edits, saved, applied, ruled, satisfied>>

\* A stop, a failure that pauses the lab, or a crash; the list in memory goes with
\* the next run.
LabStops ==
    /\ lab.at # "off"
    /\ lab' = [NoLab EXCEPT !.over = lab.over]
    /\ UNCHANGED <<profile, edits, saved, applied, ruled, satisfied>>

\* inject_for_agent: what an agent is told to follow.  Without a profile it is told
\* nothing, not even the rules of the lab.
Injected == IF Catalog = <<>> THEN <<>> ELSE applied

Rows == {<<>>} \cup {<<i>> : i \in 0 .. MaxRules} \cup {<<i, j>> : i, j \in 1 .. MaxRules}

Next ==
    \/ \E r \in Rules : AppendRule(r)
    \/ \E rules \in Lists \cup {Nothing} : EditProfile(rules)
    \/ LabBegins \/ \E toSummary \in BOOLEAN : LabResumes(toSummary)
    \/ Remembers \/ JudgeHalts \/ SandboxLost \/ SummaryBegins \/ LabStops
    \/ \E rows \in Rows : JudgeRules(rows) \/ StepIsJudged(rows)

Spec == Init /\ [][Next]_vars

-----------------------------------------------------------------------------
(* Properties *)

\* Every variable keeps its type.
TypeOK ==
    /\ profile \in Lists \cup {Nothing} /\ edits \in 0 .. MaxEdits
    /\ saved \in Lists \cup {Nothing} /\ applied \in Lists \cup {Nothing}
    /\ lab \in [ at : {"off", "remember", "judging", "working", "finished", "summary"},
                 resume : BOOLEAN, shown : Lists, over : BOOLEAN ]
    /\ ruled \in [once : BOOLEAN, rules : SUBSET Rules] /\ satisfied \subseteq Rules

\* What was ruled for a lab holds to its end: the rules in memory and in its file are
\* those whose index the judge named in the list it was shown, also when the profile
\* changed while it thought or while the lab was stopped; and a lab finishes only
\* with each of them found satisfied.
RulingHolds ==
    /\ lab.at \in {"working", "finished"} =>
          applied = saved /\ ToSet(applied) = ruled.rules
    /\ lab.at = "finished" => ruled.rules \subseteq satisfied
=============================================================================
