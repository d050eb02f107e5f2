------------------------------- MODULE Skills -------------------------------
(***************************************************************************)
(* The skills on disk, the edits a person asks for, and the one skill a    *)
(* lab binds (skills/repository.py, editor.py, tools/skill_tool.py, the    *)
(* two routes of server/app.py).                                           *)
(*                                                                         *)
(* A proposal reads the files, waits for the model and is shown.  One      *)
(* proposal is pending; the person confirms it by its id and a thread      *)
(* lands it, file by file, while other requests are served.  The contents  *)
(* of a file are known by the edit that wrote them.                        *)
(***************************************************************************)
EXTENDS Sequences, SequencesExt

CONSTANTS
    SkillNames,
    Edits,          \* edits of one process; their ids are different
    Renaming,       \* those whose SKILL.md carries the name of no directory
    Batches         \* operations that a proposal may have

Main == "SKILL.md"
Files == {Main, "reference"}

Original == "original"
Absent == "absent"
Torn == "torn"          \* truncated and not yet written
None == "none"

\* What an instance has to give.
SkillsAssumption ==
    /\ Edits \cap {Original, Absent, Torn, None} = {} /\ None \notin SkillNames
    /\ Batches \subseteq Seq([file : Files, action : STRING])

VARIABLES
    file,       \* the contents of each file of each skill
    pending,    \* _PENDING_EDIT
    edit,       \* requests for edits
    lab         \* the lab and its SkillBind

vars == <<file, pending, edit, lab>>

\* named: the person confirmed it; landings: times it was landed (for the properties).
NoEdit == [ at |-> "off", skill |-> None, batch |-> <<>>, todo |-> <<>>, named |-> FALSE,
            landings |-> 0 ]
NoLab == [on |-> FALSE, bound |-> None, kept |-> None]

Init ==
    /\ file = [s \in SkillNames |-> [f \in Files |-> Original]]
    /\ pending = None
    /\ edit = [e \in Edits |-> NoEdit]
    /\ lab = NoLab

-----------------------------------------------------------------------------
(* An edit *)

\* existing_skill_names goes by the name in the file.
Listed(s) == file[s][Main] \notin Renaming

Asks(e, s) ==
    /\ ~lab.on /\ edit[e].at = "off"
    /\ Listed(s)
    /\ edit' = [edit EXCEPT ![e].at = "thinking", ![e].skill = s]
    /\ UNCHANGED <<file, pending, lab>>

\* validate_operation
Valid(op) == op.action \in {"write", "delete"} /\ ~(op.action = "delete" /\ op.file = Main)

Over(e) == [edit EXCEPT ![e].at = "over", ![e].todo = <<>>]

\* A lab may have begun meanwhile; a proposal that is pending is replaced.
Proposes(e, batch) ==
    /\ edit[e].at = "thinking"
    /\ IF \A i \in DOMAIN batch : Valid(batch[i])
       THEN /\ edit' = [edit EXCEPT ![e].at = "shown", ![e].batch = batch]
            /\ pending' = e
       ELSE edit' = Over(e) /\ UNCHANGED pending
    /\ UNCHANGED <<file, lab>>

Landing(p, e) ==
    [edit EXCEPT ![e].named = TRUE, ![p].at = "landing", ![p].todo = edit[p].batch,
                 ![p].landings = edit[p].landings + 1]

\* Slips: any id confirms what is pending; the proposal is pending until it has landed.
ConfirmsAny(e, late) ==
    /\ edit[e].batch # <<>> /\ pending # None
    /\ pending' = None
    /\ edit' = IF late THEN Over(e) ELSE Landing(pending, e)
    /\ UNCHANGED <<file, lab>>

ConfirmsKeeping(e, late) ==
    /\ pending = e
    /\ edit[e].landings < 2
    /\ UNCHANGED pending
    /\ edit' = IF late THEN Over(e) ELSE Landing(pending, e)
    /\ UNCHANGED <<file, lab>>

\* edit_skill_apply names an id; too late, it is refused and forgotten.
Confirms(e, late) ==
    /\ pending = e
    /\ pending' = None
    /\ edit' = IF late THEN Over(e) ELSE Landing(pending, e)
    /\ UNCHANGED <<file, lab>>

Cancels(e) ==
    /\ pending = e
    /\ pending' = None
    /\ edit' = Over(e)
    /\ UNCHANGED <<file, lab>>

-----------------------------------------------------------------------------
(* apply_skill_operations, in its thread *)

Op(e) == Head(edit[e].todo)
Lands(e) == edit[e].at = "landing" /\ edit[e].todo # <<>>
Done(e) ==
    [edit EXCEPT ![e].todo = Tail(@), ![e].at = IF Len(edit[e].todo) = 1 THEN "over" ELSE @]

\* write_text opens the file, which empties it, and writes.
Opens(e) ==
    /\ Lands(e) /\ Op(e).action = "write"
    /\ file[edit[e].skill][Op(e).file] # Torn
    /\ file' = [file EXCEPT ![edit[e].skill][Op(e).file] = Torn]
    /\ UNCHANGED <<pending, edit, lab>>

Writes(e) ==
    /\ Lands(e) /\ Op(e).action = "write"
    /\ file[edit[e].skill][Op(e).file] = Torn
    /\ file' = [file EXCEPT ![edit[e].skill][Op(e).file] = e]
    /\ edit' = Done(e)
    /\ UNCHANGED <<pending, lab>>

Deletes(e) ==
    /\ Lands(e) /\ Op(e).action = "delete"
    /\ file' = [file EXCEPT ![edit[e].skill][Op(e).file] = Absent]
    /\ edit' = Done(e)
    /\ UNCHANGED <<pending, lab>>

\* The model or the disk fails: what was landed stays.
Fails(e) ==
    /\ edit[e].at \in {"thinking", "landing"}
    /\ edit' = Over(e)
    /\ UNCHANGED <<file, pending, lab>>

-----------------------------------------------------------------------------
(* The skill of a lab *)

\* Slip: a lab that is resumed has no skill.
BeginsUnbound(resume) ==
    /\ ~lab.on
    /\ lab' = [on |-> TRUE, bound |-> None, kept |-> IF resume THEN lab.kept ELSE None]
    /\ UNCHANGED <<file, pending, edit>>

\* _begin makes a new SkillBind; restore gives it the skill of the journal.
LabBegins(resume) ==
    /\ ~lab.on
    /\ lab' = LET kept == IF resume THEN lab.kept ELSE None
              IN  [on |-> TRUE, bound |-> kept, kept |-> kept]
    /\ UNCHANGED <<file, pending, edit>>

\* SkillBind.load
Loads(s) ==
    /\ lab.on /\ file[s][Main] # Absent
    /\ lab.bound \in {None, s}
    /\ lab' = [lab EXCEPT !.bound = s]
    /\ UNCHANGED <<file, pending, edit>>

\* _journal_stage: an event without a skill leaves the earlier one.
StageIsKept ==
    /\ lab.on
    /\ lab' = [lab EXCEPT !.kept = IF lab.bound = None THEN lab.kept ELSE lab.bound]
    /\ UNCHANGED <<file, pending, edit>>

LabStops ==
    /\ lab.on
    /\ lab' = [lab EXCEPT !.on = FALSE, !.bound = None]
    /\ UNCHANGED <<file, pending, edit>>

\* The process ends: proposals and threads with it.
Crash ==
    /\ pending' = None
    /\ edit' = [e \in Edits |-> IF edit[e].at = "off" THEN edit[e]
                                ELSE [edit[e] EXCEPT !.at = "over", !.todo = <<>>]]
    /\ lab' = [lab EXCEPT !.on = FALSE, !.bound = None]
    /\ UNCHANGED file

EditStep(e) ==
    \/ \E s \in SkillNames : Asks(e, s)
    \/ \E batch \in Batches : Proposes(e, batch)
    \/ \E late \in BOOLEAN : Confirms(e, late)
    \/ Cancels(e) \/ Opens(e) \/ Writes(e) \/ Deletes(e) \/ Fails(e)

Next ==
    \/ \E e \in Edits : EditStep(e)
    \/ \E resume \in BOOLEAN : LabBegins(resume)
    \/ \E s \in SkillNames : Loads(s)
    \/ StageIsKept \/ LabStops \/ Crash

Spec == Init /\ [][Next]_vars

-----------------------------------------------------------------------------
(* Properties *)

\* Every variable keeps its type.
TypeOK ==
    /\ file \in [SkillNames -> [Files -> Edits \cup {Original, Absent, Torn}]]
    /\ pending \in Edits \cup {None}
    /\ \A e \in Edits :
          /\ edit[e].at \in {"off", "thinking", "shown", "landing", "over"}
          /\ edit[e].skill \in SkillNames \cup {None}
          /\ edit[e].batch \in Batches \cup {<<>>} /\ IsSuffix(edit[e].todo, edit[e].batch)
    /\ lab \in [on : BOOLEAN, bound : SkillNames \cup {None}, kept : SkillNames \cup {None}]

\* What lands is what the person confirmed by its id, once, however requests and
\* landings overlap; and of a batch with an operation that is not allowed nothing
\* lands, so that no skill loses its SKILL.md.
OnlyWhatWasConfirmed ==
    /\ \A e \in Edits : edit[e].landings <= (IF edit[e].named THEN 1 ELSE 0)
    /\ \A s \in SkillNames : file[s][Main] # Absent

\* A lab has the skill that its journal names for as long as it runs, over stops,
\* crashes and resumes (skill_tool.py: at most one skill for a lab).
KeptSkillIsBound == lab.on /\ lab.kept # None => lab.bound = lab.kept
=============================================================================
