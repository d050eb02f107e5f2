------------------------------- MODULE Stores -------------------------------
(***************************************************************************)
(* The four stores of a person: cards (Cards), vectors (MemoryIndex),      *)
(* skills (Skills) and rules (Rules).  They share no state, so nothing is  *)
(* learnt from their steps in turn: a behaviour works on one of them.      *)
(***************************************************************************)
EXTENDS Cards

CONSTANTS
    IndexCards, CardTexts, Searches, Indexers,
    SkillNames, SkillEdits, Renaming, SkillBatches,
    RuleTexts, MaxRules, MaxChanges, RememberOff

VARIABLES
    store,                                      \* the store at work
    cardText, vector, forgotten, lock, job,
    skillFile, pending, edit, skillLab,
    profile, changes, saved, applied, ruleLab, ruled, satisfied

Index == INSTANCE MemoryIndex WITH Cards <- IndexCards, Texts <- CardTexts, file <- cardText

Skill == INSTANCE Skills WITH Edits <- SkillEdits, Batches <- SkillBatches,
                              file <- skillFile, lab <- skillLab

Rule == INSTANCE Rules WITH Rules <- RuleTexts, MaxEdits <- MaxChanges,
                            edits <- changes, lab <- ruleLab

ASSUME StoresAssumption ==
    Index!IndexAssumption /\ Skill!SkillsAssumption /\ Rule!RulesAssumption

indexVars == <<cardText, vector, forgotten, lock, job>>
skillVars == <<skillFile, pending, edit, skillLab>>
ruleVars == <<profile, changes, saved, applied, ruleLab, ruled, satisfied>>
storeVars == <<store, vars, indexVars, skillVars, ruleVars>>

StoresInit ==
    /\ store \in {"cards", "index", "skills", "rules"}
    /\ Init /\ Index!Init /\ Skill!Init /\ Rule!Init
    /\ store # "rules" => profile = <<>>

CardsStep == store = "cards" /\ Next /\ UNCHANGED <<indexVars, skillVars, ruleVars>>
IndexStep == store = "index" /\ Index!Next /\ UNCHANGED <<vars, skillVars, ruleVars>>
SkillStep == store = "skills" /\ Skill!Next /\ UNCHANGED <<vars, indexVars, ruleVars>>
RuleStep == store = "rules" /\ Rule!Next /\ UNCHANGED <<vars, indexVars, skillVars>>

StoresNext == (CardsStep \/ IndexStep \/ SkillStep \/ RuleStep) /\ UNCHANGED store

StoresSpec == StoresInit /\ [][StoresNext]_storeVars

-----------------------------------------------------------------------------
(* The properties of the four modules *)

\* A search that reports no error has ranked every card nobody changed meanwhile.
CompleteOrSaysSo == Index!CompleteOrSaysSo

\* A reconciliation without an error leaves the vector of the current text.
ReconciledIndexMatches == Index!ReconciledIndexMatches

\* Only what a person confirmed lands, once, and no skill loses its SKILL.md.
OnlyWhatWasConfirmed == Skill!OnlyWhatWasConfirmed

\* The skill that the journal names is bound for as long as its lab runs.
KeptSkillIsBound == Skill!KeptSkillIsBound

\* What Remember-Judge ruled for a lab holds to its end.
RulingHolds == Rule!RulingHolds
=============================================================================
