SPECIFICATION StoresSpec
CONSTANTS
    x1 = x1
    x2 = x2
    g1 = g1
    Groups = {g1}
    SameType <- AllPairs
    Facts = {x1, x2}
    MaxId = 4
    MaxNew = 1
    MaxMerged = 2
    MaxEdits = 1
    OrphanForgotten = FALSE
    c1 = c1
    c2 = c2
    s1 = s1
    i1 = i1
    IndexCards = {c1, c2}
    CardTexts = {x1, x2}
    Searches = {s1}
    Indexers = {i1}
    k1 = k1
    k2 = k2
    e1 = e1
    e2 = e2
    SkillNames = {k1, k2}
    SkillEdits = {e1, e2}
    Renaming = {e2}
    SkillBatches <- ThreeBatches
    RuleTexts = {x1, x2}
    MaxRules = 2
    MaxChanges = 3
    RememberOff = FALSE
SYMMETRY Symmetry
INVARIANTS
    FactsSurvive
    CompleteOrSaysSo
    OnlyWhatWasConfirmed
    KeptSkillIsBound
    RulingHolds
PROPERTIES
    NothingOverwritten
    ReconciledIndexMatches
CHECK_DEADLOCK FALSE
