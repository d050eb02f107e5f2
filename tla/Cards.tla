-------------------------------- MODULE Cards --------------------------------
(***************************************************************************)
(* The knowledge cards (memory/archive.py, dream.py): one Markdown file    *)
(* per card, and SQL rows that only serve to give out ids.  A card is      *)
(* created in a write transaction around the atomic write of its file;     *)
(* retiring deletes the file.  What a card says is a set of facts.         *)
(*                                                                         *)
(* Cards come from the archive of a lab, which may run in a thread, and    *)
(* from dream, which merges and retires them group by group and waits for  *)
(* the model in between.  Beside both, memory_forget retires cards in a    *)
(* thread and a person edits files.                                        *)
(***************************************************************************)
EXTENDS Integers, FiniteSets, Sequences, FiniteSetsExt

CONSTANTS
    Groups,         \* pairs of card_type and task_type
    SameType,       \* pairs of groups that have the card_type in common
    Facts,
    MaxId,          \* bound of the model: no card gets a larger id
    MaxNew,         \* bound of the model: cards a lab brings
    MaxMerged,      \* bound of the model: merges in one answer of the model
    MaxEdits,       \* bound of the model: edits by a person
    OrphanForgotten \* whether a card without a row may be forgotten during dream

Ids == 1 .. MaxId
Texts == [group : Groups, facts : (SUBSET Facts) \ {{}}]
Gone == [group |-> "gone", facts |-> {}]
Broken == [group |-> "broken", facts |-> {}]

ASSUME CardsAssumption ==
    /\ {MaxId, MaxNew, MaxMerged, MaxEdits} \subseteq Nat
    /\ OrphanForgotten \in BOOLEAN /\ SameType \subseteq Groups \X Groups
    /\ Groups \cap {"gone", "broken"} = {}

VARIABLES
    file,       \* the card files
    rows,       \* ids in archive_cards
    tx,         \* the write transaction that is open, or Idle
    archiving,  \* texts the archive has still to create
    dream,      \* run_dream
    edits,      \* edits so far
    owed        \* facts that were archived and not dropped on purpose (for the properties)

vars == <<file, rows, tx, archiving, dream, edits, owed>>

Idle == [by |-> "nobody", id |-> 0, card |-> Gone, sources |-> {}, wrote |-> FALSE]

\* cards: the snapshot; merged: merges of the answer at hand, with their sources;
\* retire: retire_ids of the answer at hand; all: all_retire.
NoDream == [ at |-> "off", cards |-> [c \in {} |-> Gone], groups |-> {}, merged |-> {}, retire |-> {},
             all |-> {} ]

Init ==
    /\ file = [c \in Ids |-> Gone]
    /\ rows = {}
    /\ tx = Idle
    /\ archiving = {}
    /\ dream = NoDream
    /\ edits = 0
    /\ owed = {}

Active == {c \in Ids : file[c] \in Texts}
Unreadable == \E c \in Ids : file[c] = Broken
FactsOf(cards, cs) == UNION {cards[c].facts : c \in cs}

-----------------------------------------------------------------------------
(* create_cards: one transaction for each card *)

\* A duplicate says the same and has the same card_type, in whatever group.
IsOnCard(text) ==
    \E c \in Active : file[c].facts = text.facts /\ <<file[c].group, text.group>> \in SameType

\* Slip: the id comes from the table alone.
IdOfTable == Max(rows \cup {0}) + 1

NewId == Max(Active \cup rows \cup {0}) + 1

\* BEGIN IMMEDIATE; the card is new: its id is taken.
TxBegins(by, text, sources) ==
    /\ tx = Idle
    /\ ~Unreadable /\ ~IsOnCard(text)
    /\ NewId <= MaxId
    /\ tx' = [by |-> by, id |-> NewId, card |-> text, sources |-> sources, wrote |-> FALSE]
    /\ UNCHANGED <<file, rows, archiving, dream, edits, owed>>

\* write_card_file
TxWrites ==
    /\ tx # Idle /\ ~tx.wrote
    /\ file' = [file EXCEPT ![tx.id] = tx.card]
    /\ tx' = [tx EXCEPT !.wrote = TRUE]
    /\ owed' = owed \cup (IF tx.by = "archive" THEN tx.card.facts ELSE {})
    /\ UNCHANGED <<rows, archiving, dream, edits>>

WithoutMerge(text, sources) ==
    [dream EXCEPT !.merged = @ \ {[card |-> text, sources |-> sources]}]

\* What the caller of create_cards does next.
Created(by, text, sources) ==
    IF by = "archive"
    THEN archiving' = archiving \ {text} /\ UNCHANGED dream
    ELSE dream' = WithoutMerge(text, sources) /\ UNCHANGED archiving

\* Slip: the sources of a merge are retired whether or not it was written.
RetiredAnyway(text, sources) == WithoutMerge(text, sources)

\* dream keeps the sources of a merge that gave no card.
SourcesKept(text, sources) == [WithoutMerge(text, sources) EXCEPT !.retire = @ \ sources]

\* The archive drops what it has left when a card fails.
NotCreated(by, text, sources, failed) ==
    IF by = "archive"
    THEN archiving' = (IF failed THEN {} ELSE archiving \ {text}) /\ UNCHANGED dream
    ELSE dream' = SourcesKept(text, sources) /\ UNCHANGED archiving

TxCommits ==
    /\ tx.wrote
    /\ rows' = rows \cup {tx.id}
    /\ tx' = Idle
    /\ Created(tx.by, tx.card, tx.sources)
    /\ UNCHANGED <<file, edits, owed>>

\* The file cannot be written, or the commit fails and leaves the file without
\* its row.
TxFails ==
    /\ tx # Idle
    /\ tx' = Idle
    /\ NotCreated(tx.by, tx.card, tx.sources, TRUE)
    /\ UNCHANGED <<file, rows, edits, owed>>

\* It is on a card already, or a file is no card.
TxRefuses(by, text, sources) ==
    /\ tx = Idle
    /\ Unreadable \/ IsOnCard(text)
    /\ NotCreated(by, text, sources, Unreadable)
    /\ UNCHANGED <<file, rows, tx, edits, owed>>

\* The busy timeout: another transaction is open for too long.
TxTimesOut(by, text, sources) ==
    /\ tx # Idle
    /\ NotCreated(by, text, sources, TRUE)
    /\ UNCHANGED <<file, rows, tx, edits, owed>>

Creates(by, text, sources) ==
    /\ tx.by # by
    /\ \/ TxBegins(by, text, sources) \/ TxRefuses(by, text, sources)
       \/ TxTimesOut(by, text, sources)

-----------------------------------------------------------------------------
(* The archive of a lab: LabSession._archive_create *)

ArchiveBegins(texts) ==
    /\ archiving = {} /\ ~Unreadable
    /\ \E t \in texts : ~IsOnCard(t)
    /\ archiving' = texts
    /\ UNCHANGED <<file, rows, tx, dream, edits, owed>>

ArchiveCreates == \E t \in archiving : Creates("archive", t, {})

-----------------------------------------------------------------------------
(* run_dream *)

GroupOf(cards, g) == {c \in DOMAIN cards : cards[c].group = g}

\* Groups of fewer than two cards are not judged.
DreamBegins ==
    /\ dream.at = "off" /\ ~Unreadable
    /\ LET cards == [c \in Active |-> file[c]]
           groups == {g \in Groups : Cardinality(GroupOf(cards, g)) >= 2}
       IN  /\ groups # {}
           /\ dream' = [NoDream EXCEPT !.at = "judging", !.cards = cards, !.groups = groups]
    /\ UNCHANGED <<file, rows, tx, archiving, edits, owed>>

\* The snapshot, as far as it is still read.
Unjudged(groups) ==
    [c \in {c \in DOMAIN dream.cards : dream.cards[c].group \in groups} |-> dream.cards[c]]

\* _judge_group: a merge has two sources or more of its group, which retire
\* with it.  The model is trusted: merges say all their sources said, and what
\* it retires besides is said elsewhere in its answer.
Merges(g) ==
    {[card |-> [group |-> g, facts |-> FactsOf(dream.cards, s)], sources |-> s] :
        s \in {s \in SUBSET GroupOf(dream.cards, g) : Cardinality(s) >= 2}}

Sources(ms) == UNION {m.sources : m \in ms}

\* What a group says is not lost with r.
Redundant(g, r) ==
    FactsOf(dream.cards, r) \subseteq FactsOf(dream.cards, GroupOf(dream.cards, g) \ r)

JudgeAnswers(g) ==
    /\ dream.at = "judging" /\ g \in dream.groups
    /\ \E k \in 0 .. MaxMerged : \E ms \in kSubset(k, Merges(g)) :
       \E r \in SUBSET (GroupOf(dream.cards, g) \ Sources(ms)) :
          /\ Redundant(g, r)
          /\ dream' = [dream EXCEPT !.at = "merging", !.groups = @ \ {g}, !.merged = ms,
                                    !.retire = r \cup Sources(ms),
                                    !.cards = Unjudged(dream.groups \ {g})]
    /\ UNCHANGED <<file, rows, tx, archiving, edits, owed>>

JudgeFails(g) ==
    /\ dream.at = "judging" /\ g \in dream.groups
    /\ dream' = [dream EXCEPT !.groups = @ \ {g}, !.cards = Unjudged(dream.groups \ {g})]
    /\ UNCHANGED <<file, rows, tx, archiving, edits, owed>>

DreamMerges ==
    /\ dream.at = "merging"
    /\ \E m \in dream.merged : Creates("dream", m.card, m.sources)

GroupIsDone ==
    /\ dream.at = "merging" /\ dream.merged = {}
    /\ dream' = [dream EXCEPT !.at = "judging", !.all = @ \cup dream.retire, !.retire = {}]
    /\ UNCHANGED <<file, rows, tx, archiving, edits, owed>>

DreamRetires ==
    /\ dream.at = "judging" /\ dream.groups = {} /\ dream.all # {}
    /\ LET c == Min(dream.all)
       IN  /\ file' = [file EXCEPT ![c] = Gone]
           /\ dream' = [dream EXCEPT !.all = @ \ {c}]
    /\ UNCHANGED <<rows, tx, archiving, edits, owed>>

DreamEnds ==
    /\ dream.at = "judging" /\ dream.groups = {} /\ dream.all = {}
    /\ dream' = NoDream
    /\ UNCHANGED <<file, rows, tx, archiving, edits, owed>>

-----------------------------------------------------------------------------
(* Others *)

\* retire_cards in the thread of memory_forget
Forget(c) ==
    /\ file[c] # Gone
    /\ dream.at # "off" /\ ~OrphanForgotten => c \in rows
    /\ file' = [file EXCEPT ![c] = Gone]
    /\ owed' = owed \ file[c].facts
    /\ UNCHANGED <<rows, tx, archiving, dream, edits>>

\* A person edits a card.
Edit(c, text) ==
    /\ file[c] \notin {Gone, text} /\ edits < MaxEdits
    /\ edits' = edits + 1
    /\ file' = [file EXCEPT ![c] = text]
    /\ owed' = owed \ (file[c].facts \ text.facts)
    /\ UNCHANGED <<rows, tx, archiving, dream>>

Crash ==
    /\ tx # Idle \/ archiving # {} \/ dream # NoDream
    /\ tx' = Idle /\ archiving' = {} /\ dream' = NoDream
    /\ UNCHANGED <<file, rows, edits, owed>>

Next ==
    \/ \E n \in 1 .. MaxNew : \E texts \in kSubset(n, Texts) : ArchiveBegins(texts)
    \/ ArchiveCreates \/ TxWrites \/ TxCommits \/ TxFails
    \/ DreamBegins \/ DreamMerges \/ GroupIsDone \/ DreamRetires \/ DreamEnds
    \/ \E g \in Groups : JudgeAnswers(g) \/ JudgeFails(g)
    \/ \E c \in Ids : Forget(c) \/ \E t \in Texts \cup {Broken} : Edit(c, t)
    \/ Crash

Spec == Init /\ [][Next]_vars

-----------------------------------------------------------------------------
(* Properties *)

\* Every variable keeps its type.
TypeOK ==
    /\ file \in [Ids -> Texts \cup {Gone, Broken}]
    /\ rows \subseteq Ids
    /\ tx \in [by : {"nobody", "archive", "dream"}, id : 0 .. MaxId,
               card : Texts \cup {Gone}, sources : SUBSET Ids, wrote : BOOLEAN]
    /\ archiving \subseteq Texts
    /\ dream.at \in {"off", "judging", "merging"}
    /\ DOMAIN dream.cards \subseteq Ids /\ \A c \in DOMAIN dream.cards : dream.cards[c] \in Texts
    /\ dream.groups \subseteq Groups
    /\ dream.merged \subseteq [card : Texts, sources : SUBSET Ids]
    /\ UNION {dream.retire, dream.all} \subseteq Ids
    /\ owed \subseteq Facts /\ edits \in 0 .. MaxEdits

\* However ids were lost before, by a crash between file and row or a file that
\* was deleted, a new card never replaces one that is there.
NothingOverwritten == [][TxWrites => file[tx.id] = Gone]_vars

\* A fact that was archived and that nobody forgot or edited away is on some
\* card, at every moment of a dream, and whatever fails in it.
FactsSurvive == owed \subseteq FactsOf(file, Ids)
=============================================================================
