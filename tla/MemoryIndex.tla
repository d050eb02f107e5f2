----------------------------- MODULE MemoryIndex -----------------------------
(***************************************************************************)
(* The vectors of the knowledge cards and the searches that use them       *)
(* (memory/retrieve.py, vectors.py, cards.py).  The card files are the     *)
(* facts; a vector is derived from the text of a file and kept with the    *)
(* fingerprint of that text.  Every search first reconciles the vectors    *)
(* with the files, under one lock of the process.                          *)
(*                                                                         *)
(* Files change at any time: the archive and dream write and retire cards, *)
(* memory_forget retires them in a thread, a person edits them.  A job     *)
(* gives way whenever it waits for the model; the thread of memory_forget  *)
(* runs beside it.                                                         *)
(***************************************************************************)
CONSTANTS
    Cards,      \* card ids
    Texts,      \* texts a card may have
    Searches,   \* searches that may be open at a time
    Indexers    \* calls of index_card_ids that may be open at a time

Gone == "gone"          \* no file, no vector
Broken == "broken"      \* a file that is no card
Foreign == "foreign"    \* a vector of another embedding space
Free == "free"

\* What an instance has to give.
IndexAssumption ==
    /\ Texts \cap {Gone, Broken, Foreign} = {}
    /\ Searches \cap Indexers = {} /\ Free \notin Searches \cup Indexers

VARIABLES
    file,       \* the text of each card file
    vector,     \* the text each vector was made of
    forgotten,  \* cards whose file memory_forget unlinked, the vector still there
    lock,       \* who holds _RECONCILE_LOCK
    job         \* searches and indexers

vars == <<file, vector, forgotten, lock, job>>

Jobs == Searches \cup Indexers

\* ranked: the texts of the cards that were ranked; untouched: the cards that
\* nobody changed since the search scanned them (kept for the properties).
NoWork == [ at |-> "off", todo |-> {}, card |-> Gone, text |-> Gone, errors |-> FALSE,
            ranked |-> <<>>, untouched |-> {} ]

Init ==
    /\ file = [c \in Cards |-> Gone]
    /\ vector = [c \in Cards |-> Gone]
    /\ forgotten = {}
    /\ lock = Free
    /\ job = [j \in Jobs |-> NoWork]

-----------------------------------------------------------------------------
(* Changes from outside *)

Touched(cs) == [j \in Jobs |-> [job[j] EXCEPT !.untouched = @ \ cs]]

\* A file is written, edited or deleted.
Change(c, t) ==
    /\ file[c] # t
    /\ file' = [file EXCEPT ![c] = t]
    /\ job' = Touched({c})
    /\ UNCHANGED <<vector, forgotten, lock>>

\* retire_cards_matching in its thread: first the file, later the vector.
ForgetUnlinks(c) ==
    /\ file[c] # Gone
    /\ file' = [file EXCEPT ![c] = Gone]
    /\ forgotten' = forgotten \cup {c}
    /\ job' = Touched({c})
    /\ UNCHANGED <<vector, lock>>

ForgetCleans(c) ==
    /\ c \in forgotten
    /\ vector' = [vector EXCEPT ![c] = Gone]
    /\ forgotten' = forgotten \ {c}
    /\ job' = Touched({c})
    /\ UNCHANGED <<file, lock>>

\* The process dies; the next one may use another embedding model.
Restart(otherSpace) ==
    /\ vector' = [c \in Cards |-> IF otherSpace /\ vector[c] # Gone THEN Foreign ELSE vector[c]]
    /\ forgotten' = {}
    /\ lock' = Free
    /\ job' = [j \in Jobs |-> NoWork]
    /\ UNCHANGED file

-----------------------------------------------------------------------------
(* index_card_ids and reconcile_index *)

\* A blank query is answered at once, with no card and no error.
SearchBegins(s, blank) ==
    /\ job[s].at = "off"
    /\ job' = [job EXCEPT ![s] = [NoWork EXCEPT !.at = IF blank THEN "answered" ELSE "waiting"]]
    /\ UNCHANGED <<file, vector, forgotten, lock>>

IndexBegins(i, ids) ==
    /\ job[i].at = "off"
    /\ job' = [job EXCEPT ![i] = [NoWork EXCEPT !.at = "waiting", !.todo = ids]]
    /\ UNCHANGED <<file, vector, forgotten, lock>>

\* Slip: index_card_ids does not wait for the lock.
TakenBySearches(j) == (lock = Free \/ j \in Indexers) /\ lock' = (IF lock = Free THEN j ELSE lock)

Taken(j) == lock = Free /\ lock' = j

IndexTakesLock(i) ==
    /\ job[i].at = "waiting"
    /\ Taken(i)
    /\ job' = [job EXCEPT ![i].at = "choosing"]
    /\ UNCHANGED <<file, vector, forgotten>>

\* Vectors that do not fit the text of their file.
Stale == {c \in Cards : vector[c] # file[c]}

SearchScans(s) ==
    /\ job[s].at = "waiting"
    /\ Taken(s)
    /\ vector' = [c \in Cards |-> IF c \in Stale THEN Gone ELSE vector[c]]
    /\ job' = [job EXCEPT ![s].at = "choosing", ![s].untouched = Cards,
                          ![s].todo = {c \in Stale : file[c] \in Texts},
                          ![s].errors = \E c \in Cards : file[c] = Broken]
    /\ UNCHANGED <<file, forgotten>>

\* embed_card_file reads the card; index_card_ids drops its vector before.
EmbedBegins(j, c) ==
    /\ job[j].at = "choosing" /\ c \in job[j].todo
    /\ vector' = IF j \in Indexers THEN [vector EXCEPT ![c] = Gone] ELSE vector
    /\ job' = [job EXCEPT ![j].todo = @ \ {c},
                          ![j].at = IF file[c] \in Texts THEN "embedding" ELSE "choosing",
                          ![j].errors = @ \/ file[c] \notin Texts,
                          ![j].card = IF file[c] \in Texts THEN c ELSE Gone,
                          ![j].text = IF file[c] \in Texts THEN file[c] ELSE Gone]
    /\ UNCHANGED <<file, forgotten, lock>>

\* The card at hand is done with, or given up.
NextCard(j, fails) == [job[j] EXCEPT !.at = "choosing", !.card = Gone, !.text = Gone,
                                     !.errors = @ \/ fails]

EmbedFails(j) ==
    /\ job[j].at = "embedding"
    /\ job' = [job EXCEPT ![j] = NextCard(j, TRUE)]
    /\ UNCHANGED <<file, vector, forgotten, lock>>

SameText(j) == file[job[j].card] = job[j].text

\* The vector is there: the file is read again.
EmbedReturns(j) ==
    /\ job[j].at = "embedding"
    /\ job' = [job EXCEPT ![j] = IF SameText(j) THEN [@ EXCEPT !.at = "writing"]
                                              ELSE NextCard(j, TRUE)]
    /\ UNCHANGED <<file, vector, forgotten, lock>>

EmbedWrites(j) ==
    /\ job[j].at = "writing"
    /\ vector' = [vector EXCEPT ![job[j].card] = job[j].text]
    /\ job' = [job EXCEPT ![j] = NextCard(j, FALSE)]
    /\ UNCHANGED <<file, forgotten, lock>>

AllEmbedded(j) == job[j].at = "choosing" /\ job[j].todo = {}

IndexEnds(i) ==
    /\ AllEmbedded(i)
    /\ lock' = Free
    /\ job' = [job EXCEPT ![i] = NoWork]
    /\ UNCHANGED <<file, vector, forgotten>>

\* The search goes on without the lock; with no card to find it is over.
ReconcileEnds(s) ==
    /\ AllEmbedded(s)
    /\ lock' = Free
    /\ LET broken == \E c \in Cards : file[c] = Broken
           cards == {c \in Cards : file[c] \in Texts}
       IN  job' = [job EXCEPT ![s].at = IF cards = {} THEN "answered" ELSE "querying",
                              ![s].errors = @ \/ broken]
    /\ UNCHANGED <<file, vector, forgotten>>

-----------------------------------------------------------------------------
(* _search_cards *)

\* Slip: a vector that went missing since the reconciliation is not reported.
WithOldVector == {c \in Cards : file[c] # Gone /\ vector[c] \notin {Gone, file[c]}}

\* Cards that cannot be ranked: no card, or no vector of its text.
Unranked == {c \in Cards : file[c] # Gone /\ vector[c] # file[c]}

Ranked == {c \in Cards : file[c] \in Texts /\ vector[c] = file[c]}

\* The query is embedded; files and vectors are read again.  Vectors whose
\* dimension is not that of the query are deleted, without the lock.
SearchRanks(s, misfits) ==
    /\ job[s].at = "querying"
    /\ misfits \subseteq {c \in Cards : file[c] \in Texts /\ vector[c] # Gone}
    /\ vector' = [c \in Cards |-> IF c \in misfits THEN Gone ELSE vector[c]]
    /\ job' = [Touched(misfits) EXCEPT ![s].at = "selecting",
                                       ![s].ranked = [c \in Ranked \ misfits |-> file[c]],
                                       ![s].errors = @ \/ Unranked \cup misfits # {}]
    /\ UNCHANGED <<file, forgotten, lock>>

\* The model selected some; what changed meanwhile is reported, what is gone
\* is not.
SearchAnswers(s, selected) ==
    /\ job[s].at = "selecting" /\ selected \subseteq DOMAIN job[s].ranked
    /\ job' = [job EXCEPT ![s].at = "answered",
                          ![s].errors = @ \/ \E c \in selected : file[c] \notin {Gone, job[s].ranked[c]}]
    /\ UNCHANGED <<file, vector, forgotten, lock>>

Released(s) == IF lock = s THEN Free ELSE lock

\* A timeout, or the model fails: an answer with nothing but errors.
SearchFails(s) ==
    /\ job[s].at \in {"waiting", "embedding", "querying", "selecting"}
    /\ lock' = Released(s)
    /\ job' = [job EXCEPT ![s] = [NoWork EXCEPT !.at = "answered", !.errors = TRUE]]
    /\ UNCHANGED <<file, vector, forgotten>>

SearchIsRead(s) ==
    /\ job[s].at = "answered"
    /\ job' = [job EXCEPT ![s] = NoWork]
    /\ UNCHANGED <<file, vector, forgotten, lock>>

-----------------------------------------------------------------------------
Outside ==
    \/ \E c \in Cards, t \in Texts \cup {Gone, Broken} : Change(c, t)
    \/ \E c \in Cards : ForgetUnlinks(c) \/ ForgetCleans(c)
    \/ \E otherSpace \in BOOLEAN : Restart(otherSpace)

EmbedStep(j) ==
    \/ \E c \in Cards : EmbedBegins(j, c)
    \/ EmbedFails(j) \/ EmbedReturns(j) \/ EmbedWrites(j)

IndexStep(i) == EmbedStep(i) \/ IndexEnds(i)

SearchStep(s) ==
    \/ SearchScans(s) \/ EmbedStep(s) \/ ReconcileEnds(s)
    \/ \E misfits \in SUBSET Cards : SearchRanks(s, misfits)
    \/ \E selected \in SUBSET Cards : SearchAnswers(s, selected)
    \/ SearchFails(s)

Next ==
    \/ Outside
    \/ \E s \in Searches :
          (\E blank \in BOOLEAN : SearchBegins(s, blank)) \/ SearchStep(s) \/ SearchIsRead(s)
    \/ \E i \in Indexers :
          \/ \E ids \in (SUBSET Cards) \ {{}} : IndexBegins(i, ids)
          \/ IndexTakesLock(i) \/ IndexStep(i)

Spec == Init /\ [][Next]_vars

-----------------------------------------------------------------------------
(* Properties *)

Places == {"off", "waiting", "choosing", "embedding", "writing", "querying", "selecting",
           "answered"}

\* Every variable keeps its type.
TypeOK ==
    /\ file \in [Cards -> Texts \cup {Gone, Broken}]
    /\ vector \in [Cards -> Texts \cup {Gone, Foreign}]
    /\ forgotten \in SUBSET Cards
    /\ lock \in Jobs \cup {Free}
    /\ job \in [Jobs ->
        [ at : Places, todo : SUBSET Cards, card : Cards \cup {Gone},
          text : Texts \cup {Gone}, errors : BOOLEAN,
          ranked : UNION {[cs -> Texts] : cs \in SUBSET Cards}, untouched : SUBSET Cards ]]

\* A reconciliation that reports no error ends with the vector of the current
\* text for every card that nobody changed meanwhile, and with none for a card
\* that is not there, whatever other jobs do beside it.
ReconciledIndexMatches ==
    [][\A s \in Searches :
          ReconcileEnds(s) /\ ~job[s].errors
             => \A c \in job[s].untouched : vector[c] = file[c]]_vars

\* No error means that nothing was missed (a failure and an empty result are told
\* apart): every card nobody changed since the scan was ranked by its own text.
CompleteOrSaysSo ==
    \A s \in Searches :
        job[s].at = "answered" /\ ~job[s].errors
            => \A c \in job[s].untouched : file[c] # Gone => c \in DOMAIN job[s].ranked
=============================================================================
