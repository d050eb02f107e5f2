---------------------------- MODULE Stores_proofs ----------------------------
(***************************************************************************)
(* Proofs about the four stores of a person, for every set of cards,       *)
(* skills, rules, searches and edits, and every bound.                     *)
(***************************************************************************)
EXTENDS Stores, SequenceTheorems, FiniteSetTheorems, WellFoundedInduction, TLAPS

-----------------------------------------------------------------------------
(* The composition *)

\* A behaviour of the stores is one of each of them: what is proved of a store
\* by itself holds beside the others.
THEOREM StoresKeepApart ==
    StoresSpec => Spec /\ Index!Spec /\ Skill!Spec /\ Rule!Spec
<1>1. StoresInit => Init /\ Index!Init /\ Skill!Init /\ Rule!Init
    BY DEF StoresInit
<1>2. [StoresNext]_storeVars =>
        [Next]_vars /\ [Index!Next]_(Index!vars) /\ [Skill!Next]_(Skill!vars)
        /\ [Rule!Next]_(Rule!vars)
    <2> SUFFICES ASSUME [StoresNext]_storeVars
                 PROVE  [Next]_vars /\ [Index!Next]_(Index!vars) /\ [Skill!Next]_(Skill!vars)
                        /\ [Rule!Next]_(Rule!vars)
        OBVIOUS
    <2>1. CASE CardsStep
        BY <2>1 DEF CardsStep, indexVars, skillVars, ruleVars,
                    Index!vars, Skill!vars, Rule!vars
    <2>2. CASE IndexStep
        BY <2>2 DEF IndexStep, vars, skillVars, ruleVars, Skill!vars, Rule!vars
    <2>3. CASE SkillStep
        BY <2>3 DEF SkillStep, vars, indexVars, ruleVars, Index!vars, Rule!vars
    <2>4. CASE RuleStep
        BY <2>4 DEF RuleStep, vars, indexVars, skillVars, Index!vars, Skill!vars
    <2>5. CASE UNCHANGED storeVars
        BY <2>5 DEF storeVars, vars, indexVars, skillVars, ruleVars,
                    Index!vars, Skill!vars, Rule!vars
    <2>6. QED
        BY <2>1, <2>2, <2>3, <2>4, <2>5 DEF StoresNext
<1>3. QED
    BY <1>1, <1>2, PTL DEF StoresSpec, Spec, Index!Spec, Skill!Spec, Rule!Spec

-----------------------------------------------------------------------------
(* Numbers and iteration *)

\* Every set of natural numbers that is not empty has a smallest one.
LEMMA SmallestExists ==
    ASSUME NEW T \in SUBSET Nat, T # {}
    PROVE  \E m \in T : \A n \in T : m <= n
<1> DEFINE R == {ss \in Nat \X Nat : ss[1] < ss[2]}
<1>1. IsWellFoundedOn(R, Nat)
    BY NatLessThanWellFounded, Zenon DEF OpToRel
<1>2. PICK x \in T : \A y \in T : ~(<<y, x>> \in R)
    <2> HIDE DEF R
    <2> QED BY <1>1, WFMin, Zenon
<1>3. ASSUME NEW y \in T PROVE x <= y
    <2>1. x \in Nat /\ y \in Nat
        OBVIOUS
    <2>2. ~(<<y, x>>[1] < <<y, x>>[2])
        BY <1>2, <2>1
    <2>3. ~(y < x)
        BY <2>2
    <2>4. QED
        BY <2>1, <2>3
<1>4. QED
    BY <1>3

\* A bounded set of natural numbers that is not empty has a largest one.
LEMMA LargestExists ==
    ASSUME NEW T \in SUBSET Nat, T # {}, NEW b \in Nat, \A n \in T : n <= b
    PROVE  \E m \in T : \A n \in T : m >= n
<1> DEFINE D == {b - n : n \in T}
<1>0. \A n \in T : n \in Nat /\ n <= b
    OBVIOUS
<1>1. D \in SUBSET Nat /\ D # {}
    <2>1. \A n \in T : b - n \in Nat
        BY <1>0
    <2>2. QED
        BY <2>1
<1>2. PICK d \in D : \A e \in D : d <= e
    <2> HIDE DEF D
    <2> QED BY <1>1, SmallestExists
<1>3. PICK m \in T : d = b - m
    OBVIOUS
<1>4. ASSUME NEW n \in T PROVE m >= n
    <2>1. b - m <= b - n
        BY <1>2, <1>3
    <2>2. QED
        BY <2>1, <1>0
<1>5. QED
    BY <1>4

\* f starts at b and goes from each value to the next by g.
Iterates(f, n, S, b, g) ==
    /\ f \in [0 .. n -> S]
    /\ f[0] = b
    /\ \A i \in 1 .. n : f[i] = g[i][f[i - 1]]

\* What is defined by iteration exists.
LEMMA IterationExists ==
    ASSUME NEW n \in Nat, NEW S, NEW b \in S, NEW g \in [1 .. n -> [S -> S]]
    PROVE  \E f : Iterates(f, n, S, b, g)
<1> DEFINE Bad == {k \in 0 .. n : ~ \E f : Iterates(f, k, S, b, g)}
<1>1. SUFFICES ASSUME Bad # {} PROVE FALSE
    <2>1. n \in 0 .. n
        OBVIOUS
    <2>2. n \notin Bad => \E f : Iterates(f, n, S, b, g)
        BY <2>1
    <2>3. QED
        BY <2>2
<1>2. PICK m \in Bad : \A k \in Bad : m <= k
    <2>1. Bad \in SUBSET Nat
        OBVIOUS
    <2> HIDE DEF Bad
    <2>2. QED
        BY <1>1, <2>1, SmallestExists
<1>3. m # 0
    <2>1. Iterates([i \in 0 .. 0 |-> b], 0, S, b, g)
        BY DEF Iterates
    <2>2. QED
        BY <2>1
<1>4. m - 1 \in 0 .. n /\ m - 1 \notin Bad
    BY <1>2, <1>3
<1>5. PICK f : Iterates(f, m - 1, S, b, g)
    BY <1>4
<1> DEFINE h == [i \in 0 .. m |-> IF i = m THEN g[m][f[m - 1]] ELSE f[i]]
<1>6. f[m - 1] \in S /\ m \in 1 .. n
    BY <1>3, <1>5 DEF Iterates
<1>7. g[m][f[m - 1]] \in S
    BY <1>6
<1>8. Iterates(h, m, S, b, g)
    <2>1. h \in [0 .. m -> S]
        BY <1>5, <1>7 DEF Iterates
    <2>2. h[0] = b
        BY <1>3, <1>5 DEF Iterates
    <2>3. ASSUME NEW i \in 1 .. m PROVE h[i] = g[i][h[i - 1]]
        <3>1. CASE i = m
            BY <3>1, <1>6
        <3>2. CASE i # m
            BY <3>2, <1>5 DEF Iterates
        <3>3. QED
            BY <3>1, <3>2
    <2> HIDE DEF h
    <2>4. QED
        BY <2>1, <2>2, <2>3 DEF Iterates
<1>9. QED
    BY <1>8

\* The largest and the smallest element.
LEMMA MaxIsLargest ==
    ASSUME NEW T \in SUBSET Nat, T # {}, NEW b \in Nat, \A n \in T : n <= b
    PROVE  Max(T) \in T /\ \A n \in T : Max(T) >= n
<1>1. \E m \in T : \A n \in T : m >= n
    BY LargestExists
<1>2. QED
    BY <1>1 DEF Max

\* The smallest element of a set of numbers.
LEMMA MinIsSmallest ==
    ASSUME NEW T \in SUBSET Nat, T # {}
    PROVE  Min(T) \in T /\ \A n \in T : Min(T) <= n
<1>1. \E m \in T : \A n \in T : m <= n
    BY SmallestExists
<1>2. QED
    BY <1>1 DEF Min

-----------------------------------------------------------------------------
(* Vectors: module MemoryIndex *)

RankMaps == UNION {[cs -> CardTexts] : cs \in SUBSET IndexCards}

IndexJobs ==
    [ at : Index!Places, todo : SUBSET IndexCards, card : IndexCards \cup {Index!Gone},
      text : CardTexts \cup {Index!Gone}, errors : BOOLEAN,
      ranked : RankMaps,
      untouched : SUBSET IndexCards ]

AtReconcile == {"choosing", "embedding", "writing"}

\* Whoever reads cards and writes vectors holds the lock.
LockInv ==
    \A j \in Index!Jobs : job[j].at \in AtReconcile => lock = j

\* What a search that has met no error still has to do: an untouched card has
\* its vector, or waits for its turn, or is being embedded as it is.
MatchInv ==
    \A s \in Searches :
        job[s].at \in AtReconcile /\ ~job[s].errors =>
            \A c \in job[s].untouched :
                \/ vector[c] = cardText[c]
                \/ c \in job[s].todo
                \/ job[s].at # "choosing" /\ job[s].card = c /\ job[s].text = cardText[c]

\* The text at hand is the one of the file, unless that was changed.
TextInv ==
    \A s \in Searches :
        job[s].at \in {"embedding", "writing"} /\ job[s].card \in job[s].untouched =>
            job[s].text = cardText[job[s].card]

\* What a search that has met no error has ranked.
RankInv ==
    \A s \in Searches :
        job[s].at \in {"selecting", "answered"} /\ ~job[s].errors =>
            \A c \in job[s].untouched : cardText[c] # Index!Gone => c \in DOMAIN job[s].ranked

\* The card at hand.
CardInv ==
    \A j \in Index!Jobs :
        job[j].at \in {"embedding", "writing"} =>
            job[j].card \in IndexCards /\ job[j].text \in CardTexts

IndexInv == Index!TypeOK /\ CardInv /\ LockInv /\ TextInv /\ MatchInv /\ RankInv

\* A job that is not at work is a job.
LEMMA NoWorkTyped ==
    Index!NoWork \in IndexJobs
<1>1. <<>> \in [{} -> CardTexts]
    OBVIOUS
<1>2. QED
    BY <1>1 DEF Index!NoWork, IndexJobs, RankMaps, Index!Places

\* An index starts with the invariant.
LEMMA IndexInit ==
    Index!Init => IndexInv
<1> SUFFICES ASSUME Index!Init PROVE IndexInv
    OBVIOUS
<1>1. Index!TypeOK
    BY NoWorkTyped DEF Index!Init, Index!TypeOK, IndexJobs, RankMaps
<1>2. \A j \in Index!Jobs : job[j].at = "off"
    BY DEF Index!Init, Index!NoWork
<1>3. Searches \subseteq Index!Jobs
    BY DEF Index!Jobs
<1>4. QED
    BY <1>1, <1>2, <1>3 DEF IndexInv, CardInv, LockInv, TextInv, MatchInv, RankInv, AtReconcile
\* Every step of a search, an indexer, a card or the process keeps it.
LEMMA IndexStepKeeps ==
    ASSUME IndexInv, [Index!Next]_(Index!vars)
    PROVE  IndexInv'
<1>0. /\ cardText \in [IndexCards -> CardTexts \cup {Index!Gone, Index!Broken}]
      /\ vector \in [IndexCards -> CardTexts \cup {Index!Gone, Index!Foreign}]
      /\ forgotten \in SUBSET IndexCards
      /\ lock \in Index!Jobs \cup {Index!Free}
      /\ job \in [Index!Jobs -> IndexJobs]
      /\ CardInv /\ LockInv /\ TextInv /\ MatchInv /\ RankInv
      /\ CardTexts \cap {Index!Gone, Index!Broken, Index!Foreign} = {}
      /\ Searches \cap Indexers = {} /\ Index!Free \notin Index!Jobs
      /\ Index!Jobs = Searches \cup Indexers
      /\ Index!NoWork \in IndexJobs
    BY StoresAssumption, NoWorkTyped
    DEF Index!IndexAssumption, IndexInv, Index!TypeOK, IndexJobs, RankMaps, Index!Jobs
<1>1. ASSUME NEW c \in IndexCards, NEW t \in CardTexts \cup {Index!Gone, Index!Broken}, Index!Change(c, t)
      PROVE  IndexInv'
    <2>1. job' \in [Index!Jobs -> IndexJobs]
        BY <1>1, <1>0 DEF Index!Change, Index!Touched, IndexJobs, Index!Places
    <2>2. /\ cardText' \in [IndexCards -> CardTexts \cup {Index!Gone, Index!Broken}]
          /\ vector' \in [IndexCards -> CardTexts \cup {Index!Gone, Index!Foreign}]
          /\ forgotten' \in SUBSET IndexCards
          /\ lock' \in Index!Jobs \cup {Index!Free}
        BY <1>1, <1>0 DEF Index!Change, Index!Touched, IndexJobs, CardInv
    <2>3. CardInv'
        BY <1>1, <1>0 DEF Index!Change, Index!Touched, IndexJobs, CardInv
    <2>4. LockInv'
        BY <1>1, <1>0 DEF Index!Change, Index!Touched, IndexJobs, LockInv, AtReconcile
    <2>5. MatchInv'
        BY <1>1, <1>0 DEF Index!Change, Index!Touched, IndexJobs, CardInv, LockInv, MatchInv, AtReconcile
    <2>6. RankInv'
        BY <1>1, <1>0 DEF Index!Change, Index!Touched, IndexJobs, RankInv
    <2>8. TextInv'
        BY <1>1, <1>0 DEF Index!Change, Index!Touched, IndexJobs, TextInv, CardInv
    <2>7. QED
        BY <2>1, <2>2, <2>3, <2>4, <2>5, <2>6, <2>8 DEF IndexInv, Index!TypeOK, IndexJobs, RankMaps
<1>2. ASSUME NEW c \in IndexCards, Index!ForgetUnlinks(c)
      PROVE  IndexInv'
    <2>1. job' \in [Index!Jobs -> IndexJobs]
        BY <1>2, <1>0 DEF Index!ForgetUnlinks, Index!Touched, IndexJobs, Index!Places
    <2>2. /\ cardText' \in [IndexCards -> CardTexts \cup {Index!Gone, Index!Broken}]
          /\ vector' \in [IndexCards -> CardTexts \cup {Index!Gone, Index!Foreign}]
          /\ forgotten' \in SUBSET IndexCards
          /\ lock' \in Index!Jobs \cup {Index!Free}
        BY <1>2, <1>0 DEF Index!ForgetUnlinks, Index!Touched, IndexJobs, CardInv
    <2>3. CardInv'
        BY <1>2, <1>0 DEF Index!ForgetUnlinks, Index!Touched, IndexJobs, CardInv
    <2>4. LockInv'
        BY <1>2, <1>0 DEF Index!ForgetUnlinks, Index!Touched, IndexJobs, LockInv, AtReconcile
    <2>5. MatchInv'
        BY <1>2, <1>0 DEF Index!ForgetUnlinks, Index!Touched, IndexJobs, CardInv, LockInv, MatchInv, AtReconcile
    <2>6. RankInv'
        BY <1>2, <1>0 DEF Index!ForgetUnlinks, Index!Touched, IndexJobs, RankInv
    <2>8. TextInv'
        BY <1>2, <1>0 DEF Index!ForgetUnlinks, Index!Touched, IndexJobs, TextInv, CardInv
    <2>7. QED
        BY <2>1, <2>2, <2>3, <2>4, <2>5, <2>6, <2>8 DEF IndexInv, Index!TypeOK, IndexJobs, RankMaps
<1>3. ASSUME NEW c \in IndexCards, Index!ForgetCleans(c)
      PROVE  IndexInv'
    <2>1. job' \in [Index!Jobs -> IndexJobs]
        BY <1>3, <1>0 DEF Index!ForgetCleans, Index!Touched, IndexJobs, Index!Places
    <2>2. /\ cardText' \in [IndexCards -> CardTexts \cup {Index!Gone, Index!Broken}]
          /\ vector' \in [IndexCards -> CardTexts \cup {Index!Gone, Index!Foreign}]
          /\ forgotten' \in SUBSET IndexCards
          /\ lock' \in Index!Jobs \cup {Index!Free}
        BY <1>3, <1>0 DEF Index!ForgetCleans, Index!Touched, IndexJobs, CardInv
    <2>3. CardInv'
        BY <1>3, <1>0 DEF Index!ForgetCleans, Index!Touched, IndexJobs, CardInv
    <2>4. LockInv'
        BY <1>3, <1>0 DEF Index!ForgetCleans, Index!Touched, IndexJobs, LockInv, AtReconcile
    <2>5. MatchInv'
        BY <1>3, <1>0 DEF Index!ForgetCleans, Index!Touched, IndexJobs, CardInv, LockInv, MatchInv, AtReconcile
    <2>6. RankInv'
        BY <1>3, <1>0 DEF Index!ForgetCleans, Index!Touched, IndexJobs, RankInv
    <2>8. TextInv'
        BY <1>3, <1>0 DEF Index!ForgetCleans, Index!Touched, IndexJobs, TextInv, CardInv
    <2>7. QED
        BY <2>1, <2>2, <2>3, <2>4, <2>5, <2>6, <2>8 DEF IndexInv, Index!TypeOK, IndexJobs, RankMaps
<1>4. ASSUME NEW otherSpace \in BOOLEAN, Index!Restart(otherSpace)
      PROVE  IndexInv'
    <2>1. job' \in [Index!Jobs -> IndexJobs]
        BY <1>4, <1>0 DEF Index!Restart, Index!NoWork, IndexJobs, Index!Places
    <2>2. /\ cardText' \in [IndexCards -> CardTexts \cup {Index!Gone, Index!Broken}]
          /\ vector' \in [IndexCards -> CardTexts \cup {Index!Gone, Index!Foreign}]
          /\ forgotten' \in SUBSET IndexCards
          /\ lock' \in Index!Jobs \cup {Index!Free}
        BY <1>4, <1>0 DEF Index!Restart, Index!NoWork, IndexJobs, CardInv
    <2>3. CardInv'
        BY <1>4, <1>0 DEF Index!Restart, Index!NoWork, IndexJobs, CardInv
    <2>4. LockInv'
        BY <1>4, <1>0 DEF Index!Restart, Index!NoWork, IndexJobs, LockInv, AtReconcile
    <2>5. MatchInv'
        BY <1>4, <1>0 DEF Index!Restart, Index!NoWork, IndexJobs, CardInv, LockInv, MatchInv, AtReconcile
    <2>6. RankInv'
        BY <1>4, <1>0 DEF Index!Restart, Index!NoWork, IndexJobs, RankInv
    <2>8. TextInv'
        BY <1>4, <1>0 DEF Index!Restart, Index!NoWork, IndexJobs, TextInv, CardInv
    <2>7. QED
        BY <2>1, <2>2, <2>3, <2>4, <2>5, <2>6, <2>8 DEF IndexInv, Index!TypeOK, IndexJobs, RankMaps
<1>5. ASSUME NEW s \in Searches, NEW blank \in BOOLEAN, Index!SearchBegins(s, blank)
      PROVE  IndexInv'
    <2>1. job' \in [Index!Jobs -> IndexJobs]
        BY <1>5, <1>0 DEF Index!SearchBegins, Index!NoWork, IndexJobs, Index!Places
    <2>2. /\ cardText' \in [IndexCards -> CardTexts \cup {Index!Gone, Index!Broken}]
          /\ vector' \in [IndexCards -> CardTexts \cup {Index!Gone, Index!Foreign}]
          /\ forgotten' \in SUBSET IndexCards
          /\ lock' \in Index!Jobs \cup {Index!Free}
        BY <1>5, <1>0 DEF Index!SearchBegins, Index!NoWork, IndexJobs, CardInv
    <2>3. CardInv'
        BY <1>5, <1>0 DEF Index!SearchBegins, Index!NoWork, IndexJobs, CardInv
    <2>4. LockInv'
        BY <1>5, <1>0 DEF Index!SearchBegins, Index!NoWork, IndexJobs, LockInv, AtReconcile
    <2>5. MatchInv'
        BY <1>5, <1>0 DEF Index!SearchBegins, Index!NoWork, IndexJobs, CardInv, LockInv, MatchInv, AtReconcile
    <2>6. RankInv'
        BY <1>5, <1>0 DEF Index!SearchBegins, Index!NoWork, IndexJobs, RankInv
    <2>8. TextInv'
        BY <1>5, <1>0 DEF Index!SearchBegins, Index!NoWork, IndexJobs, TextInv, CardInv
    <2>7. QED
        BY <2>1, <2>2, <2>3, <2>4, <2>5, <2>6, <2>8 DEF IndexInv, Index!TypeOK, IndexJobs, RankMaps
<1>6. ASSUME NEW i \in Indexers, NEW ids \in SUBSET IndexCards, Index!IndexBegins(i, ids)
      PROVE  IndexInv'
    <2>1. job' \in [Index!Jobs -> IndexJobs]
        BY <1>6, <1>0 DEF Index!IndexBegins, Index!NoWork, IndexJobs, Index!Places
    <2>2. /\ cardText' \in [IndexCards -> CardTexts \cup {Index!Gone, Index!Broken}]
          /\ vector' \in [IndexCards -> CardTexts \cup {Index!Gone, Index!Foreign}]
          /\ forgotten' \in SUBSET IndexCards
          /\ lock' \in Index!Jobs \cup {Index!Free}
        BY <1>6, <1>0 DEF Index!IndexBegins, Index!NoWork, IndexJobs, CardInv
    <2>3. CardInv'
        BY <1>6, <1>0 DEF Index!IndexBegins, Index!NoWork, IndexJobs, CardInv
    <2>4. LockInv'
        BY <1>6, <1>0 DEF Index!IndexBegins, Index!NoWork, IndexJobs, LockInv, AtReconcile
    <2>5. MatchInv'
        BY <1>6, <1>0 DEF Index!IndexBegins, Index!NoWork, IndexJobs, CardInv, LockInv, MatchInv, AtReconcile
    <2>6. RankInv'
        BY <1>6, <1>0 DEF Index!IndexBegins, Index!NoWork, IndexJobs, RankInv
    <2>8. TextInv'
        BY <1>6, <1>0 DEF Index!IndexBegins, Index!NoWork, IndexJobs, TextInv, CardInv
    <2>7. QED
        BY <2>1, <2>2, <2>3, <2>4, <2>5, <2>6, <2>8 DEF IndexInv, Index!TypeOK, IndexJobs, RankMaps
<1>7. ASSUME NEW i \in Indexers, Index!IndexTakesLock(i)
      PROVE  IndexInv'
    <2>1. job' \in [Index!Jobs -> IndexJobs]
        BY <1>7, <1>0 DEF Index!IndexTakesLock, Index!Taken, IndexJobs, Index!Places
    <2>2. /\ cardText' \in [IndexCards -> CardTexts \cup {Index!Gone, Index!Broken}]
          /\ vector' \in [IndexCards -> CardTexts \cup {Index!Gone, Index!Foreign}]
          /\ forgotten' \in SUBSET IndexCards
          /\ lock' \in Index!Jobs \cup {Index!Free}
        BY <1>7, <1>0 DEF Index!IndexTakesLock, Index!Taken, IndexJobs, CardInv
    <2>3. CardInv'
        BY <1>7, <1>0 DEF Index!IndexTakesLock, Index!Taken, IndexJobs, CardInv
    <2>4. LockInv'
        BY <1>7, <1>0 DEF Index!IndexTakesLock, Index!Taken, IndexJobs, LockInv, AtReconcile
    <2>5. MatchInv'
        BY <1>7, <1>0 DEF Index!IndexTakesLock, Index!Taken, IndexJobs, CardInv, LockInv, MatchInv, AtReconcile
    <2>6. RankInv'
        BY <1>7, <1>0 DEF Index!IndexTakesLock, Index!Taken, IndexJobs, RankInv
    <2>8. TextInv'
        BY <1>7, <1>0 DEF Index!IndexTakesLock, Index!Taken, IndexJobs, TextInv, CardInv
    <2>7. QED
        BY <2>1, <2>2, <2>3, <2>4, <2>5, <2>6, <2>8 DEF IndexInv, Index!TypeOK, IndexJobs, RankMaps
<1>8. ASSUME NEW s \in Searches, Index!SearchScans(s)
      PROVE  IndexInv'
    <2> DEFINE r == [job[s] EXCEPT !.at = "choosing", !.untouched = IndexCards,
                                 !.todo = {c \in Index!Stale : cardText[c] \in CardTexts},
                                 !.errors = \E c \in IndexCards : cardText[c] = Index!Broken]
    <2>0. r \in IndexJobs /\ job' = [job EXCEPT ![s] = r]
        <3>1. job[s] \in IndexJobs
            BY <1>0
        <3>2. r \in IndexJobs
            BY <1>0, <1>8, <3>1 DEF IndexJobs, Index!Places, Index!SearchScans, Index!Stale
        <3> HIDE DEF r
        <3>3. job' = [job EXCEPT ![s] = r]
            BY <1>0, <1>8 DEF Index!SearchScans, Index!Stale, r
        <3>4. QED
            BY <3>2, <3>3
    <2>1. job' \in [Index!Jobs -> IndexJobs]
        <3> HIDE DEF r
        <3>1. QED
            BY <1>0, <2>0
    <2>2. /\ cardText' \in [IndexCards -> CardTexts \cup {Index!Gone, Index!Broken}]
          /\ vector' \in [IndexCards -> CardTexts \cup {Index!Gone, Index!Foreign}]
          /\ forgotten' \in SUBSET IndexCards
          /\ lock' \in Index!Jobs \cup {Index!Free}
        BY <1>8, <1>0 DEF Index!SearchScans, Index!Taken, Index!Stale, IndexJobs, CardInv
    <2>3. CardInv'
        BY ZenonT(60), <1>8, <1>0 DEF Index!SearchScans, Index!Taken, Index!Stale, IndexJobs, CardInv
    <2>4. LockInv'
        BY <1>8, <1>0 DEF Index!SearchScans, Index!Taken, Index!Stale, IndexJobs, LockInv, AtReconcile
    <2>5. MatchInv'
        <3> SUFFICES ASSUME NEW k \in Searches, job'[k].at \in AtReconcile, ~job'[k].errors,
                            NEW c \in job'[k].untouched
                     PROVE  vector'[c] = cardText'[c] \/ c \in job'[k].todo
            BY DEF MatchInv
        <3>1. /\ cardText' = cardText /\ lock = Index!Free
              /\ vector' = [x \in IndexCards |-> IF x \in Index!Stale THEN Index!Gone ELSE vector[x]]
            BY <1>8 DEF Index!SearchScans, Index!Taken
        <3>2. k = s
            <4>1. k # s => job'[k] = job[k]
                BY <1>0, <2>0
            <4>2. k # s => lock = k
                BY <1>0, <4>1 DEF LockInv
            <4>3. QED
                BY <1>0, <3>1, <4>2
        <3>3. /\ job'[k].todo = {x \in Index!Stale : cardText[x] \in CardTexts}
              /\ c \in IndexCards /\ ~ \E x \in IndexCards : cardText[x] = Index!Broken
            BY <1>0, <2>0, <3>2 DEF IndexJobs
        <3>4. CASE c \in Index!Stale
            BY <1>0, <3>1, <3>3, <3>4
        <3>5. CASE c \notin Index!Stale
            BY <3>1, <3>3, <3>5 DEF Index!Stale
        <3>6. QED
            BY <3>4, <3>5
    <2>6. RankInv'
        <3>1. /\ job'[s].at = "choosing" /\ cardText' = cardText
              /\ \A k \in Searches \ {s} : job'[k] = job[k]
            BY <1>8, <1>0 DEF Index!SearchScans, IndexJobs
        <3>. QED
            BY <3>1, <1>0 DEF RankInv
    <2>8. TextInv'
        BY <1>8, <1>0 DEF Index!SearchScans, Index!Taken, Index!Stale, IndexJobs, TextInv, CardInv
    <2>7. QED
        BY <2>1, <2>2, <2>3, <2>4, <2>5, <2>6, <2>8 DEF IndexInv, Index!TypeOK, IndexJobs, RankMaps
<1>9. ASSUME NEW j \in Index!Jobs, NEW c \in IndexCards, Index!EmbedBegins(j, c)
      PROVE  IndexInv'
    <2> DEFINE r == [job[j] EXCEPT !.todo = @ \ {c},
                     !.at = IF cardText[c] \in CardTexts THEN "embedding" ELSE "choosing",
                     !.errors = @ \/ cardText[c] \notin CardTexts,
                     !.card = IF cardText[c] \in CardTexts THEN c ELSE Index!Gone,
                     !.text = IF cardText[c] \in CardTexts THEN cardText[c] ELSE Index!Gone]
    <2>0. r \in IndexJobs /\ job' = [job EXCEPT ![j] = r]
        <3>1. job[j] \in IndexJobs
            BY <1>0
        <3>2. r \in IndexJobs
            BY ZenonT(60), <1>0, <1>9, <3>1 DEF IndexJobs, Index!Places, Index!EmbedBegins
        <3> HIDE DEF r
        <3>3. job' = [job EXCEPT ![j] = r]
            BY <1>0, <1>9 DEF Index!EmbedBegins, r
        <3>4. QED
            BY <3>2, <3>3
    <2>1. job' \in [Index!Jobs -> IndexJobs]
        <3> HIDE DEF r
        <3>1. QED
            BY <1>0, <2>0
    <2>2. /\ cardText' \in [IndexCards -> CardTexts \cup {Index!Gone, Index!Broken}]
          /\ vector' \in [IndexCards -> CardTexts \cup {Index!Gone, Index!Foreign}]
          /\ forgotten' \in SUBSET IndexCards
          /\ lock' \in Index!Jobs \cup {Index!Free}
        BY <1>9, <1>0 DEF Index!EmbedBegins, IndexJobs, CardInv
    <2>3. CardInv'
        BY <1>9, <1>0 DEF Index!EmbedBegins, IndexJobs, CardInv
    <2>4. LockInv'
        BY <1>9, <1>0 DEF Index!EmbedBegins, IndexJobs, LockInv, AtReconcile
    <2>9. /\ job[j].at = "choosing" /\ c \in job[j].todo /\ cardText' = cardText /\ lock' = lock
          /\ \A k \in Index!Jobs \ {j} : job'[k] = job[k]
          /\ job'[j].todo = job[j].todo \ {c} /\ job'[j].untouched = job[j].untouched
          /\ \A d \in IndexCards : d # c \/ j \notin Indexers => vector'[d] = vector[d]
          /\ \/ /\ cardText[c] \in CardTexts /\ job'[j].at = "embedding"
                /\ job'[j].card = c /\ job'[j].text = cardText[c]
                /\ job'[j].errors = job[j].errors
             \/ job'[j].at = "choosing" /\ job'[j].errors
        BY <1>9, <1>0 DEF Index!EmbedBegins, IndexJobs
    <2>5. MatchInv'
        <3> SUFFICES ASSUME NEW s \in Searches, job'[s].at \in AtReconcile, ~job'[s].errors,
                            NEW d \in job'[s].untouched
                     PROVE  \/ vector'[d] = cardText'[d] \/ d \in job'[s].todo
                            \/ /\ job'[s].at # "choosing" /\ job'[s].card = d
                               /\ job'[s].text = cardText'[d]
            BY DEF MatchInv
        <3>1. s \in Index!Jobs /\ (s \in Indexers => FALSE)
            BY <1>0 DEF Index!Jobs
        <3>2. s = j
            BY <2>9, <3>1, <1>0 DEF LockInv, AtReconcile
        <3>3. /\ job'[j].at = "embedding" /\ job'[j].card = c /\ job'[j].text = cardText[c]
              /\ ~job[j].errors /\ job[j].at = "choosing" /\ job[j].untouched = job'[j].untouched
            BY <2>9, <3>2
        <3>4. vector[d] = cardText[d] \/ d \in job[j].todo
            BY <3>2, <3>3, <1>0 DEF MatchInv, AtReconcile
        <3>5. d \in IndexCards
            BY <3>2, <3>3, <1>0 DEF IndexJobs
        <3>. QED
            BY <2>9, <3>1, <3>2, <3>3, <3>4, <3>5
    <2>6. RankInv'
        BY <2>9, <1>0 DEF RankInv
    <2>8. TextInv'
        BY <2>9, <1>0 DEF TextInv
    <2>7. QED
        BY <2>1, <2>2, <2>3, <2>4, <2>5, <2>6, <2>8 DEF IndexInv, Index!TypeOK, IndexJobs, RankMaps
<1>10. ASSUME NEW j \in Index!Jobs, Index!EmbedFails(j)
      PROVE  IndexInv'
    <2> DEFINE r == Index!NextCard(j, TRUE)
    <2>0. r \in IndexJobs /\ job' = [job EXCEPT ![j] = r]
        <3>1. job[j] \in IndexJobs
            BY <1>0
        <3>2. r \in IndexJobs
            BY <1>0, <1>10, <3>1 DEF IndexJobs, Index!Places, Index!EmbedFails, Index!NextCard
        <3> HIDE DEF r
        <3>3. job' = [job EXCEPT ![j] = r]
            BY <1>0, <1>10 DEF Index!EmbedFails, Index!NextCard, r
        <3>4. QED
            BY <3>2, <3>3
    <2>1. job' \in [Index!Jobs -> IndexJobs]
        <3> HIDE DEF r
        <3>1. QED
            BY <1>0, <2>0
    <2>2. /\ cardText' \in [IndexCards -> CardTexts \cup {Index!Gone, Index!Broken}]
          /\ vector' \in [IndexCards -> CardTexts \cup {Index!Gone, Index!Foreign}]
          /\ forgotten' \in SUBSET IndexCards
          /\ lock' \in Index!Jobs \cup {Index!Free}
        BY <1>10, <1>0 DEF Index!EmbedFails, Index!NextCard, IndexJobs, CardInv
    <2>3. CardInv'
        BY <1>10, <1>0 DEF Index!EmbedFails, Index!NextCard, IndexJobs, CardInv
    <2>4. LockInv'
        BY <1>10, <1>0 DEF Index!EmbedFails, Index!NextCard, IndexJobs, LockInv, AtReconcile
    <2>5. MatchInv'
        <3>1. job'[j].errors /\ \A k \in Searches : k # j => job'[k] = job[k]
            BY <2>0, <1>0 DEF Index!NextCard, IndexJobs
        <3>2. cardText' = cardText /\ vector' = vector
            BY <1>10 DEF Index!EmbedFails
        <3> HIDE DEF r
        <3>3. QED
            BY <1>0, <3>1, <3>2 DEF MatchInv
    <2>6. RankInv'
        BY <1>10, <1>0 DEF Index!EmbedFails, Index!NextCard, IndexJobs, RankInv
    <2>8. TextInv'
        BY <1>10, <1>0 DEF Index!EmbedFails, Index!NextCard, IndexJobs, TextInv, CardInv
    <2>7. QED
        BY <2>1, <2>2, <2>3, <2>4, <2>5, <2>6, <2>8 DEF IndexInv, Index!TypeOK, IndexJobs, RankMaps
<1>11. ASSUME NEW j \in Index!Jobs, Index!EmbedReturns(j)
      PROVE  IndexInv'
    <2> DEFINE r == IF Index!SameText(j) THEN [job[j] EXCEPT !.at = "writing"]
                ELSE Index!NextCard(j, TRUE)
    <2>0. r \in IndexJobs /\ job' = [job EXCEPT ![j] = r]
        <3>1. job[j] \in IndexJobs
            BY <1>0
        <3>2. r \in IndexJobs
            BY <1>0, <1>11, <3>1 DEF IndexJobs, Index!Places, Index!EmbedReturns, Index!NextCard
        <3> HIDE DEF r
        <3>3. job' = [job EXCEPT ![j] = r]
            BY <1>0, <1>11 DEF Index!EmbedReturns, Index!NextCard, r
        <3>4. QED
            BY <3>2, <3>3
    <2>1. job' \in [Index!Jobs -> IndexJobs]
        <3> HIDE DEF r
        <3>1. QED
            BY <1>0, <2>0
    <2>2. /\ cardText' \in [IndexCards -> CardTexts \cup {Index!Gone, Index!Broken}]
          /\ vector' \in [IndexCards -> CardTexts \cup {Index!Gone, Index!Foreign}]
          /\ forgotten' \in SUBSET IndexCards
          /\ lock' \in Index!Jobs \cup {Index!Free}
        BY <1>11, <1>0 DEF Index!EmbedReturns, Index!NextCard, Index!SameText, IndexJobs, CardInv
    <2>3. CardInv'
        BY <1>11, <1>0 DEF Index!EmbedReturns, Index!NextCard, Index!SameText, IndexJobs, CardInv
    <2>4. LockInv'
        BY <1>11, <1>0 DEF Index!EmbedReturns, Index!NextCard, Index!SameText, IndexJobs, LockInv, AtReconcile
    <2>5. MatchInv'
        BY <1>11, <1>0 DEF Index!EmbedReturns, Index!NextCard, Index!SameText, IndexJobs, CardInv, LockInv, MatchInv, AtReconcile
    <2>6. RankInv'
        BY <1>11, <1>0 DEF Index!EmbedReturns, Index!NextCard, Index!SameText, IndexJobs, RankInv
    <2>8. TextInv'
        BY <1>11, <1>0 DEF Index!EmbedReturns, Index!NextCard, Index!SameText, IndexJobs, TextInv, CardInv
    <2>7. QED
        BY <2>1, <2>2, <2>3, <2>4, <2>5, <2>6, <2>8 DEF IndexInv, Index!TypeOK, IndexJobs, RankMaps
<1>12. ASSUME NEW j \in Index!Jobs, Index!EmbedWrites(j)
      PROVE  IndexInv'
    <2> DEFINE r == Index!NextCard(j, FALSE)
    <2>0. r \in IndexJobs /\ job' = [job EXCEPT ![j] = r]
        <3>1. job[j] \in IndexJobs
            BY <1>0
        <3>2. r \in IndexJobs
            BY <1>0, <1>12, <3>1 DEF IndexJobs, Index!Places, Index!EmbedWrites, Index!NextCard
        <3> HIDE DEF r
        <3>3. job' = [job EXCEPT ![j] = r]
            BY <1>0, <1>12 DEF Index!EmbedWrites, Index!NextCard, r
        <3>4. QED
            BY <3>2, <3>3
    <2>1. job' \in [Index!Jobs -> IndexJobs]
        <3> HIDE DEF r
        <3>1. QED
            BY <1>0, <2>0
    <2>2. /\ cardText' \in [IndexCards -> CardTexts \cup {Index!Gone, Index!Broken}]
          /\ vector' \in [IndexCards -> CardTexts \cup {Index!Gone, Index!Foreign}]
          /\ forgotten' \in SUBSET IndexCards
          /\ lock' \in Index!Jobs \cup {Index!Free}
        BY <1>12, <1>0 DEF Index!EmbedWrites, Index!NextCard, IndexJobs, CardInv
    <2>3. CardInv'
        BY <1>12, <1>0 DEF Index!EmbedWrites, Index!NextCard, IndexJobs, CardInv
    <2>4. LockInv'
        BY <1>12, <1>0 DEF Index!EmbedWrites, Index!NextCard, IndexJobs, LockInv, AtReconcile
    <2>5. MatchInv'
        <3> SUFFICES ASSUME NEW s \in Searches, job'[s].at \in AtReconcile, ~job'[s].errors,
                            NEW c \in job'[s].untouched
                     PROVE  vector'[c] = cardText'[c] \/ c \in job'[s].todo
            BY DEF MatchInv
        <3>1. /\ cardText' = cardText /\ job[j].at = "writing"
              /\ vector' = [vector EXCEPT ![job[j].card] = job[j].text]
            BY <1>12 DEF Index!EmbedWrites
        <3>2. s = j
            <4>1. s # j => job'[s] = job[s]
                BY <1>0, <2>0
            <4>2. s # j => lock = s /\ lock = j
                BY <1>0, <3>1, <4>1 DEF LockInv, AtReconcile
            <4>3. QED
                BY <4>2
        <3>3. /\ job'[s].todo = job[s].todo /\ job'[s].untouched = job[s].untouched
              /\ ~job[s].errors
            BY <1>0, <2>0, <3>2 DEF Index!NextCard, IndexJobs
        <3>4. c \in IndexCards
            BY <1>0, <3>3 DEF IndexJobs
        <3>5. CASE c = job[j].card
            BY <1>0, <3>1, <3>2, <3>3, <3>4, <3>5 DEF TextInv
        <3>6. CASE c # job[j].card
            BY <1>0, <3>1, <3>2, <3>3, <3>4, <3>6 DEF MatchInv, AtReconcile
        <3>7. QED
            BY <3>5, <3>6
    <2>6. RankInv'
        BY <1>12, <1>0 DEF Index!EmbedWrites, Index!NextCard, IndexJobs, RankInv
    <2>8. TextInv'
        BY <1>12, <1>0 DEF Index!EmbedWrites, Index!NextCard, IndexJobs, TextInv, CardInv
    <2>7. QED
        BY <2>1, <2>2, <2>3, <2>4, <2>5, <2>6, <2>8 DEF IndexInv, Index!TypeOK, IndexJobs, RankMaps
<1>13. ASSUME NEW i \in Indexers, Index!IndexEnds(i)
      PROVE  IndexInv'
    <2>1. job' \in [Index!Jobs -> IndexJobs]
        BY <1>13, <1>0 DEF Index!IndexEnds, Index!AllEmbedded, Index!NoWork, IndexJobs, Index!Places
    <2>2. /\ cardText' \in [IndexCards -> CardTexts \cup {Index!Gone, Index!Broken}]
          /\ vector' \in [IndexCards -> CardTexts \cup {Index!Gone, Index!Foreign}]
          /\ forgotten' \in SUBSET IndexCards
          /\ lock' \in Index!Jobs \cup {Index!Free}
        BY <1>13, <1>0 DEF Index!IndexEnds, Index!AllEmbedded, Index!NoWork, IndexJobs, CardInv
    <2>3. CardInv'
        BY <1>13, <1>0 DEF Index!IndexEnds, Index!AllEmbedded, Index!NoWork, IndexJobs, CardInv
    <2>4. LockInv'
        BY <1>13, <1>0 DEF Index!IndexEnds, Index!AllEmbedded, Index!NoWork, IndexJobs, LockInv, AtReconcile
    <2>5. MatchInv'
        BY <1>13, <1>0 DEF Index!IndexEnds, Index!AllEmbedded, Index!NoWork, IndexJobs, CardInv, LockInv, MatchInv, AtReconcile
    <2>6. RankInv'
        BY <1>13, <1>0 DEF Index!IndexEnds, Index!AllEmbedded, Index!NoWork, IndexJobs, RankInv
    <2>8. TextInv'
        BY <1>13, <1>0 DEF Index!IndexEnds, Index!AllEmbedded, Index!NoWork, IndexJobs, TextInv, CardInv
    <2>7. QED
        BY <2>1, <2>2, <2>3, <2>4, <2>5, <2>6, <2>8 DEF IndexInv, Index!TypeOK, IndexJobs, RankMaps
<1>14. ASSUME NEW s \in Searches, Index!ReconcileEnds(s)
      PROVE  IndexInv'
    <2> DEFINE r == [job[s] EXCEPT !.at = IF {c \in IndexCards : cardText[c] \in CardTexts} = {}
                                       THEN "answered" ELSE "querying",
                                 !.errors = @ \/ \E c \in IndexCards : cardText[c] = Index!Broken]
    <2>0. r \in IndexJobs /\ job' = [job EXCEPT ![s] = r]
        <3>1. job[s] \in IndexJobs
            BY <1>0
        <3>2. r \in IndexJobs
            BY ZenonT(60), <1>0, <1>14, <3>1 DEF IndexJobs, Index!Places, Index!ReconcileEnds
        <3> HIDE DEF r
        <3>3. job' = [job EXCEPT ![s] = r]
            BY <1>0, <1>14 DEF Index!ReconcileEnds, r
        <3>4. QED
            BY <3>2, <3>3
    <2>1. job' \in [Index!Jobs -> IndexJobs]
        <3> HIDE DEF r
        <3>1. QED
            BY <1>0, <2>0
    <2>2. /\ cardText' \in [IndexCards -> CardTexts \cup {Index!Gone, Index!Broken}]
          /\ vector' \in [IndexCards -> CardTexts \cup {Index!Gone, Index!Foreign}]
          /\ forgotten' \in SUBSET IndexCards
          /\ lock' \in Index!Jobs \cup {Index!Free}
        BY <1>14, <1>0 DEF Index!ReconcileEnds, Index!AllEmbedded, IndexJobs, CardInv
    <2>3. CardInv'
        BY <1>14, <1>0 DEF Index!ReconcileEnds, Index!AllEmbedded, IndexJobs, CardInv
    <2>4. LockInv'
        BY <1>14, <1>0 DEF Index!ReconcileEnds, Index!AllEmbedded, IndexJobs, LockInv, AtReconcile
    <2>5. MatchInv'
        BY <1>14, <1>0 DEF Index!ReconcileEnds, Index!AllEmbedded, IndexJobs, CardInv, LockInv, MatchInv, AtReconcile
    <2>6. RankInv'
        BY <1>14, <1>0 DEF Index!ReconcileEnds, Index!AllEmbedded, IndexJobs, RankInv
    <2>8. TextInv'
        BY <1>14, <1>0 DEF Index!ReconcileEnds, Index!AllEmbedded, IndexJobs, TextInv, CardInv
    <2>7. QED
        BY <2>1, <2>2, <2>3, <2>4, <2>5, <2>6, <2>8 DEF IndexInv, Index!TypeOK, IndexJobs, RankMaps
<1>15. ASSUME NEW s \in Searches, NEW misfits \in SUBSET IndexCards, Index!SearchRanks(s, misfits)
      PROVE  IndexInv'
    <2> DEFINE other(k) == [job[k] EXCEPT !.untouched = @ \ misfits]
               r == [other(s) EXCEPT !.at = "selecting",
                                     !.ranked = [c \in Index!Ranked \ misfits |-> cardText[c]],
                                     !.errors = @ \/ Index!Unranked \cup misfits # {}]
    <2>0. /\ r \in IndexJobs
          /\ job' = [k \in Index!Jobs |-> IF k = s THEN r ELSE other(k)]
        <3>1. job[s] \in IndexJobs
            BY <1>0
        <3>2. r \in IndexJobs
            <4>1. [c \in Index!Ranked \ misfits |-> cardText[c]] \in RankMaps
                <5>1. [c \in Index!Ranked \ misfits |-> cardText[c]]
                        \in [Index!Ranked \ misfits -> CardTexts]
                    BY DEF Index!Ranked
                <5>2. Index!Ranked \ misfits \in SUBSET IndexCards
                    BY DEF Index!Ranked
                <5>3. QED
                    BY <5>1, <5>2 DEF RankMaps
            <4>2. QED
                BY <1>0, <3>1, <4>1 DEF IndexJobs, Index!Places
        <3>3. job' = [k \in Index!Jobs |-> IF k = s THEN r ELSE other(k)]
            <4> DEFINE touched == [k \in Index!Jobs |-> other(k)]
            <4>1. /\ Index!Touched(misfits) = touched
                  /\ s \in Index!Jobs /\ touched[s] = other(s)
                BY <1>0 DEF Index!Touched
            <4>2. job' = [touched EXCEPT ![s] = r]
                BY <1>15, <4>1 DEF Index!SearchRanks
            <4> HIDE DEF r, other
            <4>3. QED
                BY <4>2
        <3>4. QED
            BY <3>2, <3>3
    <2>9. \A k \in Index!Jobs : k # s =>
              /\ job'[k] \in IndexJobs
              /\ job'[k].untouched = job[k].untouched \ misfits
              /\ job'[k].at = job[k].at /\ job'[k].todo = job[k].todo
              /\ job'[k].card = job[k].card /\ job'[k].text = job[k].text
              /\ job'[k].errors = job[k].errors /\ job'[k].ranked = job[k].ranked
        <3> HIDE DEF r
        <3>1. QED
            BY <1>0, <2>0 DEF IndexJobs
    <2>10. /\ job'[s].at = "selecting" /\ job'[s].untouched \subseteq IndexCards
           /\ DOMAIN job'[s].ranked = Index!Ranked \ misfits
           /\ ~job'[s].errors => Index!Unranked = {} /\ misfits = {}
        BY <1>0, <2>0 DEF IndexJobs
    <2>11. /\ cardText' = cardText /\ forgotten' = forgotten /\ lock' = lock
           /\ vector' = [c \in IndexCards |-> IF c \in misfits THEN Index!Gone ELSE vector[c]]
        BY <1>15 DEF Index!SearchRanks
    <2>12. Searches \subseteq Index!Jobs
        BY <1>0
    <2>1. job' \in [Index!Jobs -> IndexJobs]
        <3> HIDE DEF r
        <3>1. DOMAIN job' = Index!Jobs /\ job'[s] = r
            BY <2>0, <2>12
        <3>2. QED
            BY <2>0, <2>9, <3>1
    <2>2. /\ cardText' \in [IndexCards -> CardTexts \cup {Index!Gone, Index!Broken}]
          /\ vector' \in [IndexCards -> CardTexts \cup {Index!Gone, Index!Foreign}]
          /\ forgotten' \in SUBSET IndexCards
          /\ lock' \in Index!Jobs \cup {Index!Free}
        BY <2>11, <1>0
    <2>3. CardInv'
        BY <2>9, <2>10, <1>0 DEF CardInv
    <2>4. LockInv'
        BY <2>9, <2>10, <2>11, <1>0 DEF LockInv, AtReconcile
    <2>5. MatchInv'
        <3> SUFFICES ASSUME NEW k \in Searches, job'[k].at \in AtReconcile, ~job'[k].errors,
                            NEW c \in job'[k].untouched
                     PROVE  \/ vector'[c] = cardText'[c] \/ c \in job'[k].todo
                            \/ /\ job'[k].at # "choosing" /\ job'[k].card = c
                               /\ job'[k].text = cardText'[c]
            BY DEF MatchInv
        <3>1. k # s
            BY <2>10 DEF AtReconcile
        <3>2. c \in job[k].untouched /\ c \notin misfits /\ c \in IndexCards
            BY <2>9, <2>12, <3>1, <1>0 DEF IndexJobs
        <3>3. \/ vector[c] = cardText[c] \/ c \in job[k].todo
              \/ job[k].at # "choosing" /\ job[k].card = c /\ job[k].text = cardText[c]
            BY <2>9, <2>12, <3>1, <3>2, <1>0 DEF MatchInv
        <3>4. QED
            BY <2>9, <2>11, <2>12, <3>1, <3>2, <3>3
    <2>6. RankInv'
        <3> SUFFICES ASSUME NEW k \in Searches, job'[k].at \in {"selecting", "answered"},
                            ~job'[k].errors, NEW c \in job'[k].untouched,
                            cardText'[c] # Index!Gone
                     PROVE  c \in DOMAIN job'[k].ranked
            BY DEF RankInv
        <3>2. CASE k # s
            BY <1>0, <2>9, <2>11, <2>12, <3>2 DEF RankInv
        <3>3. CASE k = s
            <4>1. /\ DOMAIN job'[k].ranked = Index!Ranked
                  /\ Index!Unranked = {} /\ c \in IndexCards
                BY <2>10, <3>3
            <4>2. vector[c] = cardText[c] /\ cardText[c] # Index!Gone
                BY <2>11, <4>1 DEF Index!Unranked
            <4>3. cardText[c] \in CardTexts
                BY <1>0, <4>1, <4>2 DEF Index!Broken, Index!Foreign, Index!Gone
            <4>4. QED
                BY <4>1, <4>2, <4>3 DEF Index!Ranked
        <3>4. QED
            BY <3>2, <3>3
    <2>8. TextInv'
        BY <2>9, <2>10, <2>11, <2>12, <1>0 DEF TextInv
    <2>7. QED
        BY <2>1, <2>2, <2>3, <2>4, <2>5, <2>6, <2>8 DEF IndexInv, Index!TypeOK, IndexJobs, RankMaps
<1>16. ASSUME NEW s \in Searches, NEW selected \in SUBSET IndexCards, Index!SearchAnswers(s, selected)
      PROVE  IndexInv'
    <2> DEFINE r == [job[s] EXCEPT !.at = "answered",
                     !.errors = @ \/ \E c \in selected : cardText[c] \notin {Index!Gone, job[s].ranked[c]}]
    <2>0. r \in IndexJobs /\ job' = [job EXCEPT ![s] = r]
        <3>1. job[s] \in IndexJobs
            BY <1>0
        <3>2. r \in IndexJobs
            BY <1>0, <1>16, <3>1 DEF IndexJobs, Index!Places, Index!SearchAnswers
        <3> HIDE DEF r
        <3>3. job' = [job EXCEPT ![s] = r]
            BY <1>0, <1>16 DEF Index!SearchAnswers, r
        <3>4. QED
            BY <3>2, <3>3
    <2>1. job' \in [Index!Jobs -> IndexJobs]
        <3> HIDE DEF r
        <3>1. QED
            BY <1>0, <2>0
    <2>2. /\ cardText' \in [IndexCards -> CardTexts \cup {Index!Gone, Index!Broken}]
          /\ vector' \in [IndexCards -> CardTexts \cup {Index!Gone, Index!Foreign}]
          /\ forgotten' \in SUBSET IndexCards
          /\ lock' \in Index!Jobs \cup {Index!Free}
        BY <1>16, <1>0 DEF Index!SearchAnswers, IndexJobs, CardInv
    <2>3. CardInv'
        BY <1>16, <1>0 DEF Index!SearchAnswers, IndexJobs, CardInv
    <2>4. LockInv'
        BY <1>16, <1>0 DEF Index!SearchAnswers, IndexJobs, LockInv, AtReconcile
    <2>5. MatchInv'
        BY <1>16, <1>0 DEF Index!SearchAnswers, IndexJobs, CardInv, LockInv, MatchInv, AtReconcile
    <2>6. RankInv'
        BY <1>16, <1>0 DEF Index!SearchAnswers, IndexJobs, RankInv
    <2>8. TextInv'
        BY <1>16, <1>0 DEF Index!SearchAnswers, IndexJobs, TextInv, CardInv
    <2>7. QED
        BY <2>1, <2>2, <2>3, <2>4, <2>5, <2>6, <2>8 DEF IndexInv, Index!TypeOK, IndexJobs, RankMaps
<1>17. ASSUME NEW s \in Searches, Index!SearchFails(s)
      PROVE  IndexInv'
    <2>1. job' \in [Index!Jobs -> IndexJobs]
        BY <1>17, <1>0 DEF Index!SearchFails, Index!Released, Index!NoWork, IndexJobs, Index!Places
    <2>2. /\ cardText' \in [IndexCards -> CardTexts \cup {Index!Gone, Index!Broken}]
          /\ vector' \in [IndexCards -> CardTexts \cup {Index!Gone, Index!Foreign}]
          /\ forgotten' \in SUBSET IndexCards
          /\ lock' \in Index!Jobs \cup {Index!Free}
        BY <1>17, <1>0 DEF Index!SearchFails, Index!Released, Index!NoWork, IndexJobs, CardInv
    <2>3. CardInv'
        BY <1>17, <1>0 DEF Index!SearchFails, Index!Released, Index!NoWork, IndexJobs, CardInv
    <2>4. LockInv'
        BY <1>17, <1>0 DEF Index!SearchFails, Index!Released, Index!NoWork, IndexJobs, LockInv, AtReconcile
    <2>5. MatchInv'
        BY <1>17, <1>0 DEF Index!SearchFails, Index!Released, Index!NoWork, IndexJobs, CardInv, LockInv, MatchInv, AtReconcile
    <2>6. RankInv'
        BY <1>17, <1>0 DEF Index!SearchFails, Index!Released, Index!NoWork, IndexJobs, RankInv
    <2>8. TextInv'
        BY <1>17, <1>0 DEF Index!SearchFails, Index!Released, Index!NoWork, IndexJobs, TextInv, CardInv
    <2>7. QED
        BY <2>1, <2>2, <2>3, <2>4, <2>5, <2>6, <2>8 DEF IndexInv, Index!TypeOK, IndexJobs, RankMaps
<1>18. ASSUME NEW s \in Searches, Index!SearchIsRead(s)
      PROVE  IndexInv'
    <2>1. job' \in [Index!Jobs -> IndexJobs]
        BY <1>18, <1>0 DEF Index!SearchIsRead, Index!NoWork, IndexJobs, Index!Places
    <2>2. /\ cardText' \in [IndexCards -> CardTexts \cup {Index!Gone, Index!Broken}]
          /\ vector' \in [IndexCards -> CardTexts \cup {Index!Gone, Index!Foreign}]
          /\ forgotten' \in SUBSET IndexCards
          /\ lock' \in Index!Jobs \cup {Index!Free}
        BY <1>18, <1>0 DEF Index!SearchIsRead, Index!NoWork, IndexJobs, CardInv
    <2>3. CardInv'
        BY <1>18, <1>0 DEF Index!SearchIsRead, Index!NoWork, IndexJobs, CardInv
    <2>4. LockInv'
        BY <1>18, <1>0 DEF Index!SearchIsRead, Index!NoWork, IndexJobs, LockInv, AtReconcile
    <2>5. MatchInv'
        BY <1>18, <1>0 DEF Index!SearchIsRead, Index!NoWork, IndexJobs, CardInv, LockInv, MatchInv, AtReconcile
    <2>6. RankInv'
        BY <1>18, <1>0 DEF Index!SearchIsRead, Index!NoWork, IndexJobs, RankInv
    <2>8. TextInv'
        BY <1>18, <1>0 DEF Index!SearchIsRead, Index!NoWork, IndexJobs, TextInv, CardInv
    <2>7. QED
        BY <2>1, <2>2, <2>3, <2>4, <2>5, <2>6, <2>8 DEF IndexInv, Index!TypeOK, IndexJobs, RankMaps
<1>19. CASE UNCHANGED Index!vars
    BY <1>19 DEF Index!vars, IndexInv, Index!TypeOK, CardInv, LockInv, TextInv, MatchInv, RankInv
<1>20. QED
    BY <1>0, <1>1, <1>2, <1>3, <1>4, <1>5, <1>6, <1>7, <1>8, <1>9, <1>10, <1>11, <1>12, <1>13, <1>14, <1>15, <1>16, <1>17, <1>18, <1>19
    DEF Index!Next, Index!Outside, Index!SearchStep, Index!IndexStep, Index!EmbedStep

\* So it holds in every behaviour of the index.
LEMMA IndexHolds ==
    Index!Spec => []IndexInv
<1>1. IndexInv /\ [Index!Next]_(Index!vars) => IndexInv'
    BY IndexStepKeeps
<1>2. QED
    BY <1>1, IndexInit, PTL DEF Index!Spec

\* Whatever changes cards, vectors or the process while a search runs: an answer
\* without an error missed no card that nobody changed.
THEOREM SearchesAreComplete ==
    Index!Spec => []CompleteOrSaysSo
<1>1. IndexInv => CompleteOrSaysSo
    BY DEF IndexInv, RankInv, CompleteOrSaysSo, Index!CompleteOrSaysSo
<1>2. QED
    BY <1>1, IndexHolds, PTL

\* A reconciliation that met no error leaves each untouched card its own vector,
\* whatever was indexed beside it.
THEOREM ReconciledIndexIsTrue ==
    Index!Spec => ReconciledIndexMatches
<1>1. IndexInv /\ [Index!Next]_(Index!vars) =>
        [\A s \in Searches :
            Index!ReconcileEnds(s) /\ ~job[s].errors
                => \A c \in job[s].untouched : vector[c] = cardText[c]]_(Index!vars)
    <2> SUFFICES ASSUME IndexInv, NEW s \in Searches, Index!ReconcileEnds(s), ~job[s].errors,
                        NEW c \in job[s].untouched
                 PROVE  vector[c] = cardText[c]
        OBVIOUS
    <2>1. job[s].at = "choosing" /\ job[s].todo = {}
        BY DEF Index!ReconcileEnds, Index!AllEmbedded
    <2>2. QED
        BY <2>1 DEF IndexInv, MatchInv, AtReconcile
<1>2. QED
    BY <1>1, IndexHolds, PTL DEF ReconciledIndexMatches, Index!ReconciledIndexMatches, Index!Spec

-----------------------------------------------------------------------------
(* Skills: module Skills *)

SkillOps == [file : Skill!Files, action : STRING]

EditRecords ==
    [ at : {"off", "thinking", "shown", "landing", "over"},
      skill : SkillNames \cup {Skill!None}, batch : Seq(SkillOps), todo : Seq(SkillOps),
      named : BOOLEAN, landings : Nat ]

SkillTypes ==
    /\ skillFile \in [SkillNames ->
          [Skill!Files -> SkillEdits \cup {Skill!Original, Skill!Absent, Skill!Torn}]]
    /\ edit \in [SkillEdits -> EditRecords]

AllValid(ops) == \A i \in DOMAIN ops : Skill!Valid(ops[i])

\* What was not confirmed did not land; what lands was valid as a whole.
LandInv ==
    \A e \in SkillEdits :
        /\ edit[e].at \in {"off", "thinking", "shown"} => edit[e].landings = 0
        /\ edit[e].landings <= (IF edit[e].named THEN 1 ELSE 0)
        /\ edit[e].at # "off" => edit[e].skill \in SkillNames
        /\ AllValid(edit[e].batch) /\ AllValid(edit[e].todo)
        /\ pending = e => edit[e].at = "shown"

MainInv ==
    \A s \in SkillNames : skillFile[s][Skill!Main] # Skill!Absent

SkillInv == SkillTypes /\ LandInv /\ MainInv

\* Without edits nothing has landed.
LEMMA SkillInit ==
    Skill!Init => SkillInv
<1> SUFFICES ASSUME Skill!Init PROVE SkillInv
    OBVIOUS
<1>1. <<>> \in Seq(SkillOps) /\ DOMAIN <<>> = {}
    OBVIOUS
<1>2. Skill!NoEdit \in EditRecords
    BY <1>1 DEF Skill!NoEdit, EditRecords
<1>3. SkillTypes
    BY <1>2 DEF Skill!Init, SkillTypes
<1>4. \A e \in SkillEdits : edit[e] = Skill!NoEdit /\ pending = Skill!None
    BY DEF Skill!Init
<1>5. Skill!None \notin SkillEdits
    BY StoresAssumption DEF Skill!SkillsAssumption
<1>6. LandInv
    BY <1>1, <1>4, <1>5 DEF LandInv, AllValid, Skill!NoEdit
<1>7. MainInv
    BY DEF Skill!Init, MainInv, Skill!Main, Skill!Files, Skill!Original, Skill!Absent
<1>8. QED
    BY <1>3, <1>6, <1>7 DEF SkillInv

\* Every step of an edit, a lab or the process keeps the invariant of the skills.
LEMMA SkillStepKeeps ==
    ASSUME SkillInv, [Skill!Next]_(Skill!vars)
    PROVE  SkillInv'
<1>0. /\ skillFile \in [SkillNames ->
            [Skill!Files -> SkillEdits \cup {Skill!Original, Skill!Absent, Skill!Torn}]]
      /\ edit \in [SkillEdits -> EditRecords]
      /\ LandInv /\ MainInv
      /\ SkillEdits \cap {Skill!Original, Skill!Absent, Skill!Torn, Skill!None} = {}
      /\ SkillBatches \subseteq Seq(SkillOps)
      /\ <<>> \in Seq(SkillOps) /\ DOMAIN <<>> = {}
      /\ Skill!Main \in Skill!Files
    <2>1. <<>> \in Seq(SkillOps) /\ DOMAIN <<>> = {}
        OBVIOUS
    <2>2. Skill!Main \in Skill!Files
        BY DEF Skill!Main, Skill!Files
    <2>3. SkillBatches \subseteq Seq(SkillOps)
          /\ SkillEdits \cap {Skill!Original, Skill!Absent, Skill!Torn, Skill!None} = {}
        BY StoresAssumption DEF Skill!SkillsAssumption, SkillOps
    <2>4. QED
        BY <2>1, <2>2, <2>3 DEF SkillInv, SkillTypes
\* An edit changes, and no file.
<1>a. ASSUME NEW e \in SkillEdits, NEW r \in EditRecords,
             edit' = [edit EXCEPT ![e] = r], skillFile' = skillFile,
             r.at \in {"off", "thinking", "shown"} => r.landings = 0,
             r.landings <= (IF r.named THEN 1 ELSE 0),
             r.at # "off" => r.skill \in SkillNames,
             AllValid(r.batch), AllValid(r.todo),
             pending' = e => r.at = "shown",
             \A d \in SkillEdits \ {e} : pending' = d => pending = d
      PROVE  SkillInv'
    <2>1. SkillTypes'
        BY <1>0, <1>a DEF SkillTypes
    <2>2. LandInv'
        BY <1>0, <1>a DEF LandInv, AllValid
    <2>3. MainInv'
        BY <1>0, <1>a DEF MainInv
    <2>4. QED
        BY <2>1, <2>2, <2>3 DEF SkillInv
\* A file that no edit deletes.
<1>b. ASSUME NEW s \in SkillNames, NEW f \in Skill!Files,
             NEW v \in SkillEdits \cup {Skill!Original, Skill!Absent, Skill!Torn},
             skillFile' = [skillFile EXCEPT ![s][f] = v],
             f = Skill!Main => v # Skill!Absent
      PROVE  /\ skillFile' \in [SkillNames ->
                    [Skill!Files -> SkillEdits \cup {Skill!Original, Skill!Absent, Skill!Torn}]]
             /\ MainInv'
    BY <1>0, <1>b DEF MainInv
<1>c. ASSUME NEW e \in SkillEdits
      PROVE  /\ edit[e] \in EditRecords
             /\ edit[e].batch \in Seq(SkillOps) /\ edit[e].todo \in Seq(SkillOps)
             /\ edit[e].landings \in Nat /\ edit[e].named \in BOOLEAN
             /\ edit[e].landings <= (IF edit[e].named THEN 1 ELSE 0)
             /\ edit[e].at # "off" => edit[e].skill \in SkillNames
             /\ AllValid(edit[e].batch) /\ AllValid(edit[e].todo)
    BY <1>0 DEF EditRecords, LandInv
<1>1. ASSUME NEW e \in SkillEdits, NEW s \in SkillNames, Skill!Asks(e, s)
      PROVE  SkillInv'
    <2> DEFINE r == [edit[e] EXCEPT !.at = "thinking", !.skill = s]
    <2>1. r \in EditRecords /\ r.landings = 0 /\ r.named = edit[e].named /\ r.skill = s
          /\ r.batch = edit[e].batch /\ r.todo = edit[e].todo /\ r.at = "thinking"
        BY <1>0, <1>1, <1>c DEF EditRecords, Skill!Asks, LandInv
    <2>2. edit' = [edit EXCEPT ![e] = r] /\ skillFile' = skillFile /\ pending' = pending
        BY <1>0, <1>1 DEF Skill!Asks
    <2>3. pending # e
        BY <1>0, <1>1 DEF Skill!Asks, LandInv
    <2>4. /\ r.landings <= (IF r.named THEN 1 ELSE 0)
          /\ AllValid(r.batch) /\ AllValid(r.todo)
          /\ r.at # "off" => r.skill \in SkillNames
          /\ r.at \in {"off", "thinking", "shown"} => r.landings = 0
        BY <1>c, <2>1
    <2> HIDE DEF r
    <2>5. QED
        BY <1>a, <2>1, <2>2, <2>3, <2>4
\* An edit is over: it lands nothing any more.
<1>o. ASSUME NEW e \in SkillEdits, edit' = Skill!Over(e), skillFile' = skillFile,
             edit[e].at # "off", pending' # e,
             \A d \in SkillEdits \ {e} : pending' = d => pending = d
      PROVE  SkillInv'
    <2> DEFINE r == [edit[e] EXCEPT !.at = "over", !.todo = <<>>]
    <2>1. r \in EditRecords /\ r.landings = edit[e].landings /\ r.named = edit[e].named
          /\ r.skill = edit[e].skill /\ r.batch = edit[e].batch /\ r.todo = <<>> /\ r.at = "over"
        BY <1>0, <1>c DEF EditRecords
    <2>2. edit' = [edit EXCEPT ![e] = r]
        BY <1>0, <1>o DEF Skill!Over
    <2>3. AllValid(<<>>)
        BY <1>0 DEF AllValid
    <2>4. /\ r.landings <= (IF r.named THEN 1 ELSE 0)
          /\ AllValid(r.batch) /\ AllValid(r.todo)
          /\ r.at # "off" => r.skill \in SkillNames
          /\ r.at \in {"off", "thinking", "shown"} => r.landings = 0
        BY <1>c, <1>o, <2>1, <2>3
    <2> HIDE DEF r
    <2>5. QED
        BY <1>a, <1>o, <2>1, <2>2, <2>4
<1>2. ASSUME NEW e \in SkillEdits, NEW batch \in SkillBatches, Skill!Proposes(e, batch)
      PROVE  SkillInv'
    <2>1. CASE AllValid(batch)
        <3> DEFINE r == [edit[e] EXCEPT !.at = "shown", !.batch = batch]
        <3>1. batch \in Seq(SkillOps) /\ edit[e].at = "thinking" /\ edit[e].landings = 0
            BY <1>0, <1>2 DEF Skill!Proposes, LandInv
        <3>2. r \in EditRecords /\ r.landings = 0 /\ r.named = edit[e].named
              /\ r.skill = edit[e].skill /\ r.batch = batch /\ r.todo = edit[e].todo /\ r.at = "shown"
            BY <1>0, <1>c, <3>1 DEF EditRecords
        <3>3. edit' = [edit EXCEPT ![e] = r] /\ skillFile' = skillFile /\ pending' = e
            BY <1>0, <1>2, <2>1 DEF Skill!Proposes, AllValid
        <3>4. /\ r.landings <= (IF r.named THEN 1 ELSE 0)
              /\ AllValid(r.batch) /\ AllValid(r.todo)
              /\ r.at # "off" => r.skill \in SkillNames
            BY <1>c, <2>1, <3>1, <3>2
        <3> HIDE DEF r
        <3>5. QED
            BY <1>a, <3>2, <3>3, <3>4
    <2>2. CASE ~AllValid(batch)
        <3>1. edit' = Skill!Over(e) /\ skillFile' = skillFile /\ pending' = pending
              /\ edit[e].at = "thinking"
            BY <1>2, <2>2 DEF Skill!Proposes, AllValid
        <3>2. pending # e
            BY <1>0, <3>1 DEF LandInv
        <3>3. QED
            BY <1>o, <3>1, <3>2
    <2>3. QED
        BY <2>1, <2>2
<1>3. ASSUME NEW e \in SkillEdits, NEW late \in BOOLEAN, Skill!Confirms(e, late)
      PROVE  SkillInv'
    <2>1. pending = e /\ pending' = Skill!None /\ skillFile' = skillFile
          /\ edit[e].at = "shown" /\ edit[e].landings = 0
        BY <1>0, <1>3 DEF Skill!Confirms, LandInv
    <2>2. \A d \in SkillEdits : pending' # d
        BY <1>0, <2>1
    <2>3. CASE late
        BY <1>3, <1>o, <2>1, <2>2, <2>3 DEF Skill!Confirms
    <2>4. CASE ~late
        <3> DEFINE r == [edit[e] EXCEPT !.named = TRUE, !.at = "landing", !.todo = edit[e].batch,
                                        !.landings = edit[e].landings + 1]
        <3>0. edit[e].landings + 1 = 1 /\ 1 \in Nat /\ edit[e].skill \in SkillNames
            BY <1>c, <2>1
        <3>1. r \in EditRecords /\ r.landings = 1 /\ r.named
              /\ r.skill = edit[e].skill /\ r.batch = edit[e].batch /\ r.todo = edit[e].batch
              /\ r.at = "landing"
            <4>1. r = [edit[e] EXCEPT !.named = TRUE, !.at = "landing", !.todo = edit[e].batch,
                                      !.landings = 1]
                BY <3>0
            <4> HIDE DEF r
            <4>2. QED
                BY <1>c, <3>0, <4>1 DEF EditRecords
        <3>2. edit' = [edit EXCEPT ![e] = r]
            BY <1>0, <1>3, <2>1, <2>4 DEF Skill!Confirms, Skill!Landing
        <3>4. /\ r.landings <= (IF r.named THEN 1 ELSE 0)
              /\ AllValid(r.batch) /\ AllValid(r.todo)
            BY <1>c, <3>1
        <3> HIDE DEF r
        <3>3. QED
            BY <1>a, <2>1, <2>2, <3>0, <3>1, <3>2, <3>4
    <2>5. QED
        BY <2>3, <2>4
<1>4. ASSUME NEW e \in SkillEdits, Skill!Cancels(e) PROVE SkillInv'
    <2>1. pending = e /\ pending' = Skill!None /\ skillFile' = skillFile
          /\ edit[e].at = "shown" /\ edit' = Skill!Over(e)
        BY <1>0, <1>4 DEF Skill!Cancels, LandInv
    <2>2. QED
        BY <1>0, <1>o, <2>1
<1>5. ASSUME NEW e \in SkillEdits, Skill!Fails(e) PROVE SkillInv'
    <2>1. edit' = Skill!Over(e) /\ skillFile' = skillFile /\ pending' = pending
          /\ edit[e].at # "off" /\ edit[e].at # "shown"
        BY <1>5 DEF Skill!Fails
    <2>2. pending # e
        BY <1>0, <2>1 DEF LandInv
    <2>3. QED
        BY <1>o, <2>1, <2>2
\* The operation at hand.
<1>d. ASSUME NEW e \in SkillEdits, Skill!Lands(e)
      PROVE  /\ Skill!Op(e) \in SkillOps /\ Skill!Valid(Skill!Op(e))
             /\ Tail(edit[e].todo) \in Seq(SkillOps) /\ AllValid(Tail(edit[e].todo))
             /\ edit[e].skill \in SkillNames /\ edit[e].at = "landing"
    <2> DEFINE q == edit[e].todo
    <2>1. q \in Seq(SkillOps) /\ q # <<>> /\ AllValid(q) /\ edit[e].at = "landing"
        BY <1>c, <1>d DEF Skill!Lands
    <2>2. Skill!Op(e) = Head(q)
        BY DEF Skill!Op
    <2> HIDE DEF q
    <2>3. /\ Head(q) \in SkillOps /\ Head(q) = q[1] /\ 1 \in DOMAIN q
          /\ Tail(q) \in Seq(SkillOps) /\ DOMAIN Tail(q) = 1 .. Len(q) - 1
          /\ \A i \in DOMAIN Tail(q) : i + 1 \in DOMAIN q /\ Tail(q)[i] = q[i + 1]
        <3> DEFINE n == Len(q)
        <3>1. n \in Nat /\ n # 0 /\ DOMAIN q = 1 .. n
            BY <2>1
        <3>2. /\ Tail(q) \in Seq(SkillOps) /\ Len(Tail(q)) = n - 1
              /\ \A i \in 1 .. n - 1 : Tail(q)[i] = q[i + 1]
            BY <2>1, HeadTailProperties
        <3>3. DOMAIN Tail(q) = 1 .. n - 1
            BY <3>2, LenProperties
        <3> HIDE DEF n
        <3>4. 1 \in DOMAIN q /\ \A i \in 1 .. n - 1 : i + 1 \in DOMAIN q
            BY <3>1
        <3>5. Head(q) = q[1] /\ q[1] \in SkillOps
            BY <2>1, <3>4
        <3>6. QED
            BY <3>2, <3>3, <3>4, <3>5 DEF n
    <2>4. QED
        BY <1>c, <2>1, <2>2, <2>3 DEF AllValid, q
\* An operation is done.
<1>e. ASSUME NEW e \in SkillEdits, Skill!Lands(e), edit' = Skill!Done(e), pending' = pending,
             skillFile' \in [SkillNames ->
                [Skill!Files -> SkillEdits \cup {Skill!Original, Skill!Absent, Skill!Torn}]],
             MainInv'
      PROVE  SkillInv'
    <2> DEFINE r == [edit[e] EXCEPT !.todo = Tail(@),
                                    !.at = IF Len(edit[e].todo) = 1 THEN "over" ELSE @]
    <2>1. r \in EditRecords /\ r.landings = edit[e].landings /\ r.named = edit[e].named
          /\ r.skill = edit[e].skill /\ r.batch = edit[e].batch /\ r.todo = Tail(edit[e].todo)
          /\ r.at \in {"over", "landing"}
        BY ZenonT(60), <1>0, <1>c, <1>d, <1>e DEF EditRecords
    <2>2. edit' = [edit EXCEPT ![e] = r]
        BY <1>0, <1>e DEF Skill!Done
    <2>3. AllValid(r.batch) /\ AllValid(r.todo) /\ r.skill \in SkillNames
          /\ r.landings <= (IF r.named THEN 1 ELSE 0)
        BY <1>c, <1>d, <1>e, <2>1
    <2>4. pending # e
        BY <1>0, <1>d, <1>e DEF LandInv
    <2> HIDE DEF r
    <2>5. SkillTypes'
        BY <1>0, <1>e, <2>1, <2>2 DEF SkillTypes
    <2>6. LandInv'
        BY <1>0, <1>e, <2>1, <2>2, <2>3, <2>4 DEF LandInv, AllValid
    <2>7. QED
        BY <1>e, <2>5, <2>6 DEF SkillInv
<1>6. ASSUME NEW e \in SkillEdits, Skill!Opens(e) PROVE SkillInv'
    <2>1. Skill!Lands(e) /\ edit' = edit /\ pending' = pending
          /\ skillFile' = [skillFile EXCEPT ![edit[e].skill][Skill!Op(e).file] = Skill!Torn]
        BY <1>6 DEF Skill!Opens
    <2>2. edit[e].skill \in SkillNames /\ Skill!Op(e).file \in Skill!Files
        BY <1>d, <2>1 DEF SkillOps
    <2>3. Skill!Torn # Skill!Absent
        BY DEF Skill!Torn, Skill!Absent
    <2>4. SkillTypes' /\ MainInv'
        BY <1>0, <1>b, <2>1, <2>2, <2>3 DEF SkillTypes
    <2>5. LandInv'
        BY <1>0, <2>1 DEF LandInv, AllValid
    <2>6. QED
        BY <2>4, <2>5 DEF SkillInv
<1>7. ASSUME NEW e \in SkillEdits, Skill!Writes(e) PROVE SkillInv'
    <2>1. Skill!Lands(e) /\ edit' = Skill!Done(e) /\ pending' = pending
          /\ skillFile' = [skillFile EXCEPT ![edit[e].skill][Skill!Op(e).file] = e]
        BY <1>7 DEF Skill!Writes
    <2>2. edit[e].skill \in SkillNames /\ Skill!Op(e).file \in Skill!Files
        BY <1>d, <2>1 DEF SkillOps
    <2>3. e # Skill!Absent
        BY <1>0
    <2>4. QED
        BY <1>b, <1>e, <2>1, <2>2, <2>3
<1>8. ASSUME NEW e \in SkillEdits, Skill!Deletes(e) PROVE SkillInv'
    <2>1. Skill!Lands(e) /\ edit' = Skill!Done(e) /\ pending' = pending
          /\ skillFile' = [skillFile EXCEPT ![edit[e].skill][Skill!Op(e).file] = Skill!Absent]
          /\ Skill!Op(e).action = "delete"
        BY <1>8 DEF Skill!Deletes
    <2>2. edit[e].skill \in SkillNames /\ Skill!Op(e).file \in Skill!Files
        BY <1>d, <2>1 DEF SkillOps
    <2>3. Skill!Op(e).file # Skill!Main
        BY <1>d, <2>1 DEF Skill!Valid
    <2>4. QED
        BY <1>b, <1>e, <2>1, <2>2, <2>3
\* The lab touches neither edits nor files.
<1>9. ASSUME skillFile' = skillFile, pending' = pending, edit' = edit
      PROVE  SkillInv'
    BY <1>9 DEF SkillInv, SkillTypes, LandInv, MainInv, AllValid
<1>10. CASE Skill!Crash
    <2> DEFINE over(e) == [edit[e] EXCEPT !.at = "over", !.todo = <<>>]
    <2>1. pending' = Skill!None /\ skillFile' = skillFile
          /\ edit' = [e \in SkillEdits |-> IF edit[e].at = "off" THEN edit[e] ELSE over(e)]
        BY <1>10 DEF Skill!Crash
    <2>2. ASSUME NEW e \in SkillEdits
          PROVE  over(e) \in EditRecords /\ over(e).landings = edit[e].landings
                 /\ over(e).named = edit[e].named /\ over(e).skill = edit[e].skill
                 /\ over(e).batch = edit[e].batch /\ over(e).todo = <<>> /\ over(e).at = "over"
        BY <1>0, <1>c DEF EditRecords
    <2>3. AllValid(<<>>)
        BY <1>0 DEF AllValid
    <2> HIDE DEF over
    <2>4. SkillTypes'
        BY <1>0, <1>c, <2>1, <2>2 DEF SkillTypes
    <2>5. LandInv'
        <3> SUFFICES ASSUME NEW e \in SkillEdits
                     PROVE  /\ edit'[e].at \in {"off", "thinking", "shown"} => edit'[e].landings = 0
                            /\ edit'[e].landings <= (IF edit'[e].named THEN 1 ELSE 0)
                            /\ edit'[e].at # "off" => edit'[e].skill \in SkillNames
                            /\ AllValid(edit'[e].batch) /\ AllValid(edit'[e].todo)
                            /\ pending' = e => edit'[e].at = "shown"
            BY DEF LandInv, AllValid
        <3>1. pending' # e
            BY <1>0, <2>1
        <3>2. CASE edit[e].at = "off"
            BY <1>0, <2>1, <3>1, <3>2 DEF LandInv
        <3>3. CASE edit[e].at # "off"
            BY <1>c, <2>1, <2>2, <2>3, <3>1, <3>3
        <3>4. QED
            BY <3>2, <3>3
    <2>6. MainInv'
        BY <1>0, <2>1 DEF MainInv
    <2>7. QED
        BY <2>4, <2>5, <2>6 DEF SkillInv
<1>11. QED
    BY <1>1, <1>2, <1>3, <1>4, <1>5, <1>6, <1>7, <1>8, <1>9, <1>10
    DEF Skill!Next, Skill!EditStep, Skill!vars, Skill!LabBegins, Skill!Loads,
        Skill!StageIsKept, Skill!LabStops

\* Of any batches, what lands is what a person confirmed, once, and no skill loses
\* its SKILL.md to an edit.
THEOREM EditsAreConfirmed ==
    Skill!Spec => []OnlyWhatWasConfirmed
<1>1. SkillInv /\ [Skill!Next]_(Skill!vars) => SkillInv'
    BY SkillStepKeeps
<1>2. SkillInv => OnlyWhatWasConfirmed
    BY DEF SkillInv, LandInv, MainInv, OnlyWhatWasConfirmed, Skill!OnlyWhatWasConfirmed
<1>3. QED
    BY <1>1, <1>2, SkillInit, PTL DEF Skill!Spec

\* A lab has the skill its journal names, from the moment it runs again.
THEOREM SkillStaysBound ==
    Skill!Spec => []KeptSkillIsBound
<1> DEFINE Bound == DOMAIN skillLab = {"on", "bound", "kept"} /\ KeptSkillIsBound
<1>1. Skill!Init => Bound
    BY DEF Skill!Init, Skill!NoLab, KeptSkillIsBound, Skill!KeptSkillIsBound
<1>2. Bound /\ [Skill!Next]_(Skill!vars) => Bound'
    <2> SUFFICES ASSUME Bound, [Skill!Next]_(Skill!vars) PROVE Bound'
        OBVIOUS
    <2> USE DEF KeptSkillIsBound, Skill!KeptSkillIsBound
    <2>1. CASE UNCHANGED skillLab
        BY <2>1
    <2>2. ASSUME NEW resume \in BOOLEAN, Skill!LabBegins(resume) PROVE Bound'
        BY <2>2 DEF Skill!LabBegins
    <2>3. ASSUME NEW s \in SkillNames, Skill!Loads(s) PROVE Bound'
        BY <2>3 DEF Skill!Loads
    <2>4. CASE Skill!StageIsKept
        BY <2>4 DEF Skill!StageIsKept
    <2>5. CASE Skill!LabStops \/ Skill!Crash
        BY <2>5 DEF Skill!LabStops, Skill!Crash
    <2>6. QED
        BY <2>1, <2>2, <2>3, <2>4, <2>5
        DEF Skill!Next, Skill!EditStep, Skill!vars, Skill!Asks, Skill!Proposes, Skill!Confirms,
            Skill!Cancels, Skill!Opens, Skill!Writes, Skill!Deletes, Skill!Fails
<1>3. QED
    BY <1>1, <1>2, PTL DEF Skill!Spec

-----------------------------------------------------------------------------
(* Rules: module Rules *)

\* What the rows name in the list, each rule once: nothing is lost, nothing is added.
LEMMA ChosenAreNamed ==
    ASSUME NEW R, NEW list \in Seq(R), NEW answer \in Seq(Int)
    PROVE  /\ Rule!AppliedFrom(list, answer) \in Seq(R)
           /\ Rule!ToSet(Rule!AppliedFrom(list, answer))
                = UNION {Rule!Resolve(list, answer[j]) : j \in DOMAIN answer}
<1> DEFINE n == Len(answer)
           Took(i, c) ==
              IF answer[i] \in DOMAIN list /\ list[answer[i]] \notin Rule!ToSet(c)
              THEN Append(c, list[answer[i]]) ELSE c
           g == [i \in 1 .. n |-> [c \in Seq(R) |-> Took(i, c)]]
           Is(f) == f = [j \in 0 .. n |-> IF j = 0 THEN <<>> ELSE Took(j, f[j - 1])]
           f == CHOOSE f : Is(f)
           Named(i) == UNION {Rule!Resolve(list, answer[j]) : j \in 1 .. i}
<1>1. n \in Nat /\ <<>> \in Seq(R) /\ DOMAIN answer = 1 .. n
    OBVIOUS
<1>2. ASSUME NEW i \in 1 .. n, NEW c \in Seq(R)
      PROVE  /\ Took(i, c) \in Seq(R)
             /\ Rule!ToSet(Took(i, c)) = Rule!ToSet(c) \cup Rule!Resolve(list, answer[i])
    <2> DEFINE x == list[answer[i]]
    <2>1. CASE answer[i] \notin DOMAIN list
        BY <2>1 DEF Rule!Resolve
    <2>2. CASE answer[i] \in DOMAIN list /\ x \in Rule!ToSet(c)
        BY <2>2 DEF Rule!Resolve
    <2>3. CASE answer[i] \in DOMAIN list /\ x \notin Rule!ToSet(c)
        <3>1. x \in R /\ Took(i, c) = Append(c, x) /\ Rule!Resolve(list, answer[i]) = {x}
            BY <2>3 DEF Rule!Resolve
        <3> HIDE DEF x, Took
        <3>2. /\ Append(c, x) \in Seq(R) /\ DOMAIN Append(c, x) = DOMAIN c \cup {Len(c) + 1}
              /\ Append(c, x)[Len(c) + 1] = x /\ \A j \in DOMAIN c : Append(c, x)[j] = c[j]
            BY <3>1
        <3>3. Rule!ToSet(Append(c, x)) = Rule!ToSet(c) \cup {x}
            BY <3>2 DEF Rule!ToSet
        <3>4. QED
            BY <3>1, <3>2, <3>3
    <2>4. QED
        BY <2>1, <2>2, <2>3
<1> HIDE DEF n, Took
<1>3. /\ g \in [1 .. n -> [Seq(R) -> Seq(R)]]
      /\ \A i \in 1 .. n : \A c \in Seq(R) : g[i][c] = Took(i, c)
    BY <1>2
<1>4. PICK h : Iterates(h, n, Seq(R), <<>>, g)
    <2> HIDE DEF g
    <2>1. QED
        BY <1>1, <1>3, IterationExists
<1>5. \A i \in 1 .. n : h[i] = Took(i, h[i - 1])
    <2> HIDE DEF g
    <2>1. ASSUME NEW i \in 1 .. n PROVE h[i - 1] \in Seq(R)
        BY <1>1, <1>4 DEF Iterates
    <2>2. QED
        BY <2>1, <1>3, <1>4 DEF Iterates
<1>6. Is(h)
    BY <1>4, <1>5 DEF Iterates
<1>7. Is(f)
    <2> HIDE DEF Is
    <2>1. QED
        BY <1>6
<1>8. f[0] = <<>> /\ \A i \in 1 .. n : f[i] = Took(i, f[i - 1])
    <2> HIDE DEF f
    <2>1. ASSUME NEW i \in 0 .. n PROVE f[i] = IF i = 0 THEN <<>> ELSE Took(i, f[i - 1])
        BY <1>7
    <2>2. QED
        BY <2>1, <1>1
<1> HIDE DEF f
<1>9. ASSUME NEW i \in 0 .. n PROVE f[i] \in Seq(R) /\ Rule!ToSet(f[i]) = Named(i)
    <2> DEFINE Bad == {k \in 0 .. n : ~(f[k] \in Seq(R) /\ Rule!ToSet(f[k]) = Named(k))}
    <2>1. SUFFICES ASSUME Bad # {} PROVE FALSE
        OBVIOUS
    <2>2. PICK m \in Bad : \A k \in Bad : m <= k
        <3>1. Bad \in SUBSET Nat
            BY <1>1
        <3> HIDE DEF Bad
        <3>2. QED
            BY <2>1, <3>1, SmallestExists
    <2>3. m # 0
        <3>1. Named(0) = {} /\ Rule!ToSet(<<>>) = {} /\ f[0] \in Seq(R)
            BY <1>1, <1>8 DEF Rule!ToSet
        <3>2. QED
            BY <1>8, <2>2, <3>1
    <2>4. m \in 1 .. n /\ m - 1 \in 0 .. n /\ m - 1 \notin Bad
        <3>1. m \in 0 .. n
            OBVIOUS
        <3>2. \A k \in Bad : k \in Nat
            BY <1>1
        <3> HIDE DEF Bad
        <3>3. QED
            BY <1>1, <2>2, <2>3, <3>1, <3>2
    <2>5. f[m - 1] \in Seq(R) /\ Rule!ToSet(f[m - 1]) = Named(m - 1)
        BY <2>4
    <2>6. 1 .. m = (1 .. (m - 1)) \cup {m}
        BY <1>1, <2>4
    <2>7. Named(m) = Named(m - 1) \cup Rule!Resolve(list, answer[m])
        BY <2>6
    <2>8. f[m] \in Seq(R) /\ Rule!ToSet(f[m]) = Named(m)
        BY <1>2, <1>8, <2>4, <2>5, <2>7
    <2>9. QED
        BY <2>2, <2>8
<1>10. Rule!AppliedFrom(list, answer) = f[n]
    BY DEF Rule!AppliedFrom, f, Is, Took, n
<1>11. QED
    BY <1>1, <1>9, <1>10

RuleLists == Seq(RuleTexts) \cup {Rule!Nothing}

RuleLabs ==
    [ at : {"off", "remember", "judging", "working", "finished", "summary"},
      resume : BOOLEAN, shown : Seq(RuleTexts), over : BOOLEAN ]

RuleTypes ==
    /\ profile \in RuleLists /\ saved \in RuleLists /\ applied \in RuleLists
    /\ ruleLab \in RuleLabs
    /\ ruled \in [once : BOOLEAN, rules : SUBSET RuleTexts]

\* The file is there once the lab has its ruling, and holds it; a lab at work has the
\* same list in memory.
RulingInv ==
    /\ saved = Rule!Nothing <=> ~ruled.once
    /\ saved # Rule!Nothing => Rule!ToSet(saved) = ruled.rules
    /\ ruleLab.at \in {"working", "finished"} => applied = saved /\ saved # Rule!Nothing
    /\ ruleLab.at = "remember" /\ ~ruleLab.resume => saved = Rule!Nothing
    /\ ruleLab.at = "judging" => saved = Rule!Nothing /\ ~RememberOff
    /\ RememberOff => ruled.rules = {}
    /\ ruleLab.at = "finished" => ruled.rules \subseteq satisfied

RuleInv == RuleTypes /\ RulingInv

\* The mark of a list that is not there is no list.
LEMMA NothingIsNoList ==
    ASSUME NEW list \in Seq(RuleTexts)
    PROVE  list # Rule!Nothing
<1> SUFFICES ASSUME list = Rule!Nothing PROVE FALSE
    OBVIOUS
<1>1. 1 \in DOMAIN list /\ list[1] = "nothing"
    BY DEF Rule!Nothing
<1>2. list[1] \in RuleTexts
    BY <1>1
<1>3. QED
    BY <1>1, <1>2, StoresAssumption DEF Rule!RulesAssumption

\* The rules of a list are rules.
LEMMA ListsAreTyped ==
    ASSUME NEW list \in Seq(RuleTexts)
    PROVE  Rule!ToSet(list) \subseteq RuleTexts /\ Rule!ToSet(<<>>) = {} /\ <<>> \in Seq(RuleTexts)
    BY DEF Rule!ToSet

\* A session without a lab has no ruling.
LEMMA RuleInit ==
    Rule!Init => RuleInv
<1> SUFFICES ASSUME Rule!Init PROVE RuleInv
    OBVIOUS
<1>1. <<>> \in Seq(RuleTexts)
    OBVIOUS
<1>2. RuleTypes
    BY <1>1 DEF Rule!Init, RuleTypes, RuleLists, RuleLabs, Rule!NoLab, Rule!Unruled
<1>3. RulingInv
    BY DEF Rule!Init, RulingInv, Rule!NoLab, Rule!Unruled
<1>4. QED
    BY <1>2, <1>3 DEF RuleInv

\* Every change of the profile and every step of a lab keeps the ruling.
LEMMA RuleStepKeeps ==
    ASSUME RuleInv, [Rule!Next]_(Rule!vars)
    PROVE  RuleInv'
<1>0. /\ RuleTypes /\ RulingInv
      /\ <<>> \in Seq(RuleTexts) /\ Rule!ToSet(<<>>) = {}
      /\ MaxRules \in Nat
    BY StoresAssumption DEF RuleInv, Rule!RulesAssumption, Rule!ToSet
<1>l. Rule!Lists \subseteq Seq(RuleTexts)
    <2>1. \A a, b \in RuleTexts : <<a>> \in Seq(RuleTexts) /\ <<a, b>> \in Seq(RuleTexts)
        OBVIOUS
    <2>2. ASSUME NEW x \in Rule!Lists PROVE x \in Seq(RuleTexts)
        <3>1. x = <<>> \/ (\E a \in RuleTexts : x = <<a>>)
              \/ (\E a, b \in RuleTexts : x = <<a, b>>)
            BY DEF Rule!Lists
        <3>2. QED
            BY <1>0, <2>1, <3>1
    <2>3. QED
        BY <2>2
<1>c. Rule!Catalog \in Seq(RuleTexts)
    BY <1>0 DEF Rule!Catalog, RuleTypes, RuleLists
\* The profile says nothing of a lab.
<1>1. ASSUME profile' \in RuleLists, UNCHANGED <<saved, applied, ruleLab, ruled, satisfied>>
      PROVE  RuleInv'
    <2>1. RuleTypes'
        BY <1>0, <1>1 DEF RuleTypes
    <2>2. RulingInv'
        BY <1>0, <1>1 DEF RulingInv
    <2>3. QED
        BY <2>1, <2>2 DEF RuleInv
<1>2. ASSUME NEW r \in RuleTexts, Rule!AppendRule(r) PROVE RuleInv'
    <2>1. profile' \in RuleLists
        BY <1>2, <1>c DEF Rule!AppendRule, RuleLists
    <2>2. QED
        BY <1>1, <1>2, <2>1 DEF Rule!AppendRule
<1>3. ASSUME NEW rules \in Rule!Lists \cup {Rule!Nothing}, Rule!EditProfile(rules) PROVE RuleInv'
    <2>1. profile' \in RuleLists
        BY <1>3, <1>l DEF Rule!EditProfile, RuleLists
    <2>2. QED
        BY <1>1, <1>3, <2>1 DEF Rule!EditProfile
\* A list is settled: it is the first ruling of the lab, or the one there was.
<1>s. ASSUME NEW list \in Seq(RuleTexts), ruleLab.at \in {"remember", "judging"},
             saved' = list, applied' = list, ~ruled.once => ruled' = [once |-> TRUE, rules |-> Rule!ToSet(list)],
             ruled.once => Rule!ToSet(list) = ruled.rules /\ ruled' = ruled,
             RememberOff => Rule!ToSet(list) = {},
             ruleLab'.at = "working", ruleLab' \in RuleLabs,
             profile' = profile
      PROVE  RuleInv'
    <2>1. /\ list # Rule!Nothing /\ Rule!ToSet(list) \subseteq RuleTexts
          /\ ruled'.once = TRUE /\ ruled'.rules = Rule!ToSet(list)
          /\ ruled' \in [once : BOOLEAN, rules : SUBSET RuleTexts]
        <3>1. list # Rule!Nothing /\ Rule!ToSet(list) \subseteq RuleTexts
            BY NothingIsNoList, ListsAreTyped
        <3>2. CASE ruled.once
            BY <1>0, <1>s, <3>1, <3>2 DEF RuleTypes
        <3>3. CASE ~ruled.once
            <4> DEFINE r == [once |-> TRUE, rules |-> Rule!ToSet(list)]
            <4>1. ruled' = r
                BY <1>s, <3>3
            <4>2. r.once = TRUE /\ r.rules = Rule!ToSet(list)
                  /\ r \in [once : BOOLEAN, rules : SUBSET RuleTexts]
                BY <3>1
            <4> HIDE DEF r
            <4>3. QED
                BY <3>1, <4>1, <4>2
        <3>4. QED
            BY <3>2, <3>3
    <2>3. RuleTypes'
        BY <1>0, <1>s, <2>1 DEF RuleTypes, RuleLists
    <2>4. RulingInv'
        BY <1>s, <2>1 DEF RulingInv
    <2>5. QED
        BY <2>3, <2>4 DEF RuleInv
<1>4. CASE Rule!LabBegins
    <2>1. /\ ruleLab'.at = "remember" /\ ruleLab'.resume = FALSE /\ ruled'.once = FALSE
          /\ ruled'.rules = {} /\ saved' = Rule!Nothing /\ applied' = Rule!Nothing
          /\ ruleLab' \in RuleLabs
          /\ ruled' \in [once : BOOLEAN, rules : SUBSET RuleTexts]
        BY <1>0, <1>4 DEF Rule!LabBegins, Rule!NoLab, Rule!Unruled, RuleLabs
    <2>2. RuleTypes'
        BY <1>0, <1>4, <2>1 DEF Rule!LabBegins, RuleTypes, RuleLists
    <2>3. RulingInv'
        BY <2>1 DEF RulingInv
    <2>4. QED
        BY <2>2, <2>3 DEF RuleInv
<1>5. ASSUME NEW toSummary \in BOOLEAN, Rule!LabResumes(toSummary) PROVE RuleInv'
    <2>1. /\ ruleLab'.at \in {"remember", "summary"} /\ ruleLab'.resume = TRUE
          /\ ruleLab' \in RuleLabs
        BY <1>0, <1>5 DEF Rule!LabResumes, Rule!NoLab, RuleLabs
    <2>2. RuleTypes'
        BY <1>0, <1>5, <2>1 DEF Rule!LabResumes, RuleTypes, RuleLists
    <2>3. RulingInv'
        BY <1>0, <1>5, <2>1 DEF Rule!LabResumes, RulingInv
    <2>4. QED
        BY <2>2, <2>3 DEF RuleInv
<1>6. CASE Rule!Remembers
    <2>1. CASE ~RememberOff /\ ruleLab.resume /\ saved # Rule!Nothing
        <3>1. /\ ruleLab'.at = "working" /\ applied' = saved /\ UNCHANGED <<saved, ruled, profile>>
              /\ ruleLab' \in RuleLabs
            BY <1>0, <1>6, <2>1 DEF Rule!Remembers, RuleTypes, RuleLabs
        <3>2. RuleTypes'
            BY <1>0, <3>1 DEF RuleTypes
        <3>3. RulingInv'
            BY <1>0, <2>1, <3>1 DEF RulingInv
        <3>4. QED
            BY <3>2, <3>3 DEF RuleInv
    <2>2. CASE /\ ~(~RememberOff /\ ruleLab.resume /\ saved # Rule!Nothing)
               /\ RememberOff \/ Rule!Catalog = <<>>
        <3>1. /\ saved' = <<>> /\ applied' = <<>> /\ profile' = profile
              /\ ruled' = IF ruled.once THEN ruled ELSE [once |-> TRUE, rules |-> Rule!ToSet(<<>>)]
              /\ ruleLab'.at = "working" /\ ruleLab.at = "remember" /\ ruleLab' \in RuleLabs
            BY <1>0, <1>6, <2>2
            DEF Rule!Remembers, Rule!Settles, Rule!FirstRuling, RuleTypes, RuleLabs
        <3>2. ruled.once => ruled.rules = {}
            BY <1>0, <2>2, <3>1 DEF RulingInv, RuleTypes
        <3>3. QED
            BY <1>0, <1>s, <3>1, <3>2
    <2>3. CASE /\ ~(~RememberOff /\ ruleLab.resume /\ saved # Rule!Nothing)
               /\ ~(RememberOff \/ Rule!Catalog = <<>>)
        <3>1. /\ ruleLab.at = "remember" /\ ruleLab' = [ruleLab EXCEPT !.at = "judging", !.shown = Rule!Catalog]
              /\ UNCHANGED <<saved, applied, ruled, profile>>
            BY <1>6, <2>3 DEF Rule!Remembers
        <3>2. /\ ruleLab'.at = "judging"
              /\ ruleLab' \in RuleLabs
            BY <1>0, <1>c, <3>1 DEF RuleTypes, RuleLabs
        <3>3. RuleTypes'
            BY <1>0, <3>1, <3>2 DEF RuleTypes
        <3>4. RulingInv'
            BY <1>0, <2>3, <3>1, <3>2 DEF RulingInv, RuleTypes
        <3>5. QED
            BY <3>3, <3>4 DEF RuleInv
    <2>4. QED
        BY <2>1, <2>2, <2>3
<1>7. CASE Rule!JudgeHalts
    <2>1. /\ saved' = <<>> /\ applied' = <<>> /\ profile' = profile
          /\ ruled' = IF ruled.once THEN ruled ELSE [once |-> TRUE, rules |-> Rule!ToSet(<<>>)]
          /\ ruleLab'.at = "working" /\ ruleLab.at = "judging" /\ ruleLab' \in RuleLabs
        BY <1>0, <1>7
        DEF Rule!JudgeHalts, Rule!Settles, Rule!FirstRuling, RuleTypes, RuleLabs
    <2>2. ~ruled.once
        BY <1>0, <2>1 DEF RulingInv
    <2>3. QED
        BY <1>0, <1>s, <2>1, <2>2
<1>r. Rule!Rows \subseteq Seq(Int)
    <2>1. \A i, j \in Int : <<i>> \in Seq(Int) /\ <<i, j>> \in Seq(Int)
        OBVIOUS
    <2>2. <<>> \in Seq(Int) /\ \A i \in 0 .. MaxRules : i \in Int
        BY <1>0
    <2>3. \A i \in 1 .. MaxRules : i \in Int
        BY <1>0
    <2>4. ASSUME NEW x \in Rule!Rows PROVE x \in Seq(Int)
        <3>1. x = <<>> \/ (\E i \in 0 .. MaxRules : x = <<i>>)
              \/ (\E i, j \in 1 .. MaxRules : x = <<i, j>>)
            BY DEF Rule!Rows
        <3>2. QED
            BY <2>1, <2>2, <2>3, <3>1
    <2>5. QED
        BY <2>4
<1>8. ASSUME NEW answer \in Rule!Rows, Rule!JudgeRules(answer) PROVE RuleInv'
    <2> DEFINE list == Rule!AppliedFrom(ruleLab.shown, answer)
    <2>1. /\ saved' = list /\ applied' = list /\ profile' = profile
          /\ ruleLab'.at = "working" /\ ruleLab.at = "judging" /\ ruleLab' \in RuleLabs
        BY <1>0, <1>8 DEF Rule!JudgeRules, RuleTypes, RuleLabs
    <2>2. ~ruled.once /\ ~RememberOff
        BY <1>0, <2>1 DEF RulingInv
    <2>3. /\ list \in Seq(RuleTexts)
          /\ Rule!ToSet(list) = UNION {Rule!Resolve(ruleLab.shown, answer[j]) : j \in DOMAIN answer}
        <3>1. ruleLab.shown \in Seq(RuleTexts)
            BY <1>0 DEF RuleTypes, RuleLabs
        <3> HIDE DEF list
        <3>2. QED
            BY <1>r, <3>1, ChosenAreNamed DEF list
    <2>4. ruled' = [once |-> TRUE, rules |-> Rule!ToSet(list)]
        BY <1>8, <2>2, <2>3 DEF Rule!JudgeRules, Rule!FirstRuling
    <2> HIDE DEF list
    <2>5. QED
        BY <1>s, <2>1, <2>2, <2>3, <2>4
<1>9. ASSUME NEW answer \in Rule!Rows, Rule!StepIsJudged(answer) PROVE RuleInv'
    <2>1. /\ ruleLab.at = "working" /\ UNCHANGED <<profile, saved, applied, ruled>>
          /\ applied = saved /\ saved # Rule!Nothing
        BY <1>0, <1>9 DEF Rule!StepIsJudged, RulingInv
    <2>2. /\ ruleLab'.at \in {"working", "finished"}
          /\ ruleLab' \in RuleLabs
          /\ ruleLab'.at = "finished" => Rule!RulesSatisfied(answer)
        BY <1>0, <1>9 DEF Rule!StepIsJudged, Rule!MayFinish, RuleTypes, RuleLabs
    <2>3. Rule!RulesSatisfied(answer) => ruled.rules \subseteq satisfied'
        BY <1>0, <1>9, <2>1 DEF Rule!StepIsJudged, Rule!RulesSatisfied, RulingInv
    <2>4. RuleTypes'
        BY <1>0, <2>1, <2>2 DEF RuleTypes
    <2>5. RulingInv'
        BY <1>0, <2>1, <2>2, <2>3 DEF RulingInv
    <2>6. QED
        BY <2>4, <2>5 DEF RuleInv
<1>10. CASE Rule!LabStops
    <2>1. /\ ruleLab'.at = "off" /\ UNCHANGED <<profile, saved, applied, ruled>>
          /\ ruleLab' \in RuleLabs
        BY <1>0, <1>10 DEF Rule!LabStops, Rule!NoLab, RuleTypes, RuleLabs
    <2>2. RuleTypes'
        BY <1>0, <2>1 DEF RuleTypes
    <2>3. RulingInv'
        BY <1>0, <2>1 DEF RulingInv
    <2>4. QED
        BY <2>2, <2>3 DEF RuleInv
<1>13. CASE Rule!SandboxLost
    <2>1. /\ ruleLab'.at = "judging" /\ ruleLab.at = "judging"
          /\ UNCHANGED <<profile, saved, applied, ruled>> /\ ruleLab' \in RuleLabs
        BY <1>0, <1>13 DEF Rule!SandboxLost, RuleTypes, RuleLabs
    <2>2. RuleTypes'
        BY <1>0, <2>1 DEF RuleTypes
    <2>3. RulingInv'
        BY <1>0, <2>1 DEF RulingInv
    <2>4. QED
        BY <2>2, <2>3 DEF RuleInv
<1>14. CASE Rule!SummaryBegins
    <2>1. /\ ruleLab'.at = "summary"
          /\ UNCHANGED <<profile, saved, applied, ruled>> /\ ruleLab' \in RuleLabs
        BY <1>0, <1>14 DEF Rule!SummaryBegins, RuleTypes, RuleLabs
    <2>2. RuleTypes'
        BY <1>0, <2>1 DEF RuleTypes
    <2>3. RulingInv'
        BY <1>0, <2>1 DEF RulingInv
    <2>4. QED
        BY <2>2, <2>3 DEF RuleInv
<1>11. CASE UNCHANGED Rule!vars
    BY <1>0, <1>1, <1>11 DEF Rule!vars, RuleTypes
<1>12. QED
    BY <1>2, <1>3, <1>4, <1>5, <1>6, <1>7, <1>8, <1>9, <1>10, <1>11, <1>13, <1>14
    DEF Rule!Next

\* Whatever happens to the profile while the judge thinks or the lab is stopped, a lab
\* works with the rules that were ruled for it, and finishes with all of them satisfied.
THEOREM RulingIsKept ==
    Rule!Spec => []RulingHolds
<1>1. RuleInv /\ [Rule!Next]_(Rule!vars) => RuleInv'
    BY RuleStepKeeps
<1>2. RuleInv => RulingHolds
    BY DEF RuleInv, RulingInv, RulingHolds, Rule!RulingHolds
<1>3. QED
    BY <1>1, <1>2, RuleInit, PTL DEF Rule!Spec

-----------------------------------------------------------------------------
(* Cards: module Cards *)

Snapshots == UNION {[cs -> Texts] : cs \in SUBSET Ids}

DreamRecords ==
    [ at : {"off", "judging", "merging"}, cards : Snapshots, groups : SUBSET Groups,
      merged : SUBSET [card : Texts, sources : SUBSET Ids], retire : SUBSET Ids,
      all : SUBSET Ids ]

TxRecords ==
    [ by : {"nobody", "archive", "dream"}, id : 0 .. MaxId, card : Texts \cup {Gone},
      sources : SUBSET Ids, wrote : BOOLEAN ]

CardsTyped ==
    /\ file \in [Ids -> Texts \cup {Gone, Broken}]
    /\ rows \subseteq Ids /\ owed \subseteq Facts /\ edits \in 0 .. MaxEdits
    /\ archiving \subseteq Texts
    /\ tx \in TxRecords /\ dream \in DreamRecords

\* The id of a transaction is on no row, and on no file until it is written.
TxIsNew ==
    /\ tx.by = "nobody" => tx = Idle
    /\ tx # Idle => tx.id \in Ids \ rows /\ tx.card \in Texts
    /\ tx # Idle /\ ~tx.wrote => file[tx.id] = Gone

NewCardsInv == CardsTyped /\ TxIsNew

\* A text is neither the mark of no card nor that of a broken file.
LEMMA TextsAreCards ==
    /\ \A t \in Texts : t.facts \subseteq Facts /\ t.facts # {} /\ t.group \in Groups
                        /\ t # Gone /\ t # Broken
    /\ Gone.facts = {} /\ Broken.facts = {} /\ Gone # Broken
<1>1. ASSUME NEW t \in Texts
      PROVE  t.facts \subseteq Facts /\ t.facts # {} /\ t.group \in Groups
    BY DEF Texts
<1>2. Gone.group = "gone" /\ Broken.group = "broken" /\ Gone.facts = {} /\ Broken.facts = {}
    BY DEF Gone, Broken
<1>3. "gone" \notin Groups /\ "broken" \notin Groups
    BY CardsAssumption
<1>4. QED
    BY <1>1, <1>2, <1>3

\* The constants, for the steps that count.
LEMMA BoundsAreNumbers ==
    MaxId \in Nat /\ MaxEdits \in Nat
    BY CardsAssumption

\* An id that is given out is above every id that a card or a row has.
LEMMA IdIsNew ==
    ASSUME CardsTyped
    PROVE  /\ NewId \in Nat /\ NewId >= 1
           /\ \A c \in Active \cup rows : c < NewId
<1>1. /\ Active \cup rows \cup {0} \in SUBSET Nat
      /\ \A n \in Active \cup rows \cup {0} : n <= MaxId
    <2>1. Active \subseteq Ids /\ rows \subseteq Ids
        BY DEF CardsTyped, Active
    <2>2. \A n \in Ids : n \in Nat /\ n <= MaxId
        BY BoundsAreNumbers DEF Ids
    <2>3. QED
        BY <2>1, <2>2, BoundsAreNumbers
<1> DEFINE T == Active \cup rows \cup {0}
<1>2. Max(T) \in T /\ \A n \in T : Max(T) >= n
    <2> HIDE DEF T
    <2>1. T # {}
        BY DEF T
    <2>2. QED
        BY <1>1, <2>1, BoundsAreNumbers, MaxIsLargest DEF T
<1>3. Max(T) \in Nat /\ NewId = Max(T) + 1
    BY <1>1, <1>2 DEF NewId
<1> HIDE DEF T
<1>4. \A c \in T : c \in Nat /\ c <= Max(T)
    BY <1>1, <1>2 DEF T
<1>5. QED
    BY <1>3, <1>4 DEF T

\* A snapshot, and what is left of it.
LEMMA SnapshotIsTyped ==
    ASSUME NEW cards \in Snapshots
    PROVE  /\ DOMAIN cards \subseteq Ids /\ \A c \in DOMAIN cards : cards[c] \in Texts
           /\ \A cs \in SUBSET DOMAIN cards : [c \in cs |-> cards[c]] \in Snapshots
<1>1. PICK cs \in SUBSET Ids : cards \in [cs -> Texts]
    BY DEF Snapshots
<1>2. ASSUME NEW ds \in SUBSET DOMAIN cards PROVE [c \in ds |-> cards[c]] \in Snapshots
    <2>1. ds \in SUBSET Ids /\ [c \in ds |-> cards[c]] \in [ds -> Texts]
        BY <1>1
    <2> HIDE <1>1
    <2>2. QED
        BY <2>1 DEF Snapshots
<1>3. QED
    BY <1>1, <1>2

\* Without cards every id is new.
LEMMA NewCardsInit ==
    Init => NewCardsInv
<1> SUFFICES ASSUME Init PROVE NewCardsInv
    OBVIOUS
<1>1. [c \in {} |-> Gone] \in Snapshots
    <2>1. [c \in {} |-> Gone] \in [{} -> Texts] /\ {} \in SUBSET Ids
        OBVIOUS
    <2>2. QED
        BY <2>1 DEF Snapshots
<1>2. dream \in DreamRecords
    BY <1>1 DEF Init, DreamRecords, NoDream
<1>3. tx \in TxRecords
    BY BoundsAreNumbers DEF Init, TxRecords, Idle
<1>4. QED
    BY <1>2, <1>3, BoundsAreNumbers DEF Init, NewCardsInv, CardsTyped, TxIsNew, Idle

\* What a caller does when it gets no card leaves its work typed.
LEMMA NotCreatedIsTyped ==
    ASSUME CardsTyped, NEW by, NEW text, NEW sources, NEW failed,
           NotCreated(by, text, sources, failed)
    PROVE  archiving' \subseteq Texts /\ dream' \in DreamRecords
<1>1. CASE by = "archive"
    BY <1>1 DEF NotCreated, CardsTyped
<1>2. CASE by # "archive"
    <2>1. dream' = SourcesKept(text, sources) /\ archiving' = archiving
        BY <1>2 DEF NotCreated
    <2>2. SourcesKept(text, sources) \in DreamRecords
        BY DEF CardsTyped, DreamRecords, SourcesKept, WithoutMerge
    <2>3. QED
        BY <2>1, <2>2 DEF CardsTyped
<1>3. QED
    BY <1>1, <1>2

\* The steps of a card store keep its variables typed and the id at hand new.
LEMMA NewCardsStep ==
    ASSUME NewCardsInv, [Next]_vars
    PROVE  NewCardsInv'
<1>0. CardsTyped /\ TxIsNew
    BY DEF NewCardsInv
<1>t. /\ file \in [Ids -> Texts \cup {Gone, Broken}]
      /\ rows \subseteq Ids /\ owed \subseteq Facts /\ edits \in 0 .. MaxEdits
      /\ archiving \subseteq Texts
      /\ tx \in TxRecords /\ dream \in DreamRecords
    BY <1>0 DEF CardsTyped
\* Only the archive's list and the dream change.
<1>a. ASSUME archiving' \subseteq Texts, dream' \in DreamRecords,
             UNCHANGED <<file, rows, tx, edits, owed>>
      PROVE  NewCardsInv'
    <2>1. CardsTyped'
        BY <1>a, <1>t DEF CardsTyped
    <2>2. TxIsNew'
        BY <1>a, <1>0 DEF TxIsNew, Idle
    <2>3. QED
        BY <2>1, <2>2 DEF NewCardsInv
\* The transaction is over.
<1>b. ASSUME archiving' \subseteq Texts, dream' \in DreamRecords, tx' = Idle,
             rows' \subseteq Ids, UNCHANGED <<file, edits, owed>>
      PROVE  NewCardsInv'
    <2>1. Idle \in TxRecords
        BY BoundsAreNumbers DEF Idle, TxRecords
    <2>2. CardsTyped'
        BY <1>b, <1>t, <2>1 DEF CardsTyped
    <2>3. TxIsNew'
        BY <1>b DEF TxIsNew, Idle
    <2>4. QED
        BY <2>2, <2>3 DEF NewCardsInv
\* A file changes that is there, or is removed.
<1>c. ASSUME NEW c \in Ids, NEW v \in Texts \cup {Gone, Broken},
             file[c] # Gone \/ v = Gone,
             file' = [file EXCEPT ![c] = v], owed' \subseteq Facts, edits' \in 0 .. MaxEdits,
             dream' \in DreamRecords, UNCHANGED <<rows, tx, archiving>>
      PROVE  NewCardsInv'
    <2>1. CardsTyped'
        BY <1>c, <1>t DEF CardsTyped
    <2>2. TxIsNew'
        <3>1. tx # Idle /\ ~tx.wrote => file'[tx.id] = Gone
            <4> SUFFICES ASSUME tx # Idle, ~tx.wrote PROVE file'[tx.id] = Gone
                OBVIOUS
            <4>1. tx.id \in Ids /\ file[tx.id] = Gone
                BY <1>0 DEF TxIsNew
            <4>2. QED
                BY <1>c, <1>t, <4>1
        <3>2. QED
            BY <3>1, <1>c, <1>0 DEF TxIsNew, Idle
    <2>3. QED
        BY <2>1, <2>2 DEF NewCardsInv
<1>1. ASSUME NEW n \in 1 .. MaxNew, NEW texts \in kSubset(n, Texts), ArchiveBegins(texts)
      PROVE  NewCardsInv'
    <2>1. texts \subseteq Texts
        BY DEF kSubset
    <2>2. QED
        BY <1>1, <1>a, <1>t, <2>1 DEF ArchiveBegins
\* create_cards, for a text that has sources or none.
<1>2. ASSUME NEW by \in {"archive", "dream"}, NEW text \in Texts, NEW sources \in SUBSET Ids,
             Creates(by, text, sources)
      PROVE  NewCardsInv'
    <2>1. CASE TxBegins(by, text, sources)
        <3>1. NewId \in Ids \ rows /\ NewId \in 0 .. MaxId
            BY <1>0, <2>1, IdIsNew, BoundsAreNumbers DEF TxBegins, Ids
        <3>2. file[NewId] = Gone
            <4>1. NewId \notin Active
                BY <1>0, IdIsNew
            <4>2. QED
                BY <1>t, <2>1, <3>1, <4>1 DEF TxBegins, Active, Unreadable
        <3> DEFINE t == [by |-> by, id |-> NewId, card |-> text, sources |-> sources, wrote |-> FALSE]
        <3>3. /\ t \in TxRecords /\ t.by # "nobody" /\ t.id = NewId /\ t.card = text /\ tx' = t
            BY <2>1, <3>1 DEF TxRecords, TxBegins
        <3> HIDE DEF t
        <3>4. CardsTyped'
            BY <1>t, <2>1, <3>3 DEF CardsTyped, TxBegins
        <3>5. TxIsNew'
            BY <2>1, <3>1, <3>2, <3>3 DEF TxIsNew, TxBegins
        <3>6. QED
            BY <3>4, <3>5 DEF NewCardsInv
    <2>2. CASE TxRefuses(by, text, sources)
        BY <1>0, <1>a, <2>2, NotCreatedIsTyped DEF TxRefuses
    <2>3. CASE TxTimesOut(by, text, sources)
        BY <1>0, <1>a, <2>3, NotCreatedIsTyped DEF TxTimesOut
    <2>4. QED
        BY <1>2, <2>1, <2>2, <2>3 DEF Creates
<1>3. CASE ArchiveCreates
    BY <1>2, <1>3, <1>t DEF ArchiveCreates
<1>4. CASE DreamMerges
    <2>1. PICK m \in dream.merged : Creates("dream", m.card, m.sources)
        BY <1>4 DEF DreamMerges
    <2>2. m.card \in Texts /\ m.sources \in SUBSET Ids
        BY <1>t DEF DreamRecords
    <2>3. QED
        BY <1>2, <2>1, <2>2
<1>5. CASE TxWrites
    <2>1. tx.id \in Ids /\ tx.card \in Texts /\ tx # Idle
        BY <1>0, <1>5 DEF TxWrites, TxIsNew
    <2>2. tx' \in TxRecords /\ tx'.wrote = TRUE /\ tx'.by = tx.by /\ tx'.id = tx.id /\ tx'.card = tx.card
        BY <1>t, <1>5 DEF TxWrites, TxRecords
    <2>3. owed' \subseteq Facts
        BY <1>t, <1>5, <2>1, TextsAreCards DEF TxWrites
    <2>4. CardsTyped'
        BY <1>t, <1>5, <2>1, <2>2, <2>3 DEF TxWrites, CardsTyped
    <2>5. TxIsNew'
        BY <1>0, <1>5, <2>1, <2>2 DEF TxWrites, TxIsNew
    <2>6. QED
        BY <2>4, <2>5 DEF NewCardsInv
<1>6. CASE TxCommits
    <2>1. tx # Idle /\ tx.id \in Ids
        BY <1>0, <1>6 DEF TxCommits, TxIsNew, Idle
    <2>2. archiving' \subseteq Texts /\ dream' \in DreamRecords
        BY <1>t, <1>6 DEF TxCommits, Created, WithoutMerge, DreamRecords
    <2>3. QED
        BY <1>b, <1>t, <1>6, <2>1, <2>2 DEF TxCommits
<1>7. CASE TxFails
    BY <1>0, <1>b, <1>t, <1>7, NotCreatedIsTyped DEF TxFails
<1>8. CASE DreamBegins
    <2> DEFINE cards == [c \in Active |-> file[c]]
               groups == {g \in Groups : Cardinality(GroupOf(cards, g)) >= 2}
    <2>1. cards \in Snapshots
        <3>1. cards \in [Active -> Texts] /\ Active \in SUBSET Ids
            BY DEF Active
        <3> HIDE DEF cards
        <3>2. QED
            BY <3>1 DEF Snapshots
    <2>2. groups \in SUBSET Groups
        OBVIOUS
    <2> HIDE DEF cards, groups
    <2>3. [NoDream EXCEPT !.at = "judging", !.cards = cards, !.groups = groups] \in DreamRecords
        BY <2>1, <2>2 DEF NoDream, DreamRecords
    <2>4. QED
        BY <1>a, <1>t, <1>8, <2>3 DEF DreamBegins, cards, groups
<1>9. ASSUME NEW g \in Groups, JudgeAnswers(g) PROVE NewCardsInv'
    <2>0. PICK k \in 0 .. MaxMerged : \E ms \in kSubset(k, Merges(g)) :
             \E r \in SUBSET (GroupOf(dream.cards, g) \ Sources(ms)) :
                dream' = [dream EXCEPT !.at = "merging", !.groups = dream.groups \ {g}, !.merged = ms,
                                       !.retire = r \cup Sources(ms),
                                       !.cards = Unjudged(dream.groups \ {g})]
        BY <1>9 DEF JudgeAnswers
    <2>9. PICK ms \in kSubset(k, Merges(g)) :
             \E r \in SUBSET (GroupOf(dream.cards, g) \ Sources(ms)) :
                dream' = [dream EXCEPT !.at = "merging", !.groups = dream.groups \ {g}, !.merged = ms,
                                       !.retire = r \cup Sources(ms),
                                       !.cards = Unjudged(dream.groups \ {g})]
        BY <2>0
    <2>1. PICK r \in SUBSET (GroupOf(dream.cards, g) \ Sources(ms)) :
            dream' = [dream EXCEPT !.at = "merging", !.groups = dream.groups \ {g}, !.merged = ms,
                                   !.retire = r \cup Sources(ms),
                                   !.cards = Unjudged(dream.groups \ {g})]
        BY <2>9
    <2>2. dream.cards \in Snapshots
        BY <1>t DEF DreamRecords
    <2>3. GroupOf(dream.cards, g) \subseteq Ids
        BY <2>2, SnapshotIsTyped DEF GroupOf
    <2>4. Unjudged(dream.groups \ {g}) \in Snapshots
        BY <2>2, SnapshotIsTyped DEF Unjudged
    <2>5. ms \subseteq [card : Texts, sources : SUBSET Ids]
        <3>1. ms \subseteq Merges(g)
            BY DEF kSubset
        <3>2. ASSUME NEW s \in SUBSET GroupOf(dream.cards, g), Cardinality(s) >= 2
              PROVE  [group |-> g, facts |-> FactsOf(dream.cards, s)] \in Texts
            <4>1. s # {}
                BY <3>2, FS_EmptySet
            <4>2. s \subseteq DOMAIN dream.cards
                BY DEF GroupOf
            <4>3. \A c \in s : dream.cards[c] \in Texts
                BY <2>2, <4>2, SnapshotIsTyped
            <4>4. FactsOf(dream.cards, s) \subseteq Facts /\ FactsOf(dream.cards, s) # {}
                BY <4>1, <4>3, TextsAreCards DEF FactsOf
            <4>5. QED
                BY <4>4 DEF Texts
        <3>3. QED
            BY <2>3, <3>1, <3>2 DEF Merges
    <2>6. r \cup Sources(ms) \subseteq Ids
        BY <2>3, <2>5 DEF Sources
    <2>7. dream' \in DreamRecords
        BY <1>t, <2>1, <2>4, <2>5, <2>6 DEF DreamRecords
    <2>8. QED
        BY <1>a, <1>t, <1>9, <2>7 DEF JudgeAnswers
<1>10. ASSUME NEW g \in Groups, JudgeFails(g) PROVE NewCardsInv'
    <2>1. Unjudged(dream.groups \ {g}) \in Snapshots
        BY <1>t, SnapshotIsTyped DEF Unjudged, DreamRecords
    <2>2. dream' \in DreamRecords
        BY <1>t, <1>10, <2>1 DEF JudgeFails, DreamRecords
    <2>3. QED
        BY <1>a, <1>t, <1>10, <2>2 DEF JudgeFails
<1>11. CASE GroupIsDone
    <2>1. dream' \in DreamRecords
        BY <1>t, <1>11 DEF GroupIsDone, DreamRecords
    <2>2. QED
        BY <1>a, <1>t, <1>11, <2>1 DEF GroupIsDone
<1>12. CASE DreamRetires
    <2>1. Min(dream.all) \in Ids
        <3>1. dream.all \in SUBSET Nat /\ dream.all # {} /\ dream.all \subseteq Ids
            BY <1>t, <1>12, BoundsAreNumbers DEF DreamRetires, DreamRecords, Ids
        <3>2. QED
            BY <3>1, MinIsSmallest
    <2>2. dream' \in DreamRecords
        BY <1>t, <1>12 DEF DreamRetires, DreamRecords
    <2>3. QED
        BY <1>c, <1>t, <1>12, <2>1, <2>2 DEF DreamRetires
<1>n. NoDream \in DreamRecords
    <2>1. [c \in {} |-> Gone] \in [{} -> Texts] /\ {} \in SUBSET Ids
        OBVIOUS
    <2>2. [c \in {} |-> Gone] \in Snapshots
        BY <2>1 DEF Snapshots
    <2>3. QED
        BY <2>2 DEF NoDream, DreamRecords
<1>13. CASE DreamEnds
    BY <1>a, <1>n, <1>t, <1>13 DEF DreamEnds
<1>14. ASSUME NEW c \in Ids, Forget(c) PROVE NewCardsInv'
    <2>1. owed' \subseteq Facts
        BY <1>t, <1>14 DEF Forget
    <2>2. QED
        BY <1>c, <1>t, <1>14, <2>1 DEF Forget
<1>15. ASSUME NEW c \in Ids, NEW t \in Texts \cup {Broken}, Edit(c, t) PROVE NewCardsInv'
    <2>1. owed' \subseteq Facts /\ edits' \in 0 .. MaxEdits /\ file[c] # Gone
        BY <1>t, <1>15, BoundsAreNumbers DEF Edit
    <2>2. QED
        BY <1>c, <1>t, <1>15, <2>1 DEF Edit
<1>16. CASE Crash
    BY <1>b, <1>n, <1>t, <1>16 DEF Crash
<1>17. CASE UNCHANGED vars
    BY <1>a, <1>t, <1>17 DEF vars
<1>18. QED
    BY <1>1, <1>3, <1>4, <1>5, <1>6, <1>7, <1>8, <1>9, <1>10, <1>11, <1>12, <1>13, <1>14, <1>15,
       <1>16, <1>17 DEF Next

\* So the id at hand is new in every behaviour of the cards.
LEMMA NewCardsHold ==
    Spec => []NewCardsInv
<1>1. NewCardsInv /\ [Next]_vars => NewCardsInv'
    BY NewCardsStep
<1>2. QED
    BY <1>1, NewCardsInit, PTL DEF Spec

\* The types of the cards, for every bound.
THEOREM CardTypesHold ==
    Spec => []TypeOK
<1>1. NewCardsInv => TypeOK
    <2> SUFFICES ASSUME NewCardsInv PROVE TypeOK
        OBVIOUS
    <2>1. dream.cards \in Snapshots
        BY DEF NewCardsInv, CardsTyped, DreamRecords
    <2>2. DOMAIN dream.cards \subseteq Ids /\ \A c \in DOMAIN dream.cards : dream.cards[c] \in Texts
        BY <2>1, SnapshotIsTyped
    <2>3. QED
        BY <2>2 DEF NewCardsInv, CardsTyped, TypeOK, TxRecords, DreamRecords
<1>2. QED
    BY <1>1, NewCardsHold, PTL

\* Whatever was lost before, no new card replaces one that is there.
THEOREM NewCardsReplaceNothing ==
    Spec => NothingOverwritten
<1>1. NewCardsInv /\ [Next]_vars => [TxWrites => file[tx.id] = Gone]_vars
    BY DEF NewCardsInv, TxIsNew, TxWrites
<1>2. QED
    BY <1>1, NewCardsHold, PTL DEF Spec, NothingOverwritten

\* Cards that a dream knows of: still to be judged, or to be retired.
Known == DOMAIN dream.cards \cup dream.retire \cup dream.all

\* The dream goes a group at a time, its merges take none of the cards it still
\* judges or has done with, and the id of a card it knows is not given out again.
DreamInv ==
    /\ dream.at = "off" => dream = NoDream
    /\ dream.at = "judging" => dream.merged = {} /\ dream.retire = {}
    /\ DOMAIN dream.cards \cap (dream.retire \cup dream.all) = {}
    /\ \A m \in dream.merged : m.sources \cap (DOMAIN dream.cards \cup dream.all) = {}
    /\ \A c \in Known : c \in rows \/ file[c] # Gone

\* The dream's transaction is that of a merge at hand, for a card the dream does not
\* know, and what is owed of the merge is on the card once it is written.
MergeInv ==
    tx.by = "dream" =>
        /\ dream.at = "merging"
        /\ [card |-> tx.card, sources |-> tx.sources] \in dream.merged
        /\ tx.id \notin Known
        /\ tx.wrote => owed \cap tx.card.facts \subseteq file[tx.id].facts

\* Where a fact that is owed is found: on a card the dream does not touch, or on
\* all cards of its snapshot that said it, or in a merge that is still to be made.
Outside(f) == \E c \in Ids \ Known : f \in file[c].facts

InSnapshot(f) ==
    /\ \E c \in DOMAIN dream.cards : f \in dream.cards[c].facts
    /\ \A c \in DOMAIN dream.cards : f \in dream.cards[c].facts => f \in file[c].facts

InMerge(f) ==
    \E m \in dream.merged :
        /\ f \in m.card.facts
        /\ \E c \in m.sources : f \in file[c].facts

FactsInv == \A f \in owed : Outside(f) \/ InSnapshot(f) \/ InMerge(f)

CardsInv == NewCardsInv /\ DreamInv /\ MergeInv /\ FactsInv

\* Without cards no fact is owed.
LEMMA CardsInit ==
    Init => CardsInv
<1> SUFFICES ASSUME Init PROVE CardsInv
    OBVIOUS
<1>1. dream = NoDream /\ tx.by = "nobody" /\ owed = {}
    BY DEF Init, Idle
<1>2. DreamInv
    <2>1. DOMAIN NoDream.cards = {} /\ NoDream.retire = {} /\ NoDream.all = {} /\ NoDream.merged = {}
          /\ NoDream.at = "off"
        BY DEF NoDream
    <2>2. QED
        BY <1>1, <2>1 DEF DreamInv, Known
<1>3. MergeInv /\ FactsInv
    BY <1>1 DEF MergeInv, FactsInv
<1>4. QED
    BY <1>2, <1>3, NewCardsInit DEF CardsInv

\* What is said of a dream that is over.
LEMMA NoDreamKnows ==
    ASSUME dream = NoDream
    PROVE  /\ Known = {} /\ dream.at = "off" /\ dream.merged = {} /\ DOMAIN dream.cards = {}
           /\ dream.retire = {} /\ dream.all = {}
    BY DEF NoDream, Known

\* A fact is on a card, whichever way the invariant finds it.
LEMMA FactIsFound ==
    ASSUME NewCardsInv, NEW f, Outside(f) \/ InSnapshot(f) \/ InMerge(f)
    PROVE  \E c \in Ids : f \in file[c].facts
<1>1. /\ DOMAIN dream.cards \subseteq Ids
      /\ \A m \in dream.merged : m.sources \subseteq Ids
    BY SnapshotIsTyped DEF NewCardsInv, CardsTyped, DreamRecords
<1>2. QED
    BY <1>1 DEF Outside, InSnapshot, InMerge

\* A dream that ends, by itself or by a crash, leaves every fact where it is.
LEMMA DreamIsOver ==
    ASSUME CardsInv, dream' = NoDream, file' = file, owed' \subseteq owed
    PROVE  DreamInv' /\ FactsInv'
<1>1. Known' = {} /\ dream'.merged = {} /\ DOMAIN dream'.cards = {} /\ dream'.at = "off"
      /\ dream'.retire = {} /\ dream'.all = {}
    BY DEF NoDream, Known
<1>2. DreamInv'
    BY <1>1 DEF DreamInv
<1>3. ASSUME NEW f \in owed' PROVE Outside(f)'
    <2>1. \E c \in Ids : f \in file[c].facts
        BY FactIsFound DEF CardsInv, FactsInv
    <2>2. QED
        BY <1>1, <2>1 DEF Outside
<1>4. QED
    BY <1>2, <1>3 DEF FactsInv

\* A merge leaves the dream's list, made or given up: what it was to say is on a card
\* that the dream does not retire.
LEMMA MergeLeaves ==
    ASSUME CardsInv, NEW m \in dream.merged, NEW kept \in SUBSET dream.retire,
           dream' = [dream EXCEPT !.merged = dream.merged \ {m}, !.retire = kept],
           file' = file, owed' = owed, rows \subseteq rows', dream.at = "merging",
           \A f \in owed : f \in m.card.facts /\ (\E c \in m.sources : f \in file[c].facts)
                => \E c \in Ids \ (DOMAIN dream.cards \cup kept \cup dream.all) : f \in file[c].facts
    PROVE  DreamInv' /\ FactsInv'
<1>1. /\ dream'.at = dream.at /\ dream'.cards = dream.cards /\ dream'.all = dream.all
      /\ dream'.merged = dream.merged \ {m} /\ dream'.retire = kept
    BY DEF CardsInv, NewCardsInv, CardsTyped, DreamRecords
<1>2. Known' \subseteq Known /\ Known' = DOMAIN dream.cards \cup kept \cup dream.all
    BY <1>1 DEF Known
<1>3. DreamInv'
    <2>1. \A c \in Known' : c \in rows' \/ file'[c] # Gone
        BY <1>2 DEF CardsInv, DreamInv
    <2>2. DOMAIN dream'.cards \cap (dream'.retire \cup dream'.all) = {}
        BY <1>1 DEF CardsInv, DreamInv
    <2>3. QED
        BY <1>1, <2>1, <2>2 DEF CardsInv, DreamInv
<1>4. ASSUME NEW f \in owed PROVE (Outside(f) \/ InSnapshot(f) \/ InMerge(f))'
    <2>1. CASE Outside(f)
        BY <1>2, <2>1 DEF Outside
    <2>2. CASE InSnapshot(f)
        BY <1>1, <2>2 DEF InSnapshot
    <2>3. ASSUME NEW n \in dream.merged, f \in n.card.facts,
                 \E c \in n.sources : f \in file[c].facts
          PROVE  Outside(f)' \/ InMerge(f)'
        <3>1. CASE n = m
            BY <1>2, <2>3, <3>1 DEF Outside
        <3>2. CASE n # m
            BY <1>1, <2>3, <3>2 DEF InMerge
        <3>3. QED
            BY <3>1, <3>2
    <2>4. QED
        BY <2>1, <2>2, <2>3 DEF CardsInv, FactsInv, InMerge
<1>5. QED
    BY <1>3, <1>4 DEF FactsInv

\* A merge that gave no card: its sources are kept.
LEMMA SourcesStay ==
    ASSUME CardsInv, NEW text, NEW sources, dream.at = "merging",
           [card |-> text, sources |-> sources] \in dream.merged,
           dream' = SourcesKept(text, sources), file' = file, owed' = owed, rows' = rows
    PROVE  DreamInv' /\ FactsInv'
<1> DEFINE m == [card |-> text, sources |-> sources]
           kept == dream.retire \ sources
<1>1. m.card = text /\ m.sources = sources /\ m \in dream.merged
    OBVIOUS
<1> HIDE DEF m
<1>2. dream' = [dream EXCEPT !.merged = dream.merged \ {m}, !.retire = kept]
    BY DEF SourcesKept, WithoutMerge, m, CardsInv, NewCardsInv, CardsTyped, DreamRecords
<1>3. m.sources \subseteq Ids \ (DOMAIN dream.cards \cup kept \cup dream.all)
    <2>1. m.sources \subseteq Ids
        BY <1>1 DEF CardsInv, NewCardsInv, CardsTyped, DreamRecords
    <2>2. m.sources \cap (DOMAIN dream.cards \cup dream.all) = {}
        BY <1>1 DEF CardsInv, DreamInv
    <2>3. QED
        BY <1>1, <2>1, <2>2
<1>4. kept \in SUBSET dream.retire
    OBVIOUS
<1> HIDE DEF kept
<1>5. QED
    BY <1>1, <1>2, <1>3, <1>4, MergeLeaves

\* The judge reads a group: what was in its snapshot is in a merge, or on a card that
\* is left alone.
LEMMA GroupIsJudged ==
    ASSUME CardsInv, NEW g \in Groups, dream.at = "judging",
           NEW ms \in SUBSET Merges(g), NEW r \in SUBSET (GroupOf(dream.cards, g) \ Sources(ms)),
           Redundant(g, r), file' = file, owed' = owed, rows' = rows, tx' = tx,
           dream' = [dream EXCEPT !.at = "merging", !.groups = dream.groups \ {g}, !.merged = ms,
                                  !.retire = r \cup Sources(ms),
                                  !.cards = Unjudged(dream.groups \ {g})]
    PROVE  DreamInv' /\ FactsInv'
<1> DEFINE old == dream.cards
           new == Unjudged(dream.groups \ {g})
           gone == r \cup Sources(ms)
<1>1. /\ dream'.at = "merging" /\ dream'.cards = new /\ dream'.merged = ms
      /\ dream'.retire = gone /\ dream'.all = dream.all
    BY DEF CardsInv, NewCardsInv, CardsTyped, DreamRecords
<1>2. /\ DOMAIN new = {c \in DOMAIN old : old[c].group \in dream.groups \ {g}}
      /\ \A c \in DOMAIN new : new[c] = old[c]
    BY DEF Unjudged
<1>3. \A m \in ms : /\ m.sources \subseteq GroupOf(old, g)
                    /\ m.card.facts = FactsOf(old, m.sources)
    BY DEF Merges
<1>4. gone \subseteq GroupOf(old, g)
    BY <1>3 DEF Sources
<1>5. \A c \in GroupOf(old, g) : c \in DOMAIN old /\ old[c].group = g
    BY DEF GroupOf
<1>6. /\ dream.merged = {} /\ DOMAIN old \cap dream.all = {}
      /\ \A c \in Known : c \in rows \/ file[c] # Gone
    BY DEF CardsInv, DreamInv
<1> HIDE DEF old, new, gone
<1>7. Known' = DOMAIN new \cup gone \cup dream.all
    BY <1>1 DEF Known
<1>8. DOMAIN new \subseteq DOMAIN old /\ gone \subseteq DOMAIN old /\ DOMAIN new \cap gone = {}
    BY <1>2, <1>4, <1>5
<1>9. Known' \subseteq Known
    BY <1>7, <1>8 DEF Known, old
<1>10. DreamInv'
    <2>1. DOMAIN new \cap (gone \cup dream.all) = {}
        BY <1>6, <1>8
    <2>2. \A m \in ms : m.sources \cap (DOMAIN new \cup dream.all) = {}
        BY <1>2, <1>3, <1>5, <1>6
    <2>3. \A c \in Known' : c \in rows' \/ file'[c] # Gone
        BY <1>6, <1>9
    <2>4. QED
        BY <1>1, <2>1, <2>2, <2>3 DEF DreamInv
<1>11. ASSUME NEW f \in owed PROVE (Outside(f) \/ InSnapshot(f) \/ InMerge(f))'
    <2>1. CASE Outside(f)
        BY <1>9, <2>1 DEF Outside
    <2>2. ASSUME InSnapshot(f), ~Outside(f)' PROVE (InSnapshot(f) \/ InMerge(f))'
        <3>1. DOMAIN old \subseteq Ids
            BY SnapshotIsTyped DEF old, CardsInv, NewCardsInv, CardsTyped, DreamRecords
        <3>2. /\ \E c \in DOMAIN old : f \in old[c].facts
              /\ \A c \in DOMAIN old : f \in old[c].facts => f \in file[c].facts
            BY <2>2 DEF InSnapshot, old
        <3>3. \A c \in DOMAIN old : f \in old[c].facts => c \in DOMAIN new \cup gone
            BY <1>6, <1>7, <2>2, <3>1, <3>2 DEF Outside
        <3>4. CASE \E c \in DOMAIN new : f \in new[c].facts
            BY <1>1, <1>2, <1>8, <3>2, <3>4 DEF InSnapshot
        <3>5. CASE ~ \E c \in DOMAIN new : f \in new[c].facts
            <4>1. \A c \in DOMAIN old : f \in old[c].facts => c \in gone
                BY <1>2, <3>3, <3>5
            <4>2. \E c \in DOMAIN old : f \in old[c].facts /\ c \in Sources(ms)
                <5>1. PICK c \in DOMAIN old : f \in old[c].facts
                    BY <3>2
                <5>2. CASE c \in r
                    <6>1. f \in FactsOf(old, r)
                        BY <5>1, <5>2 DEF FactsOf
                    <6>2. f \in FactsOf(old, GroupOf(old, g) \ r)
                        BY <6>1 DEF Redundant, old
                    <6>3. PICK d \in GroupOf(old, g) \ r : f \in old[d].facts
                        BY <6>2 DEF FactsOf
                    <6>4. QED
                        BY <1>5, <4>1, <6>3 DEF gone
                <5>3. QED
                    BY <4>1, <5>1, <5>2 DEF gone
            <4>3. PICK m \in ms : \E c \in m.sources : c \in DOMAIN old /\ f \in old[c].facts
                BY <4>2 DEF Sources
            <4>4. f \in m.card.facts
                BY <1>3, <4>3 DEF FactsOf
            <4>5. \E c \in m.sources : f \in file'[c].facts
                BY <3>2, <4>3
            <4>6. QED
                BY <1>1, <4>4, <4>5 DEF InMerge
        <3>6. QED
            BY <3>4, <3>5
    <2>3. ~InMerge(f)
        BY <1>6 DEF InMerge
    <2>4. QED
        BY <2>1, <2>2, <2>3 DEF CardsInv, FactsInv
<1>12. QED
    BY <1>10, <1>11 DEF FactsInv

\* A group that is not judged after all.
LEMMA GroupIsSkipped ==
    ASSUME CardsInv, NEW g \in Groups, JudgeFails(g)
    PROVE  DreamInv' /\ FactsInv'
<1> DEFINE old == dream.cards
           new == Unjudged(dream.groups \ {g})
<1>1. /\ dream'.at = "judging" /\ dream.at = "judging" /\ dream'.cards = new
      /\ dream'.merged = dream.merged /\ dream'.retire = dream.retire /\ dream'.all = dream.all
      /\ UNCHANGED <<file, rows, owed>>
    BY DEF JudgeFails, CardsInv, NewCardsInv, CardsTyped, DreamRecords
<1>2. /\ DOMAIN new = {c \in DOMAIN old : old[c].group \in dream.groups \ {g}}
      /\ \A c \in DOMAIN new : new[c] = old[c]
    BY DEF Unjudged
<1> HIDE DEF new
<1>3. Known' \subseteq Known /\ Known' = DOMAIN new \cup dream.retire \cup dream.all
    BY <1>1, <1>2 DEF Known
<1>4. DreamInv'
    <2>1. \A c \in Known' : c \in rows' \/ file'[c] # Gone
        BY <1>1, <1>3 DEF CardsInv, DreamInv
    <2>2. QED
        BY <1>1, <1>2, <2>1 DEF CardsInv, DreamInv
<1>5. ASSUME NEW f \in owed PROVE (Outside(f) \/ InSnapshot(f) \/ InMerge(f))'
    <2>1. CASE Outside(f)
        BY <1>1, <1>3, <2>1 DEF Outside
    <2>2. ASSUME InSnapshot(f), ~Outside(f)' PROVE InSnapshot(f)'
        <3>1. DOMAIN old \subseteq Ids
            BY SnapshotIsTyped DEF CardsInv, NewCardsInv, CardsTyped, DreamRecords
        <3>2. PICK c \in DOMAIN old : f \in old[c].facts /\ f \in file[c].facts
            BY <2>2 DEF InSnapshot
        <3>3. c \in DOMAIN new
            <4>1. c \notin dream.retire \cup dream.all
                BY DEF CardsInv, DreamInv
            <4>2. QED
                BY <1>1, <1>3, <2>2, <3>1, <3>2, <4>1 DEF Outside
        <3>4. QED
            BY <1>1, <1>2, <2>2, <3>2, <3>3 DEF InSnapshot
    <2>3. ~InMerge(f)
        BY <1>1 DEF CardsInv, DreamInv, InMerge
    <2>4. QED
        BY <2>1, <2>2, <2>3 DEF CardsInv, FactsInv
<1>6. QED
    BY <1>1, <1>4, <1>5 DEF FactsInv

\* A card that the dream does not know, or that it is done with, changes only by what a
\* person takes from it; so does any card, when it keeps every fact that stays owed.
LEMMA FileChanges ==
    ASSUME CardsInv, NEW c \in Ids, NEW v \in Texts \cup {Gone, Broken},
           file' = [file EXCEPT ![c] = v], dream' = dream, rows' = rows, tx' = tx,
           owed' \subseteq owed, \A f \in owed' : f \in file[c].facts => f \in v.facts,
           c \in Known => c \in rows \/ v # Gone
    PROVE  DreamInv' /\ MergeInv' /\ FactsInv'
<1>1. file \in [Ids -> Texts \cup {Gone, Broken}]
    BY DEF CardsInv, NewCardsInv, CardsTyped
<1>2. \A d \in Ids : file'[d] = IF d = c THEN v ELSE file[d]
    BY <1>1
<1>3. Known' = Known /\ Known \subseteq Ids
    BY SnapshotIsTyped DEF Known, CardsInv, NewCardsInv, CardsTyped, DreamRecords
<1>4. \A f \in owed' : \A d \in Ids : f \in file[d].facts => f \in file'[d].facts
    BY <1>2
<1>5. DreamInv'
    <2>1. \A d \in Known : d \in rows \/ file'[d] # Gone
        BY <1>2, <1>3 DEF CardsInv, DreamInv
    <2>2. QED
        BY <1>3, <2>1 DEF CardsInv, DreamInv
<1>6. MergeInv'
    <2>1. tx.by = "dream" => tx.id \in Ids
        BY DEF CardsInv, NewCardsInv, TxIsNew, Idle
    <2>2. QED
        BY <1>3, <1>4, <2>1 DEF CardsInv, MergeInv
<1>7. FactsInv'
    <2>1. /\ DOMAIN dream.cards \subseteq Ids
          /\ \A m \in dream.merged : m.sources \subseteq Ids
        BY SnapshotIsTyped DEF CardsInv, NewCardsInv, CardsTyped, DreamRecords
    <2>2. ASSUME NEW f \in owed' PROVE (Outside(f) \/ InSnapshot(f) \/ InMerge(f))'
        <3>1. CASE Outside(f)
            BY <1>3, <1>4, <3>1 DEF Outside
        <3>2. CASE InSnapshot(f)
            BY <1>4, <2>1, <3>2 DEF InSnapshot
        <3>3. CASE InMerge(f)
            BY <1>4, <2>1, <3>3 DEF InMerge
        <3>4. QED
            BY <3>1, <3>2, <3>3 DEF CardsInv, FactsInv
    <2>3. QED
        BY <2>2 DEF FactsInv
<1>8. QED
    BY <1>5, <1>6, <1>7

\* The step of each actor keeps the facts; a card without a row is not forgotten while
\* the dream runs.
LEMMA CardsStepKeeps ==
    ASSUME OrphanForgotten = FALSE, CardsInv, [Next]_vars
    PROVE  CardsInv'
<1>0. CardsTyped /\ TxIsNew /\ DreamInv /\ MergeInv /\ FactsInv
    BY DEF CardsInv, NewCardsInv
<1>t. /\ file \in [Ids -> Texts \cup {Gone, Broken}]
      /\ rows \subseteq Ids /\ tx \in TxRecords /\ dream \in DreamRecords
    BY <1>0 DEF CardsTyped
<1> SUFFICES DreamInv' /\ MergeInv' /\ FactsInv'
    BY NewCardsStep DEF CardsInv
\* Neither a file nor the dream changes.
<1>a. ASSUME UNCHANGED <<file, dream, owed>>, rows \subseteq rows'
      PROVE  DreamInv' /\ FactsInv'
    <2>1. DreamInv'
        BY <1>0, <1>a DEF DreamInv, Known
    <2>2. FactsInv'
        BY <1>0, <1>a DEF FactsInv, Outside, InSnapshot, InMerge, Known
    <2>3. QED
        BY <2>1, <2>2
\* The dream has no transaction.
<1>b. ASSUME tx'.by # "dream" PROVE MergeInv'
    BY <1>b DEF MergeInv
<1>c. ASSUME UNCHANGED <<file, dream, owed, tx>> PROVE MergeInv'
    BY <1>0, <1>c DEF MergeInv, Known
<1>d. Idle.by # "dream"
    BY DEF Idle
<1>1. ASSUME NEW texts, ArchiveBegins(texts) PROVE DreamInv' /\ MergeInv' /\ FactsInv'
    BY <1>1, <1>a, <1>c DEF ArchiveBegins
<1>2. CASE ArchiveCreates
    <2>1. PICK t \in archiving : Creates("archive", t, {})
        BY <1>2 DEF ArchiveCreates
    <2>2. CASE TxBegins("archive", t, {})
        BY <1>a, <1>b, <2>2 DEF TxBegins
    <2>3. CASE TxRefuses("archive", t, {}) \/ TxTimesOut("archive", t, {})
        BY <1>a, <1>c, <2>3 DEF TxRefuses, TxTimesOut, NotCreated
    <2>4. QED
        BY <2>1, <2>2, <2>3 DEF Creates
<1>3. CASE DreamMerges
    <2>1. PICK m \in dream.merged : Creates("dream", m.card, m.sources)
        BY <1>3 DEF DreamMerges
    <2>2. m = [card |-> m.card, sources |-> m.sources] /\ dream.at = "merging" /\ tx.by # "dream"
        BY <1>t, <1>3, <2>1 DEF DreamRecords, DreamMerges, Creates
    <2>3. CASE TxBegins("dream", m.card, m.sources)
        <3>1. NewId \notin rows /\ NewId \notin Active /\ NewId \in Ids
            BY <1>0, <2>3, IdIsNew, BoundsAreNumbers DEF TxBegins, Ids, CardsTyped
        <3>2. file[NewId] = Gone
            BY <1>t, <2>3, <3>1 DEF TxBegins, Active, Unreadable
        <3>3. NewId \notin Known
            BY <1>0, <3>1, <3>2 DEF DreamInv
        <3>4. /\ tx'.by = "dream" /\ tx'.id = NewId /\ tx'.card = m.card /\ tx'.sources = m.sources
              /\ tx'.wrote = FALSE /\ dream' = dream
            BY <2>3 DEF TxBegins
        <3>5. MergeInv'
            BY <2>2, <3>3, <3>4 DEF MergeInv, Known
        <3>6. QED
            BY <1>a, <2>3, <3>5 DEF TxBegins
    <2>4. CASE TxRefuses("dream", m.card, m.sources) \/ TxTimesOut("dream", m.card, m.sources)
        <3>1. dream' = SourcesKept(m.card, m.sources) /\ UNCHANGED <<file, rows, tx, owed>>
            BY <2>4 DEF TxRefuses, TxTimesOut, NotCreated
        <3>2. QED
            BY <1>b, <2>2, <3>1, SourcesStay
    <2>5. QED
        BY <2>1, <2>3, <2>4 DEF Creates
<1>4. CASE TxWrites
    <2>1. /\ tx.id \in Ids \ rows /\ file[tx.id] = Gone /\ tx.card \in Texts
          /\ UNCHANGED <<rows, dream>>
        BY <1>0, <1>4 DEF TxWrites, TxIsNew
    <2>2. tx.id \notin Known /\ Known' = Known
        BY <1>0, <2>1 DEF DreamInv, Known
    <2>3. /\ \A d \in Ids : d # tx.id => file'[d] = file[d]
          /\ file'[tx.id] = tx.card
        BY <1>t, <1>4, <2>1 DEF TxWrites
    <2>4. \A d \in Ids : \A f : f \in file[d].facts => d # tx.id
        BY <2>1, TextsAreCards
    <2>5. Known \subseteq Ids /\ DOMAIN dream.cards \subseteq Known
          /\ \A m \in dream.merged : m.sources \subseteq Ids
        BY <1>t, SnapshotIsTyped DEF Known, DreamRecords
    <2>6. DreamInv'
        <3>1. \A d \in Known' : d \in rows' \/ file'[d] # Gone
            BY <1>0, <2>1, <2>2, <2>3, <2>5 DEF DreamInv
        <3>2. QED
            BY <1>0, <2>1, <3>1 DEF DreamInv
    <2>7. MergeInv'
        <3>1. tx'.by = tx.by /\ tx'.id = tx.id /\ tx'.card = tx.card /\ tx'.sources = tx.sources
            BY <1>t, <1>4 DEF TxWrites, TxRecords
        <3>2. QED
            BY <1>0, <2>1, <2>2, <2>3, <3>1 DEF MergeInv
    <2>8. ASSUME NEW f \in owed' PROVE (Outside(f) \/ InSnapshot(f) \/ InMerge(f))'
        <3>1. CASE f \notin owed
            <4>1. f \in file'[tx.id].facts
                BY <1>4, <2>3, <3>1 DEF TxWrites
            <4>2. QED
                BY <2>1, <2>2, <4>1 DEF Outside
        <3>2. CASE f \in owed /\ Outside(f)
            BY <2>2, <2>3, <2>4, <3>2 DEF Outside
        <3>3. CASE f \in owed /\ InSnapshot(f)
            BY <2>1, <2>2, <2>3, <2>5, <3>3 DEF InSnapshot
        <3>4. CASE f \in owed /\ InMerge(f)
            BY <2>1, <2>3, <2>4, <2>5, <3>4 DEF InMerge
        <3>5. QED
            BY <1>0, <3>1, <3>2, <3>3, <3>4 DEF FactsInv
    <2>9. QED
        BY <2>6, <2>7, <2>8 DEF FactsInv
<1>5. CASE TxCommits
    <2>1. /\ tx' = Idle /\ rows' = rows \cup {tx.id} /\ UNCHANGED <<file, owed>>
          /\ tx # Idle /\ tx.by \in {"archive", "dream"} /\ tx.wrote
        BY <1>0, <1>t, <1>5 DEF TxCommits, TxIsNew, TxRecords, Idle
    <2>2. MergeInv'
        BY <1>b, <1>d, <2>1
    <2>3. CASE tx.by = "archive"
        BY <1>5, <1>a, <2>1, <2>2, <2>3 DEF TxCommits, Created
    <2>4. CASE tx.by = "dream"
        <3> DEFINE m == [card |-> tx.card, sources |-> tx.sources]
        <3>1. /\ dream.at = "merging" /\ m \in dream.merged /\ tx.id \notin Known
              /\ owed \cap tx.card.facts \subseteq file[tx.id].facts /\ m.card = tx.card
              /\ tx.id \in Ids
            BY <1>0, <2>1, <2>4 DEF MergeInv, TxIsNew
        <3>2. dream' = [dream EXCEPT !.merged = dream.merged \ {m}, !.retire = dream.retire]
            BY <1>t, <1>5, <2>4 DEF TxCommits, Created, WithoutMerge, DreamRecords
        <3> HIDE DEF m
        <3>3. \A f \in owed : f \in m.card.facts =>
                 \E c \in Ids \ (DOMAIN dream.cards \cup dream.retire \cup dream.all) : f \in file[c].facts
            BY <3>1 DEF Known
        <3>4. DreamInv' /\ FactsInv'
            <4>1. dream.retire \in SUBSET dream.retire /\ rows \subseteq rows'
                BY <2>1
            <4>2. QED
                BY <2>1, <3>1, <3>2, <3>3, <4>1, MergeLeaves
        <3>5. QED
            BY <2>2, <3>4
    <2>5. QED
        BY <2>1, <2>3, <2>4
<1>6. CASE TxFails
    <2>1. tx' = Idle /\ UNCHANGED <<file, rows, owed>> /\ tx.by \in {"archive", "dream"}
        BY <1>0, <1>t, <1>6 DEF TxFails, TxIsNew, TxRecords
    <2>2. MergeInv'
        BY <1>b, <1>d, <2>1
    <2>3. CASE tx.by = "archive"
        BY <1>6, <1>a, <2>1, <2>2, <2>3 DEF TxFails, NotCreated
    <2>4. CASE tx.by = "dream"
        <3>1. dream' = SourcesKept(tx.card, tx.sources) /\ dream.at = "merging"
              /\ [card |-> tx.card, sources |-> tx.sources] \in dream.merged
            BY <1>0, <1>6, <2>4 DEF TxFails, NotCreated, MergeInv
        <3>2. QED
            BY <2>1, <2>2, <3>1, SourcesStay
    <2>5. QED
        BY <2>1, <2>3, <2>4
\* The dream does not merge, so no transaction is its own.
<1>e. ASSUME dream.at # "merging", tx' = tx PROVE MergeInv'
    BY <1>0, <1>e DEF MergeInv
<1>7. CASE DreamBegins
    <2> DEFINE cards == [c \in Active |-> file[c]]
               groups == {g \in Groups : Cardinality(GroupOf(cards, g)) >= 2}
    <2>1. /\ dream = NoDream /\ UNCHANGED <<file, rows, tx, owed>>
          /\ dream' = [NoDream EXCEPT !.at = "judging", !.cards = cards, !.groups = groups]
        BY <1>0, <1>7 DEF DreamBegins, DreamInv
    <2>2. /\ DOMAIN cards = Active /\ \A c \in Active : cards[c] = file[c]
        OBVIOUS
    <2> HIDE DEF cards, groups
    <2>3. /\ dream'.at = "judging" /\ dream'.cards = cards /\ dream'.merged = {}
          /\ dream'.retire = {} /\ dream'.all = {}
        BY <2>1 DEF NoDream
    <2>4. Known' = Active
        BY <2>2, <2>3 DEF Known
    <2>5. DreamInv'
        BY <2>1, <2>3, <2>4, TextsAreCards DEF DreamInv, Active
    <2>6. ASSUME NEW f \in owed PROVE InSnapshot(f)'
        <3>1. PICK c \in Ids : f \in file[c].facts
            BY FactIsFound, <1>0 DEF CardsInv, FactsInv
        <3>2. c \in Active
            BY <1>t, <3>1, TextsAreCards DEF Active
        <3>3. QED
            BY <2>1, <2>2, <2>3, <3>1, <3>2 DEF InSnapshot
    <2>7. MergeInv'
        BY <1>e, <2>1, NoDreamKnows
    <2>8. QED
        BY <2>1, <2>5, <2>6, <2>7 DEF FactsInv
<1>8. ASSUME NEW g \in Groups, JudgeAnswers(g) PROVE DreamInv' /\ MergeInv' /\ FactsInv'
    <2>1. dream.at = "judging" /\ UNCHANGED <<file, rows, tx, owed>>
        BY <1>8 DEF JudgeAnswers
    <2>2. PICK k \in 0 .. MaxMerged : \E ms \in kSubset(k, Merges(g)) :
             \E r \in SUBSET (GroupOf(dream.cards, g) \ Sources(ms)) :
                /\ Redundant(g, r)
                /\ dream' = [dream EXCEPT !.at = "merging", !.groups = dream.groups \ {g}, !.merged = ms,
                                          !.retire = r \cup Sources(ms),
                                          !.cards = Unjudged(dream.groups \ {g})]
        BY <1>8 DEF JudgeAnswers
    <2>3. PICK ms \in kSubset(k, Merges(g)) :
             \E r \in SUBSET (GroupOf(dream.cards, g) \ Sources(ms)) :
                /\ Redundant(g, r)
                /\ dream' = [dream EXCEPT !.at = "merging", !.groups = dream.groups \ {g}, !.merged = ms,
                                          !.retire = r \cup Sources(ms),
                                          !.cards = Unjudged(dream.groups \ {g})]
        BY <2>2
    <2>4. ms \in SUBSET Merges(g)
        BY DEF kSubset
    <2>5. DreamInv' /\ FactsInv'
        BY <2>1, <2>3, <2>4, GroupIsJudged
    <2>6. QED
        BY <1>e, <2>1, <2>5
<1>9. ASSUME NEW g \in Groups, JudgeFails(g) PROVE DreamInv' /\ MergeInv' /\ FactsInv'
    <2>1. DreamInv' /\ FactsInv'
        BY <1>9, GroupIsSkipped
    <2>2. QED
        BY <1>9, <1>e, <2>1 DEF JudgeFails
<1>10. CASE GroupIsDone
    <2>1. /\ dream'.at = "judging" /\ dream'.cards = dream.cards /\ dream'.merged = {}
          /\ dream'.retire = {} /\ dream'.all = dream.all \cup dream.retire
          /\ dream.merged = {} /\ UNCHANGED <<file, rows, tx, owed>>
        BY <1>t, <1>10 DEF GroupIsDone, DreamRecords
    <2>2. Known' = Known
        BY <2>1 DEF Known
    <2>3. DreamInv'
        BY <1>0, <2>1, <2>2 DEF DreamInv
    <2>4. FactsInv'
        BY <1>0, <2>1, <2>2 DEF FactsInv, Outside, InSnapshot, InMerge
    <2>5. MergeInv'
        BY <1>0, <2>1 DEF MergeInv
    <2>6. QED
        BY <2>3, <2>4, <2>5
<1>11. CASE DreamRetires
    <2> DEFINE c == Min(dream.all)
    <2>1. c \in dream.all /\ c \in Ids
        <3>1. dream.all \in SUBSET Nat /\ dream.all # {} /\ dream.all \subseteq Ids
            BY <1>t, <1>11, BoundsAreNumbers DEF DreamRetires, DreamRecords, Ids
        <3>2. QED
            BY <3>1, MinIsSmallest
    <2>2. file' = [file EXCEPT ![c] = Gone] /\ UNCHANGED <<rows, tx, owed>>
          /\ dream' = [dream EXCEPT !.all = dream.all \ {c}] /\ dream.at = "judging"
        BY <1>11 DEF DreamRetires
    <2> HIDE DEF c
    <2>3. /\ dream'.at = "judging" /\ dream'.cards = dream.cards /\ dream'.merged = {}
          /\ dream'.retire = {} /\ dream'.all = dream.all \ {c}
          /\ dream.merged = {} /\ dream.retire = {} /\ c \notin DOMAIN dream.cards
        BY <1>0, <1>t, <2>1, <2>2 DEF DreamInv, DreamRecords
    <2>4. Known' = Known \ {c} /\ c \in Known
        BY <2>1, <2>3 DEF Known
    <2>5. \A d \in Ids : d # c => file'[d] = file[d]
        BY <1>t, <2>1, <2>2
    <2>6. DOMAIN dream.cards \subseteq Ids /\ Known \subseteq Ids
        BY <1>t, SnapshotIsTyped DEF DreamRecords, Known
    <2>7. DreamInv'
        BY <1>0, <2>2, <2>3, <2>4, <2>5, <2>6 DEF DreamInv
    <2>8. FactsInv'
        BY <1>0, <2>2, <2>3, <2>4, <2>5, <2>6 DEF FactsInv, Outside, InSnapshot, InMerge
    <2>9. QED
        BY <1>e, <2>2, <2>7, <2>8
<1>12. CASE DreamEnds
    <2>1. dream' = NoDream /\ UNCHANGED <<file, tx, owed>> /\ dream.at # "merging"
        BY <1>12 DEF DreamEnds
    <2>2. QED
        BY <1>e, <2>1, DreamIsOver
<1>13. ASSUME NEW c \in Ids, Forget(c) PROVE DreamInv' /\ MergeInv' /\ FactsInv'
    <2>1. c \in Known => c \in rows
        BY <1>0, <1>13, NoDreamKnows DEF Forget, DreamInv
    <2>2. /\ file' = [file EXCEPT ![c] = Gone] /\ UNCHANGED <<rows, tx, dream>>
          /\ owed' \subseteq owed /\ \A f \in owed' : f \notin file[c].facts
        BY <1>13 DEF Forget
    <2>3. QED
        BY <2>1, <2>2, FileChanges
<1>14. ASSUME NEW c \in Ids, NEW t \in Texts \cup {Broken}, Edit(c, t)
       PROVE  DreamInv' /\ MergeInv' /\ FactsInv'
    <2>1. /\ file' = [file EXCEPT ![c] = t] /\ UNCHANGED <<rows, tx, dream>>
          /\ owed' \subseteq owed /\ \A f \in owed' : f \in file[c].facts => f \in t.facts
        BY <1>14 DEF Edit
    <2>2. t # Gone
        BY TextsAreCards
    <2>3. QED
        BY <2>1, <2>2, FileChanges
<1>15. CASE Crash
    <2>1. dream' = NoDream /\ tx' = Idle /\ UNCHANGED <<file, owed>>
        BY <1>15 DEF Crash
    <2>2. QED
        BY <1>b, <1>d, <2>1, DreamIsOver
<1>16. CASE UNCHANGED vars
    BY <1>16, <1>a, <1>c DEF vars
<1>17. QED
    BY <1>1, <1>2, <1>3, <1>4, <1>5, <1>6, <1>7, <1>8, <1>9, <1>10, <1>11, <1>12, <1>13, <1>14,
       <1>15, <1>16 DEF Next

\* A fact that was archived and that nobody took away is on some card at every moment,
\* whatever the dream merges, retires or fails at, and wherever it crashes; a card whose
\* row was lost must not be forgotten while the dream runs.
THEOREM FactsAreKept ==
    ASSUME OrphanForgotten = FALSE
    PROVE  Spec => []FactsSurvive
<1>1. CardsInv /\ [Next]_vars => CardsInv'
    BY CardsStepKeeps
<1>2. CardsInv => FactsSurvive
    <2> SUFFICES ASSUME CardsInv PROVE FactsSurvive
        OBVIOUS
    <2>1. \A f \in owed : \E c \in Ids : f \in file[c].facts
        BY FactIsFound DEF CardsInv, FactsInv
    <2>2. QED
        BY <2>1 DEF FactsSurvive, FactsOf
<1>3. QED
    BY <1>1, <1>2, CardsInit, PTL DEF Spec

\* So it is of the four stores at once.
COROLLARY StoresAreSound ==
    ASSUME OrphanForgotten = FALSE
    PROVE  StoresSpec => /\ [](/\ FactsSurvive /\ CompleteOrSaysSo /\ OnlyWhatWasConfirmed
                               /\ KeptSkillIsBound /\ RulingHolds)
                         /\ NothingOverwritten /\ ReconciledIndexMatches
    BY StoresKeepApart, FactsAreKept, SearchesAreComplete, EditsAreConfirmed, SkillStaysBound,
       RulingIsKept, NewCardsReplaceNothing, ReconciledIndexIsTrue, PTL
=============================================================================
