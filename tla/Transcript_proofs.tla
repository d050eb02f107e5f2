------------------------- MODULE Transcript_proofs -------------------------
(***************************************************************************)
(* Proofs about module Transcript: the conversation a run is resumed from  *)
(* is the one it had, whatever the lengths of histories and summaries.     *)
(* Everything but the types assumes that no stop hits a turn in its tools  *)
(* (CancelInTools = FALSE); TLC shows what happens otherwise.              *)
(***************************************************************************)
EXTENDS Transcript, SequenceTheorems, FiniteSetTheorems, WellFoundedInduction, TLAPS

-----------------------------------------------------------------------------
(* Induction over data: sets of natural numbers, and iteration *)

\* Every set of natural numbers that is not empty has a smallest one.
LEMMA SmallestExists ==
    ASSUME NEW T \in SUBSET Nat, T # {}
    PROVE  \E m \in T : \A n \in T : m <= n
<1> DEFINE R == {ss \in Nat \X Nat : ss[1] < ss[2]}
<1>1. IsWellFoundedOn(R, Nat)
    BY NatLessThanWellFounded, Zenon DEF OpToRel
<1>2. PICK x \in T : \A y \in T : ~(<<y, x>> \in R)
    <2> HIDE DEF R
    <2> QED BY <1>1, WFMin, Zenon
<1>3. ASSUME NEW y \in T PROVE x <= y
    <2>1. x \in Nat /\ y \in Nat
        OBVIOUS
    <2>2. ~(<<y, x>>[1] < <<y, x>>[2])
        BY <1>2, <2>1
    <2>3. ~(y < x)
        BY <2>2
    <2>4. QED
        BY <2>1, <2>3
<1>4. QED
    BY <1>3

\* A bounded set of natural numbers that is not empty has a largest one.
LEMMA LargestExists ==
    ASSUME NEW T \in SUBSET Nat, T # {}, NEW b \in Nat, \A n \in T : n <= b
    PROVE  \E m \in T : \A n \in T : m >= n
<1> DEFINE D == {b - n : n \in T}
<1>0. \A n \in T : n \in Nat /\ n <= b
    OBVIOUS
<1>1. D \in SUBSET Nat /\ D # {}
    <2>1. \A n \in T : b - n \in Nat
        BY <1>0
    <2>2. QED
        BY <2>1
<1>2. PICK d \in D : \A e \in D : d <= e
    <2> HIDE DEF D
    <2> QED BY <1>1, SmallestExists
<1>3. PICK m \in T : d = b - m
    OBVIOUS
<1>4. ASSUME NEW n \in T PROVE m >= n
    <2>1. b - m <= b - n
        BY <1>2, <1>3
    <2>2. QED
        BY <2>1, <1>0
<1>5. QED
    BY <1>4

\* f starts at b and goes from each value to the next by g.
Iterates(f, n, S, b, g) ==
    /\ f \in [0 .. n -> S]
    /\ f[0] = b
    /\ \A i \in 1 .. n : f[i] = g[i][f[i - 1]]

\* What is defined by iteration exists.
LEMMA IterationExists ==
    ASSUME NEW n \in Nat, NEW S, NEW b \in S, NEW g \in [1 .. n -> [S -> S]]
    PROVE  \E f : Iterates(f, n, S, b, g)
<1> DEFINE Bad == {k \in 0 .. n : ~ \E f : Iterates(f, k, S, b, g)}
<1>1. SUFFICES ASSUME Bad # {} PROVE FALSE
    <2>1. n \in 0 .. n
        OBVIOUS
    <2>2. n \notin Bad => \E f : Iterates(f, n, S, b, g)
        BY <2>1
    <2>3. QED
        BY <2>2
<1>2. PICK m \in Bad : \A k \in Bad : m <= k
    <2>1. Bad \in SUBSET Nat
        OBVIOUS
    <2> HIDE DEF Bad
    <2>2. QED
        BY <1>1, <2>1, SmallestExists
<1>3. m # 0
    <2>1. Iterates([i \in 0 .. 0 |-> b], 0, S, b, g)
        BY DEF Iterates
    <2>2. QED
        BY <2>1
<1>4. m - 1 \in 0 .. n /\ m - 1 \notin Bad
    BY <1>2, <1>3
<1>5. PICK f : Iterates(f, m - 1, S, b, g)
    BY <1>4
<1> DEFINE h == [i \in 0 .. m |-> IF i = m THEN g[m][f[m - 1]] ELSE f[i]]
<1>6. f[m - 1] \in S /\ m \in 1 .. n
    BY <1>3, <1>5 DEF Iterates
<1>7. g[m][f[m - 1]] \in S
    BY <1>6
<1>8. Iterates(h, m, S, b, g)
    <2>1. h \in [0 .. m -> S]
        BY <1>5, <1>7 DEF Iterates
    <2>2. h[0] = b
        BY <1>3, <1>5 DEF Iterates
    <2>3. ASSUME NEW i \in 1 .. m PROVE h[i] = g[i][h[i - 1]]
        <3>1. CASE i = m
            BY <3>1, <1>6
        <3>2. CASE i # m
            BY <3>2, <1>5 DEF Iterates
        <3>3. QED
            BY <3>1, <3>2
    <2> HIDE DEF h
    <2>4. QED
        BY <2>1, <2>2, <2>3 DEF Iterates
<1>9. QED
    BY <1>8

\* The largest and the smallest element.
LEMMA MaxIsLargest ==
    ASSUME NEW T \in SUBSET Nat, T # {}, NEW b \in Nat, \A n \in T : n <= b
    PROVE  Max(T) \in T /\ \A n \in T : Max(T) >= n
<1>1. \E m \in T : \A n \in T : m >= n
    BY LargestExists
<1>2. QED
    BY <1>1 DEF Max

\* The smallest element of a set of numbers.
LEMMA MinIsSmallest ==
    ASSUME NEW T \in SUBSET Nat, T # {}
    PROVE  Min(T) \in T /\ \A n \in T : Min(T) <= n
<1>1. \E m \in T : \A n \in T : m <= n
    BY SmallestExists
<1>2. QED
    BY <1>1 DEF Min

-----------------------------------------------------------------------------
(* FlattenSeq, where it joins sequences that are empty or one element long *)

Flattens(f, parts, S) ==
    /\ f \in [1 .. Len(parts) -> Seq(S)]
    /\ f[1] = parts[1]
    /\ \A i \in 2 .. Len(parts) : f[i] = f[i - 1] \o parts[i]

\* FlattenSeq is what its definition says: the parts joined one by one.
LEMMA FlattenIsDefined ==
    ASSUME NEW S, NEW parts \in Seq(Seq(S)), Len(parts) >= 1
    PROVE  \E f : Flattens(f, parts, S) /\ FlattenSeq(parts) = f[Len(parts)]
<1> DEFINE n == Len(parts)
           g == [i \in 1 .. n |-> [t \in Seq(S) |-> t \o parts[i]]]
           Is(f) == f = [i \in 1 .. n |-> IF i = 1 THEN parts[i] ELSE f[i - 1] \o parts[i]]
           f == CHOOSE f : Is(f)
<1>1. n \in Nat /\ n >= 1 /\ \A i \in 1 .. n : parts[i] \in Seq(S)
    OBVIOUS
<1>2. /\ g \in [1 .. n -> [Seq(S) -> Seq(S)]]
      /\ \A i \in 1 .. n : \A t \in Seq(S) : g[i][t] = t \o parts[i]
    BY SMTT(40), <1>1
<1>3. <<>> \in Seq(S)
    OBVIOUS
<1> HIDE DEF n, g
<1>4. PICK h : Iterates(h, n, Seq(S), <<>>, g)
    BY <1>1, <1>2, <1>3, IterationExists
<1>5. \A i \in 0 .. n : h[i] \in Seq(S)
    BY <1>4 DEF Iterates
<1>6. \A i \in 1 .. n : h[i] = h[i - 1] \o parts[i]
    <2>1. ASSUME NEW i \in 1 .. n PROVE h[i] = h[i - 1] \o parts[i]
        <3>1. h[i - 1] \in Seq(S)
            BY <1>1, <1>5
        <3>2. h[i] = g[i][h[i - 1]]
            BY <1>4 DEF Iterates
        <3>3. QED
            BY <1>2, <3>1, <3>2
    <2>2. QED
        BY <2>1
<1>7. h[1] = parts[1]
    <2>1. h[1] = <<>> \o parts[1] /\ parts[1] \in Seq(S)
        <3>1. h[0] = <<>>
            BY <1>4 DEF Iterates
        <3>2. 1 \in 1 .. n /\ 1 - 1 = 0
            BY <1>1
        <3>3. h[1] = h[1 - 1] \o parts[1]
            BY <1>6, <3>2
        <3>4. parts[1] \in Seq(S)
            BY <1>1, <3>2
        <3>5. QED
            BY <3>1, <3>2, <3>3, <3>4
    <2>2. QED
        BY <2>1, ConcatEmptySeq
<1> DEFINE k == [i \in 1 .. n |-> h[i]]
<1>8. Is(k)
    <2>1. ASSUME NEW i \in 1 .. n
          PROVE  k[i] = IF i = 1 THEN parts[i] ELSE k[i - 1] \o parts[i]
        <3>1. CASE i = 1
            BY <1>7, <3>1
        <3>2. CASE i # 1
            <4>1. i - 1 \in 1 .. n
                BY <1>1, <3>2
            <4>2. QED
                BY <1>6, <3>2, <4>1
        <3>3. QED
            BY <3>1, <3>2
    <2>2. QED
        BY <2>1
<1>9. Is(f)
    <2> HIDE DEF Is, k
    <2>1. QED
        BY <1>8
<1> HIDE DEF f
<1>10. \A i \in 1 .. n : f[i] = IF i = 1 THEN parts[i] ELSE f[i - 1] \o parts[i]
    BY <1>9
<1>11. ASSUME NEW i \in 1 .. n PROVE f[i] \in Seq(S)
    <2> DEFINE Bad == {j \in 1 .. n : f[j] \notin Seq(S)}
    <2>1. SUFFICES ASSUME Bad # {} PROVE FALSE
        OBVIOUS
    <2>2. PICK m \in Bad : \A j \in Bad : m <= j
        <3>1. Bad \in SUBSET Nat
            BY <1>1
        <3> HIDE DEF Bad
        <3>2. QED
            BY <2>1, <3>1, SmallestExists
    <2>3. m # 1
        BY <1>1, <1>10
    <2>4. m - 1 \in 1 .. n /\ m - 1 \notin Bad /\ m \in 1 .. n
        BY <1>1, <2>2, <2>3
    <2>5. f[m - 1] \in Seq(S) /\ parts[m] \in Seq(S) /\ f[m] = f[m - 1] \o parts[m]
        BY <1>1, <1>10, <2>3, <2>4
    <2>6. f[m] \in Seq(S)
        BY <2>5, ConcatProperties
    <2>7. QED
        BY <2>2, <2>6
<1>12. f \in [1 .. n -> Seq(S)]
    <2>1. f = [i \in 1 .. n |-> f[i]]
        BY <1>9
    <2>2. QED
        BY <1>11, <2>1
<1>13. f[1] = parts[1] /\ \A i \in 2 .. n : f[i] = f[i - 1] \o parts[i]
    <2>1. 1 \in 1 .. n /\ \A i \in 2 .. n : i \in 1 .. n /\ i # 1
        BY <1>1
    <2>2. QED
        BY <1>10, <2>1
<1>14. FlattenSeq(parts) = f[n]
    BY <1>1 DEF FlattenSeq, f, Is, n
<1>15. QED
    BY <1>12, <1>13, <1>14 DEF Flattens, n

\* Where the parts are found: pos[i] elements come from the first i parts.
Places(pos, parts, r) ==
    /\ pos \in [0 .. Len(parts) -> Nat]
    /\ pos[0] = 0 /\ pos[Len(parts)] = Len(r)
    /\ \A i \in 1 .. Len(parts) : pos[i] = pos[i - 1] + Len(parts[i])
    /\ \A i \in 1 .. Len(parts) : parts[i] # <<>> =>
          pos[i] \in 1 .. Len(r) /\ r[pos[i]] = parts[i][1]

\* What is flattened from parts of at most one message has a place for each part.
LEMMA FlattenedIsPlaced ==
    ASSUME NEW S, NEW parts \in Seq(Seq(S)), Len(parts) >= 1,
           \A i \in 1 .. Len(parts) : Len(parts[i]) <= 1
    PROVE  /\ FlattenSeq(parts) \in Seq(S)
           /\ \E pos : Places(pos, parts, FlattenSeq(parts))
<1> DEFINE n == Len(parts)
           r == FlattenSeq(parts)
<1>1. PICK f : Flattens(f, parts, S) /\ r = f[n]
    BY FlattenIsDefined
<1>2. /\ n \in Nat /\ n >= 1
      /\ \A i \in 1 .. n : parts[i] \in Seq(S) /\ Len(parts[i]) \in 0 .. 1
    <2>1. n \in Nat /\ n >= 1 /\ \A i \in 1 .. n : parts[i] \in Seq(S)
        OBVIOUS
    <2>2. ASSUME NEW i \in 1 .. n PROVE Len(parts[i]) \in 0 .. 1
        <3> DEFINE x == Len(parts[i])
        <3>1. x \in Nat /\ x <= 1
            BY <2>1, LenProperties
        <3> HIDE DEF x
        <3>2. x \in 0 .. 1
            BY <3>1
        <3>3. QED
            BY <3>2 DEF x
    <2>3. QED
        BY <2>1, <2>2
<1> HIDE DEF n, r
<1>3. ASSUME NEW i \in 1 .. n PROVE f[i] \in Seq(S) /\ Len(f[i]) \in Nat
    <2>1. f[i] \in Seq(S)
        BY <1>1 DEF Flattens, n
    <2>2. QED
        BY <2>1, LenProperties
<1>4. \A i \in 2 .. n : f[i] = f[i - 1] \o parts[i]
    BY <1>1 DEF Flattens, n
<1>5. f[1] = parts[1] /\ 1 \in 1 .. n
    BY <1>1, <1>2 DEF Flattens, n
<1> DEFINE pos == [i \in 0 .. n |-> IF i = 0 THEN 0 ELSE Len(f[i])]
<1>6. pos \in [0 .. n -> Nat] /\ pos[0] = 0 /\ \A i \in 1 .. n : pos[i] = Len(f[i])
    BY <1>2, <1>3
<1> HIDE DEF pos
<1>7. ASSUME NEW i \in 2 .. n
      PROVE  /\ i \in 1 .. n /\ i - 1 \in 1 .. n
             /\ Len(f[i]) = Len(f[i - 1]) + Len(parts[i])
             /\ \A q \in 1 .. Len(f[i - 1]) : f[i][q] = f[i - 1][q]
             /\ parts[i] # <<>> => f[i][Len(f[i])] = parts[i][1] /\ Len(f[i]) >= 1
    <2>1. i \in 1 .. n /\ i - 1 \in 1 .. n
        BY <1>2
    <2>2. f[i - 1] \in Seq(S) /\ parts[i] \in Seq(S) /\ f[i] = f[i - 1] \o parts[i]
          /\ Len(parts[i]) \in 0 .. 1
        BY <1>2, <1>3, <1>4, <2>1
    <2> DEFINE a == f[i - 1]
               p == parts[i]
    <2>c. /\ Len(a \o p) = Len(a) + Len(p)
          /\ \A q \in 1 .. Len(a \o p) : (a \o p)[q] = IF q <= Len(a) THEN a[q] ELSE p[q - Len(a)]
          /\ Len(a) \in Nat
        <3>1. a \in Seq(S) /\ p \in Seq(S)
            BY <2>2
        <3> HIDE DEF a, p
        <3>2. QED
            BY <3>1, ConcatProperties, LenProperties
    <2>3. Len(f[i]) = Len(f[i - 1]) + Len(parts[i])
        BY <2>2, <2>c
    <2>4. \A q \in 1 .. Len(f[i - 1]) : f[i][q] = f[i - 1][q]
        <3> DEFINE x == Len(a)
                   y == Len(p)
                   z == Len(a \o p)
        <3>1. x \in Nat /\ y \in 0 .. 1 /\ z = x + y
            BY <2>2, <2>c
        <3> HIDE DEF x, y, z
        <3>2. \A q \in 1 .. x : q \in 1 .. z /\ q <= x
            BY <3>1
        <3>3. \A q \in 1 .. Len(a) : q \in 1 .. Len(a \o p) /\ q <= Len(a)
            BY <3>2 DEF x, z
        <3>4. QED
            BY <2>2, <2>c, <3>3
    <2>5. ASSUME parts[i] # <<>> PROVE f[i][Len(f[i])] = parts[i][1] /\ Len(f[i]) >= 1
        <3>1. Len(parts[i]) = 1
            BY <2>2, <2>5
        <3>2. Len(f[i]) = Len(f[i - 1]) + 1 /\ Len(f[i - 1]) \in Nat
            BY <2>2, <2>3, <3>1
        <3>3. (a \o p)[Len(a) + 1] = p[1]
            <4>1. Len(a) + 1 \in 1 .. Len(a \o p) /\ ~(Len(a) + 1 <= Len(a)) /\ Len(a) + 1 - Len(a) = 1
                BY <2>c, <3>1
            <4>2. QED
                BY <2>c, <4>1
        <3>4. QED
            BY <2>2, <3>2, <3>3
    <2>6. QED
        BY <2>1, <2>3, <2>4, <2>5
<1>8. \A i \in 1 .. n : pos[i] = pos[i - 1] + Len(parts[i])
    <2>1. ASSUME NEW i \in 1 .. n PROVE pos[i] = pos[i - 1] + Len(parts[i])
        <3>1. CASE i = 1
            BY <1>2, <1>5, <1>6, <3>1
        <3>2. CASE i # 1
            <4>1. i \in 2 .. n
                BY <1>2, <3>2
            <4>2. i - 1 \in 1 .. n /\ Len(f[i]) = Len(f[i - 1]) + Len(parts[i])
                BY <1>7, <4>1
            <4>3. QED
                BY <1>6, <4>2
        <3>3. QED
            BY <3>1, <3>2
    <2>2. QED
        BY <2>1
\* What is joined stays where it is.
<1> DEFINE Stays(i, j) == /\ Len(f[i]) <= Len(f[j])
                          /\ \A q \in 1 .. Len(f[i]) : f[j][q] = f[i][q]
<1>9. ASSUME NEW i \in 1 .. n PROVE Stays(i, n)
    <2> DEFINE Bad == {j \in i .. n : ~Stays(i, j)}
    <2>1. SUFFICES ASSUME Bad # {} PROVE FALSE
        <3>1. n \in i .. n
            BY <1>2
        <3> HIDE DEF Stays
        <3>2. QED
            BY <3>1
    <2>2. PICK m \in Bad : \A j \in Bad : m <= j
        <3>1. Bad \in SUBSET Nat
            BY <1>2
        <3> HIDE DEF Bad
        <3>2. QED
            BY <2>1, <3>1, SmallestExists
    <2>3. Stays(i, i)
        BY <1>3
    <2>4. m # i /\ m \in i .. n
        <3> HIDE DEF Stays
        <3>1. QED
            BY <2>2, <2>3
    <2>5. m \in 2 .. n /\ m - 1 \in i .. n /\ m - 1 \notin Bad /\ m - 1 \in 1 .. n
        <3>1. m \in 2 .. n /\ m - 1 \in i .. n /\ m - 1 \in 1 .. n
            BY <1>2, <2>4
        <3>2. m - 1 < m
            BY <3>1
        <3>3. m - 1 \notin Bad
            BY <2>2, <3>1, <3>2
        <3>4. QED
            BY <3>1, <3>3
    <2>6. Stays(i, m - 1)
        <3> HIDE DEF Stays
        <3>1. QED
            BY <2>5
    <2>7. Stays(i, m)
        <3>1. /\ Len(f[m]) = Len(f[m - 1]) + Len(parts[m])
              /\ \A q \in 1 .. Len(f[m - 1]) : f[m][q] = f[m - 1][q]
            BY <1>7, <2>5
        <3>2. Len(f[m - 1]) \in Nat /\ Len(parts[m]) \in Nat /\ Len(f[i]) \in Nat
            <4>1. m \in 1 .. n
                BY <1>2, <2>5
            <4>2. Len(parts[m]) \in 0 .. 1
                BY <1>2, <4>1
            <4>3. QED
                BY <1>3, <2>5, <4>2
        <3>3. Len(f[i]) <= Len(f[m])
            <4> DEFINE x == Len(f[i])
                       y == Len(f[m - 1])
                       z == Len(f[m])
                       p == Len(parts[m])
            <4>1. x <= y /\ z = y + p /\ x \in Nat /\ y \in Nat /\ p \in Nat
                BY <2>6, <3>1, <3>2
            <4> HIDE DEF x, y, z, p
            <4>2. x <= z
                BY <4>1
            <4>3. QED
                BY <4>2 DEF x, z
        <3>4. ASSUME NEW q \in 1 .. Len(f[i]) PROVE f[m][q] = f[i][q]
            <4>1. q \in 1 .. Len(f[m - 1])
                BY <2>6, <3>2
            <4>2. QED
                BY <2>6, <3>1, <4>1
        <3>5. QED
            BY <3>3, <3>4
    <2>8. QED
        BY <2>2, <2>7
<1>10. ASSUME NEW i \in 1 .. n, parts[i] # <<>>
       PROVE  pos[i] \in 1 .. Len(r) /\ r[pos[i]] = parts[i][1]
    <2>1. f[i][Len(f[i])] = parts[i][1] /\ Len(f[i]) >= 1
        <3>1. CASE i = 1
            BY <1>2, <1>5, <1>10, <3>1
        <3>2. CASE i # 1
            <4>1. i \in 2 .. n
                BY <1>2, <3>2
            <4>2. QED
                BY <1>7, <1>10, <4>1
        <3>3. QED
            BY <3>1, <3>2
    <2>2. Stays(i, n) /\ n \in 1 .. n
        BY <1>2, <1>9
    <2>3. pos[i] = Len(f[i]) /\ Len(f[i]) \in Nat /\ Len(f[n]) \in Nat
        BY <1>3, <1>6, <2>2
    <2>4. Len(f[i]) \in 1 .. Len(f[i])
        BY <2>1, <2>3
    <2>5. f[n][Len(f[i])] = f[i][Len(f[i])]
        BY <2>2, <2>4
    <2>6. QED
        BY <1>1, <2>1, <2>2, <2>3, <2>5
<1>11. pos[n] = Len(r) /\ r \in Seq(S)
    BY <1>1, <1>2, <1>3, <1>6
<1>12. Places(pos, parts, r)
    BY <1>6, <1>8, <1>10, <1>11 DEF Places, n
<1>13. QED
    BY <1>11, <1>12 DEF r

\* Of two parts that are not empty the later one is found later.
LEMMA PlacesGrow ==
    ASSUME NEW S, NEW parts \in Seq(Seq(S)), NEW r, NEW pos, Places(pos, parts, r),
           NEW i \in 0 .. Len(parts), NEW j \in i .. Len(parts)
    PROVE  pos[i] <= pos[j]
<1> DEFINE n == Len(parts)
           Bad == {k \in i .. n : ~(pos[i] <= pos[k])}
<1>1. SUFFICES ASSUME Bad # {} PROVE FALSE
    OBVIOUS
<1>2. n \in Nat /\ \A k \in 0 .. n : pos[k] \in Nat
    BY LenProperties DEF Places
<1>3. ASSUME NEW k \in 1 .. n PROVE Len(parts[k]) \in Nat
    <2>1. parts[k] \in Seq(S)
        OBVIOUS
    <2>2. QED
        BY <2>1, LenProperties
<1>4. PICK m \in Bad : \A k \in Bad : m <= k
    <2>1. Bad \in SUBSET Nat
        BY <1>2
    <2> HIDE DEF Bad
    <2>2. QED
        BY <1>1, <2>1, SmallestExists
<1>5. m # i
    BY <1>2
<1>6. m \in 1 .. n /\ m - 1 \in i .. n /\ m - 1 \in 0 .. n
    BY <1>2, <1>5
<1>7. m - 1 \notin Bad
    BY <1>2, <1>4, <1>6
<1>8. pos[i] <= pos[m - 1] /\ pos[m] = pos[m - 1] + Len(parts[m])
    BY <1>6, <1>7 DEF Places
<1> DEFINE p == Len(parts[m])
<1>9. p \in Nat /\ pos[m - 1] \in Nat /\ pos[m] = pos[m - 1] + p /\ pos[i] \in Nat
    BY <1>2, <1>3, <1>6, <1>8
<1> HIDE DEF p
<1>10. pos[i] <= pos[m]
    BY <1>8, <1>9
<1>11. QED
    BY <1>4, <1>10

\* Every element of the result comes from a part.
LEMMA PlacesFill ==
    ASSUME NEW S, NEW parts \in Seq(Seq(S)), NEW r \in Seq(S), NEW pos, Places(pos, parts, r),
           \A i \in 1 .. Len(parts) : Len(parts[i]) <= 1,
           NEW k \in 1 .. Len(r)
    PROVE  \E i \in 1 .. Len(parts) : parts[i] # <<>> /\ pos[i] = k
<1> DEFINE n == Len(parts)
           Past == {i \in 0 .. n : pos[i] >= k}
<1>1. n \in Nat /\ k \in Nat /\ k >= 1 /\ \A i \in 0 .. n : pos[i] \in Nat
    <2>1. n \in Nat /\ Len(r) \in Nat
        BY LenProperties
    <2>2. \A i \in 0 .. n : pos[i] \in Nat
        BY DEF Places
    <2>3. QED
        BY <2>1, <2>2
<1>2. n \in Past
    BY <1>1 DEF Places
<1>3. PICK m \in Past : \A i \in Past : m <= i
    <2>1. Past \in SUBSET Nat
        BY <1>1
    <2> HIDE DEF Past
    <2>2. QED
        BY <1>2, <2>1, SmallestExists
<1>4. m # 0
    BY <1>1 DEF Places
<1>5. m \in 1 .. n /\ m - 1 \in 0 .. n
    BY <1>1, <1>4
<1>6. m - 1 \notin Past
    BY <1>1, <1>3, <1>5
<1>7. pos[m - 1] < k /\ pos[m] >= k /\ pos[m] = pos[m - 1] + Len(parts[m])
    <2>1. pos[m] = pos[m - 1] + Len(parts[m])
        BY <1>5 DEF Places
    <2>2. pos[m - 1] \in Nat /\ ~(pos[m - 1] >= k)
        BY <1>1, <1>5, <1>6
    <2>3. QED
        BY <1>1, <2>1, <2>2
<1>8. parts[m] \in Seq(S) /\ Len(parts[m]) \in Nat /\ Len(parts[m]) <= 1
    <2>1. parts[m] \in Seq(S)
        BY <1>5
    <2>2. QED
        BY <1>5, <2>1
<1>9. Len(parts[m]) = 1 /\ pos[m] = k
    <2> DEFINE p == Len(parts[m])
    <2>1. /\ pos[m - 1] \in Nat /\ pos[m] \in Nat /\ p \in Nat /\ p <= 1
          /\ pos[m] = pos[m - 1] + p
        BY <1>1, <1>5, <1>7, <1>8
    <2> HIDE DEF p
    <2>2. p = 1 /\ pos[m] = k
        BY <1>1, <1>7, <2>1
    <2>3. QED
        BY <2>2 DEF p
<1>10. parts[m] # <<>>
    <2>1. Len(<<>>) # 1
        OBVIOUS
    <2>2. QED
        BY <1>9, <2>1
<1>11. QED
    BY <1>5, <1>9, <1>10

-----------------------------------------------------------------------------
(* What a compaction keeps *)

\* The turn a message belongs to, and what a compaction leaves of the message.
TurnOf(s, i) == Max({k \in TurnStarts(s) : k <= i})
Left(s, i) == IF i = Min(OldTurns(s)) THEN <<User>>
              ELSE IF TurnOf(s, i) \in OldTurns(s) THEN <<>> ELSE <<s[i]>>
Parts(s) == [i \in DOMAIN s |-> Left(s, i)]
PinnedIn(s) == {i \in DOMAIN s : s[i] = Pinned}

\* The first of the turns that are summarized is one.
LEMMA FirstIsOld ==
    ASSUME NEW s \in Seq(Messages), OldTurns(s) # {}
    PROVE  /\ Min(OldTurns(s)) \in OldTurns(s)
           /\ OldTurns(s) \subseteq 1 .. Len(s)
           /\ \A i \in OldTurns(s) : s[i] \notin {Tools, Pinned}
<1>1. OldTurns(s) \subseteq 1 .. Len(s) /\ \A i \in OldTurns(s) : s[i] \notin {Tools, Pinned}
    BY DEF OldTurns, Movable, TurnStarts
<1>2. OldTurns(s) \in SUBSET Nat
    BY <1>1
<1>3. QED
    BY <1>1, <1>2, MinIsSmallest

\* A message is of its own turn, unless it is an answer: then it is of the turn
\* of its calls.
LEMMA TurnsOfMessages ==
    ASSUME NEW s \in Seq(Messages), NEW i \in 1 .. Len(s)
    PROVE  /\ s[i] # Tools => TurnOf(s, i) = i
           /\ s[i] = Tools /\ i > 1 /\ s[i - 1] = Calls => TurnOf(s, i) = i - 1
<1> DEFINE T == {k \in TurnStarts(s) : k <= i}
<1>1. T \in SUBSET Nat /\ (\A n \in T : n <= i) /\ i \in Nat
    BY DEF TurnStarts
<1>2. TurnOf(s, i) = Max(T)
    BY DEF TurnOf
<1>3. ASSUME s[i] # Tools PROVE Max(T) = i
    <2>1. i \in T
        BY <1>3 DEF TurnStarts
    <2> HIDE DEF T
    <2>2. Max(T) \in T /\ \A n \in T : Max(T) >= n
        BY <1>1, <2>1, MaxIsLargest
    <2>3. Max(T) <= i /\ Max(T) >= i /\ Max(T) \in Nat
        BY <1>1, <2>1, <2>2
    <2>4. QED
        BY <1>1, <2>3
<1>4. ASSUME s[i] = Tools, i > 1, s[i - 1] = Calls PROVE Max(T) = i - 1
    <2>1. i - 1 \in T /\ i \notin T
        BY <1>4 DEF TurnStarts, Calls, Tools
    <2> HIDE DEF T
    <2>2. Max(T) \in T /\ \A n \in T : Max(T) >= n
        BY <1>1, <2>1, MaxIsLargest
    <2>3. /\ Max(T) <= i /\ Max(T) >= i - 1 /\ Max(T) # i
          /\ Max(T) \in Nat
        BY <1>1, <2>1, <2>2
    <2>4. QED
        BY <1>1, <2>3
<1>5. QED
    BY <1>2, <1>3, <1>4

\* A compacted conversation has a place for each message it kept.
LEMMA SummaryIsPlaced ==
    ASSUME NEW s \in Seq(Messages), OldTurns(s) # {}
    PROVE  /\ Parts(s) \in Seq(Seq(Messages)) /\ Len(Parts(s)) = Len(s)
           /\ \A i \in 1 .. Len(s) : Parts(s)[i] = Left(s, i) /\ Len(Left(s, i)) <= 1
           /\ Summarized(s) \in Seq(Messages)
           /\ \E pos : Places(pos, Parts(s), Summarized(s))
<1>1. ASSUME NEW i \in 1 .. Len(s) PROVE Left(s, i) \in Seq(Messages) /\ Len(Left(s, i)) <= 1
    <2>1. s[i] \in Messages /\ User \in Messages
        BY DEF Messages
    <2>2. \A m \in Messages : <<m>> \in Seq(Messages) /\ Len(<<m>>) <= 1
        OBVIOUS
    <2>3. <<>> \in Seq(Messages) /\ Len(<<>>) <= 1
        OBVIOUS
    <2>4. QED
        BY <2>1, <2>2, <2>3 DEF Left
<1>2. Parts(s) \in Seq(Seq(Messages)) /\ Len(Parts(s)) = Len(s)
      /\ \A i \in 1 .. Len(s) : Parts(s)[i] = Left(s, i)
    BY <1>1 DEF Parts
<1>3. Len(Parts(s)) >= 1
    <2> DEFINE n == Len(s)
    <2>1. n \in Nat /\ OldTurns(s) \subseteq 1 .. n
        BY FirstIsOld
    <2> HIDE DEF n
    <2>2. n >= 1
        BY <2>1
    <2>3. QED
        BY <1>2, <2>2 DEF n
<1>4. \A i \in 1 .. Len(Parts(s)) : Len(Parts(s)[i]) <= 1
    BY <1>1, <1>2
<1>5. Summarized(s) = FlattenSeq(Parts(s))
    BY DEF Summarized, Parts, Left, TurnOf
<1>6. QED
    BY <1>1, <1>2, <1>3, <1>4, <1>5, FlattenedIsPlaced

\* A compaction leaves a conversation that can be sent.
LEMMA SummaryIsSendable ==
    ASSUME NEW s \in Seq(Messages), OldTurns(s) # {}, Answered(s)
    PROVE  Answered(Summarized(s))
<1> DEFINE n == Len(s)
           r == Summarized(s)
           m == Len(r)
           first == Min(OldTurns(s))
<1>1. PICK pos : Places(pos, Parts(s), r)
    BY SummaryIsPlaced
<1>2. /\ Parts(s) \in Seq(Seq(Messages)) /\ Len(Parts(s)) = n
      /\ \A i \in 1 .. n : Parts(s)[i] = Left(s, i) /\ Len(Left(s, i)) <= 1
      /\ r \in Seq(Messages)
    BY SummaryIsPlaced
<1>3. first \in OldTurns(s) /\ s[first] \notin {Tools, Pinned}
    BY FirstIsOld
<1>4. n \in Nat /\ m \in Nat /\ DOMAIN r = 1 .. m /\ DOMAIN s = 1 .. n
    BY <1>2, LenProperties
<1>5. /\ \A i \in 0 .. n : pos[i] \in Nat
      /\ \A i \in 1 .. n : pos[i] = pos[i - 1] + Len(Left(s, i))
      /\ \A i \in 1 .. n : Left(s, i) # <<>> => pos[i] \in 1 .. m /\ r[pos[i]] = Left(s, i)[1]
    BY <1>1, <1>2 DEF Places
<1>6. ASSUME NEW k \in 1 .. m, r[k] \in {Calls, Tools}
      PROVE  \E i \in 1 .. n : /\ pos[i] = k /\ s[i] = r[k]
                               /\ TurnOf(s, i) \notin OldTurns(s)
    <2>1. PICK i \in 1 .. n : Parts(s)[i] # <<>> /\ pos[i] = k
        <3>1. \A i \in 1 .. Len(Parts(s)) : Len(Parts(s)[i]) <= 1
            BY <1>2
        <3>2. k \in 1 .. Len(r) /\ r \in Seq(Messages)
            BY <1>2
        <3> HIDE DEF r, m
        <3>3. QED
            BY <1>1, <1>2, <3>1, <3>2, PlacesFill
    <2>2. Left(s, i) # <<>> /\ r[k] = Left(s, i)[1]
        BY <1>2, <1>5, <2>1
    <2>3. Left(s, i) # <<User>>
        BY <1>6, <2>2 DEF User, Calls, Tools
    <2>4. Left(s, i) = <<s[i]>> /\ TurnOf(s, i) \notin OldTurns(s)
        BY <2>2, <2>3 DEF Left
    <2>5. QED
        BY <2>1, <2>2, <2>4
<1>7. ASSUME NEW i \in 1 .. n, i # first, TurnOf(s, i) \notin OldTurns(s)
      PROVE  pos[i] = pos[i - 1] + 1 /\ pos[i] \in 1 .. m /\ r[pos[i]] = s[i]
    <2>1. Left(s, i) = <<s[i]>>
        BY <1>7 DEF Left
    <2>2. Len(<<s[i]>>) = 1 /\ <<s[i]>> # <<>> /\ <<s[i]>>[1] = s[i]
        OBVIOUS
    <2>3. QED
        BY <1>5, <2>1, <2>2
<1> HIDE DEF n, r, m, first
<1>8. ASSUME NEW k \in 1 .. m, r[k] = Calls PROVE k < m /\ r[k + 1] = Tools
    <2>1. PICK i \in 1 .. n : pos[i] = k /\ s[i] = Calls /\ TurnOf(s, i) \notin OldTurns(s)
        BY <1>6, <1>8
    <2>2. i < n /\ s[i + 1] = Tools
        BY <1>4, <2>1 DEF Answered, n
    <2>3. i + 1 \in 1 .. n /\ i + 1 > 1 /\ i + 1 - 1 = i
        BY <1>4, <2>2
    <2>4. TurnOf(s, i) = i
        BY <2>1, TurnsOfMessages DEF Calls, Tools, n
    <2>5. TurnOf(s, i + 1) = i
        BY <2>1, <2>2, <2>3, TurnsOfMessages DEF n
    <2>6. i + 1 # first
        BY <1>3, <2>2
    <2>7. pos[i + 1] = pos[i] + 1 /\ pos[i + 1] \in 1 .. m /\ r[pos[i + 1]] = s[i + 1]
        BY <1>7, <2>1, <2>3, <2>4, <2>5, <2>6
    <2>8. QED
        BY <1>4, <2>1, <2>2, <2>7
<1>9. ASSUME NEW k \in 1 .. m, r[k] = Tools PROVE k > 1 /\ r[k - 1] = Calls
    <2>1. PICK i \in 1 .. n : pos[i] = k /\ s[i] = Tools /\ TurnOf(s, i) \notin OldTurns(s)
        BY <1>6, <1>9
    <2>2. i > 1 /\ s[i - 1] = Calls
        BY <1>4, <2>1 DEF Answered, n
    <2>3. i - 1 \in 1 .. n
        BY <1>4, <2>2
    <2>4. TurnOf(s, i) = i - 1
        BY <2>1, <2>2, TurnsOfMessages DEF n
    <2>5. TurnOf(s, i - 1) = i - 1
        BY <2>2, <2>3, TurnsOfMessages DEF Calls, Tools, n
    <2>6. i # first /\ i - 1 # first
        BY <1>3, <2>1, <2>4
    <2>7. pos[i - 1] \in 1 .. m /\ r[pos[i - 1]] = Calls
        BY <1>7, <2>1, <2>2, <2>3, <2>4, <2>5, <2>6
    <2>8. pos[i] = pos[i - 1] + 1
        BY <1>7, <2>1, <2>6
    <2>9. QED
        BY <1>4, <2>1, <2>7, <2>8
<1>10. QED
    BY <1>4, <1>8, <1>9 DEF Answered, r, m

\* A compaction loses no instruction and no nudge.
LEMMA SummaryKeepsPinned ==
    ASSUME NEW s \in Seq(Messages), OldTurns(s) # {}
    PROVE  Cardinality(PinnedIn(s)) <= Cardinality(PinnedIn(Summarized(s)))
<1> DEFINE n == Len(s)
           r == Summarized(s)
           m == Len(r)
           A == PinnedIn(s)
           B == PinnedIn(r)
<1>1. PICK pos : Places(pos, Parts(s), r)
    BY SummaryIsPlaced
<1>2. /\ Parts(s) \in Seq(Seq(Messages)) /\ Len(Parts(s)) = n
      /\ \A i \in 1 .. n : Parts(s)[i] = Left(s, i)
      /\ r \in Seq(Messages)
    BY SummaryIsPlaced
<1>3. n \in Nat /\ m \in Nat /\ DOMAIN r = 1 .. m /\ DOMAIN s = 1 .. n
    BY <1>2, LenProperties
<1>4. A \subseteq 1 .. n /\ B \subseteq 1 .. m
    BY <1>3 DEF PinnedIn
<1>5. ASSUME NEW i \in A
      PROVE  pos[i] \in B /\ pos[i] = pos[i - 1] + 1
    <2>1. i \in 1 .. n /\ s[i] = Pinned
        BY <1>4 DEF PinnedIn
    <2>2. TurnOf(s, i) = i
        BY <2>1, TurnsOfMessages DEF Pinned, Tools
    <2>3. i \notin OldTurns(s) /\ i # Min(OldTurns(s))
        BY <2>1, FirstIsOld
    <2>4. Left(s, i) = <<Pinned>> /\ Parts(s)[i] = Left(s, i)
        BY <1>2, <2>1, <2>2, <2>3 DEF Left
    <2>5. Len(<<Pinned>>) = 1 /\ <<Pinned>> # <<>> /\ <<Pinned>>[1] = Pinned
        OBVIOUS
    <2>6. pos[i] = pos[i - 1] + 1 /\ pos[i] \in 1 .. m /\ r[pos[i]] = Pinned
        BY <1>1, <1>2, <2>1, <2>4, <2>5 DEF Places
    <2>7. QED
        BY <1>3, <2>6 DEF PinnedIn
<1>6. \A i \in 0 .. n : pos[i] \in Nat
    BY <1>1, <1>2 DEF Places
<1>7. ASSUME NEW i \in A, NEW j \in A, i < j PROVE pos[i] < pos[j]
    <2>1. i \in 0 .. n /\ j - 1 \in i .. n /\ j \in 0 .. n /\ j - 1 \in 0 .. n
        BY <1>3, <1>4, <1>7
    <2>2. pos[i] <= pos[j - 1]
        BY <1>1, <1>2, <2>1, PlacesGrow
    <2>3. pos[j] = pos[j - 1] + 1
        BY <1>5
    <2>4. QED
        BY <1>6, <2>1, <2>2, <2>3
<1> DEFINE place == [i \in A |-> pos[i]]
<1> HIDE DEF A, B, n, r, m
<1>8. place \in Injection(A, B)
    <2>1. place \in [A -> B]
        BY <1>5
    <2>2. ASSUME NEW i \in A, NEW j \in A, place[i] = place[j] PROVE i = j
        <3>1. pos[i] = pos[j] /\ i \in 0 .. n /\ j \in 0 .. n
            BY <1>3, <1>4, <2>2
        <3>2. ~(i < j) /\ ~(j < i)
            BY <1>6, <1>7, <3>1
        <3>3. QED
            BY <1>3, <3>1, <3>2
    <2> HIDE DEF place
    <2>3. QED
        BY <2>1, <2>2 DEF Injection, IsInjective
<1>9. IsFiniteSet(B)
    <2>1. IsFiniteSet(1 .. m)
        BY <1>3, FS_Interval
    <2>2. QED
        BY <1>4, <2>1, FS_Subset
<1>10. Cardinality(A) <= Cardinality(B)
    <2> HIDE DEF place
    <2>1. QED
        BY <1>8, <1>9, FS_Injection
<1>11. QED
    BY <1>10 DEF A, B, r

-----------------------------------------------------------------------------
(* What a step does to a conversation *)

\* t begins with all of s.
Extends(s, t) == Len(s) <= Len(t) /\ \A i \in 1 .. Len(s) : t[i] = s[i]

\* A message that is appended is the last one, and the others stay.
LEMMA Appending ==
    ASSUME NEW s \in Seq(Messages), NEW x \in Messages
    PROVE  /\ Append(s, x) \in Seq(Messages)
           /\ Len(Append(s, x)) = Len(s) + 1 /\ Len(s) \in Nat
           /\ Append(s, x)[Len(s) + 1] = x
           /\ \A i \in 1 .. Len(s) : Append(s, x)[i] = s[i]
           /\ Extends(s, Append(s, x))
           /\ Append(s, x) # <<>>
           /\ Prefix(Append(s, x), Len(Append(s, x)) - 1) = s
<1> DEFINE t == Append(s, x)
           n == Len(s)
<1>1. t \in Seq(Messages) /\ Len(t) = n + 1 /\ n \in Nat
    OBVIOUS
<1>2. t[n + 1] = x /\ \A i \in 1 .. n : t[i] = s[i]
    BY AppendProperties
<1>3. t # <<>>
    BY AppendProperties
<1>4. SubSeq(t, 1, n) = s
    OBVIOUS
<1>5. n + 1 - 1 = n
    BY <1>1
<1>6. n <= n + 1
    BY <1>1
<1>7. QED
    BY <1>1, <1>2, <1>3, <1>4, <1>5, <1>6 DEF Extends, Prefix

\* What extends an extension extends the first.
LEMMA ExtendsAgain ==
    ASSUME NEW s \in Seq(Messages), NEW t \in Seq(Messages), NEW u \in Seq(Messages),
           Extends(s, t), Extends(t, u)
    PROVE  Extends(s, u)
<1> DEFINE a == Len(s)
           b == Len(t)
           c == Len(u)
<1>1. a \in Nat /\ b \in Nat /\ c \in Nat /\ a <= b /\ b <= c
      /\ (\A i \in 1 .. a : t[i] = s[i]) /\ (\A i \in 1 .. b : u[i] = t[i])
    BY DEF Extends
<1> HIDE DEF a, b, c
<1>2. a <= c /\ \A i \in 1 .. a : u[i] = s[i]
    BY <1>1
<1>3. QED
    BY <1>2 DEF Extends, a, c

\* A conversation extends itself.
LEMMA ExtendsItself ==
    ASSUME NEW s \in Seq(Messages)
    PROVE  Extends(s, s)
    BY LenProperties DEF Extends

\* A longer conversation has no fewer pinned messages.
LEMMA PinnedGrow ==
    ASSUME NEW s \in Seq(Messages), NEW t \in Seq(Messages), Extends(s, t)
    PROVE  Cardinality(PinnedIn(s)) <= Cardinality(PinnedIn(t))
<1>1. PinnedIn(s) \subseteq PinnedIn(t)
    BY DEF PinnedIn, Extends
<1>2. IsFiniteSet(PinnedIn(t))
    <2> DEFINE n == Len(t)
    <2>1. n \in Nat /\ PinnedIn(t) \subseteq 1 .. n
        BY DEF PinnedIn
    <2> HIDE DEF n
    <2>2. IsFiniteSet(1 .. n)
        BY <2>1, FS_Interval
    <2>3. QED
        BY <2>1, <2>2, FS_Subset
<1>3. QED
    BY <1>1, <1>2, FS_Subset

\* An extension begins with what it extends.
LEMMA ExtendedBegins ==
    ASSUME NEW s \in Seq(Messages), NEW t \in Seq(Messages), Extends(s, t)
    PROVE  Len(t) >= Len(s) /\ Prefix(t, Len(s)) = s
<1> DEFINE a == Len(s)
           b == Len(t)
           u == SubSeq(t, 1, a)
<1>1. a \in Nat /\ b \in Nat /\ a <= b /\ \A i \in 1 .. a : t[i] = s[i]
    BY DEF Extends
<1>2. u \in Seq(Messages) /\ Len(u) = a /\ \A i \in 1 .. a : u[i] = t[i]
    <2> HIDE DEF a, b
    <2>1. \A i \in 1 .. a : t[i] \in Messages
        BY <1>1 DEF a
    <2>2. a - 1 + 1 = a /\ (\A i \in 1 .. a : 1 + i - 1 = i) /\ (1 <= a \/ a = 0)
        BY <1>1
    <2>3. QED
        BY <1>1, <2>1, <2>2, SubSeqProperties
<1>3. u = s
    <2> HIDE DEF u
    <2>1. QED
        BY <1>1, <1>2, SeqEqual
<1>4. b >= a
    BY <1>1
<1>5. QED
    BY <1>3, <1>4 DEF Prefix

\* There are finitely many pinned messages in a conversation.
LEMMA PinnedIsCounted ==
    ASSUME NEW s \in Seq(Messages)
    PROVE  Cardinality(PinnedIn(s)) \in Nat
<1> DEFINE n == Len(s)
<1>1. n \in Nat /\ PinnedIn(s) \subseteq 1 .. n
    BY DEF PinnedIn
<1> HIDE DEF n
<1>2. IsFiniteSet(1 .. n)
    BY <1>1, FS_Interval
<1>3. IsFiniteSet(PinnedIn(s))
    BY <1>1, <1>2, FS_Subset
<1>4. QED
    BY <1>3, FS_CardinalityType

\* The increments add up to the conversation, if what is durable is its beginning.
LEMMA IncrementsAddUp ==
    ASSUME NEW r \in Seq(Messages), NEW h \in Seq(Messages), Extends(r, h),
           NEW whole \in BOOLEAN
    PROVE  Appended(r, Len(r), h, whole) = h
<1> DEFINE a == Len(r)
           b == Len(h)
           d == SubSeq(h, a + 1, b)
           u == r \o d
<1>1. a \in Nat /\ b \in Nat /\ a <= b /\ \A i \in 1 .. a : h[i] = r[i]
    BY DEF Extends
<1>2. d \in Seq(Messages) /\ Len(d) = b - a /\ \A i \in 1 .. b - a : d[i] = h[a + i]
    <2>1. a + 1 \in 1 .. b + 1 /\ b \in a + 1 - 1 .. b
        BY <1>1
    <2>2. b - (a + 1) + 1 = b - a
        BY <1>1
    <2>3. d \in Seq(Messages) /\ Len(d) = b - (a + 1) + 1
          /\ \A i \in 1 .. b - (a + 1) + 1 : d[i] = h[a + 1 + i - 1]
        BY <2>1, SubSeqProperties
    <2>4. \A i \in 1 .. b - a : a + 1 + i - 1 = a + i
        BY <1>1
    <2>5. QED
        BY <2>2, <2>3, <2>4
<1>3. /\ u \in Seq(Messages) /\ Len(u) = a + Len(d)
      /\ \A i \in 1 .. a + Len(d) : u[i] = IF i <= a THEN r[i] ELSE d[i - a]
    <2> HIDE DEF d
    <2>1. QED
        BY <1>2, ConcatProperties
<1> DEFINE e == Len(d)
<1>4. e = b - a
    BY <1>2
<1> HIDE DEF a, b, d, e
<1>5. Len(u) = b
    BY <1>1, <1>3, <1>4 DEF e
<1>6. \A i \in 1 .. b : u[i] = h[i]
    <2>1. ASSUME NEW i \in 1 .. b PROVE u[i] = h[i]
        <3>1. i \in 1 .. a + e
            BY <1>1, <1>4
        <3>2. CASE i <= a
            BY <1>1, <1>3, <3>1, <3>2 DEF e
        <3>3. CASE ~(i <= a)
            <4>1. i - a \in 1 .. b - a /\ a + (i - a) = i
                BY <1>1, <3>3
            <4>2. d[i - a] = h[i]
                BY <1>2, <4>1
            <4>3. QED
                BY <1>3, <3>1, <3>3, <4>2 DEF e
        <3>4. QED
            BY <3>2, <3>3
    <2>2. QED
        BY <2>1
<1>7. u = h
    <2> HIDE DEF u
    <2>1. QED
        BY <1>3, <1>5, <1>6, SeqEqual DEF b
<1>8. ~(b < a)
    BY <1>1
<1>9. QED
    BY <1>7, <1>8 DEF Appended, a, b, d

\* An empty conversation, and one more message that neither calls nor answers.
LEMMA EmptyIsSendable ==
    Answered(<<>>)
    BY DEF Answered

\* A message that has no calls and answers none may follow at any time.
LEMMA PlainKeepsSendable ==
    ASSUME NEW s \in Seq(Messages), Answered(s), NEW x \in Messages \ {Calls, Tools}
    PROVE  Answered(Append(s, x))
<1> DEFINE n == Len(s)
           t == Append(s, x)
<1>1. /\ t \in Seq(Messages) /\ Len(t) = n + 1 /\ n \in Nat /\ t[n + 1] = x
      /\ \A i \in 1 .. n : t[i] = s[i]
    BY Appending
<1>2. DOMAIN t = 1 .. n + 1 /\ DOMAIN s = 1 .. n
    BY <1>1
<1> HIDE DEF n, t
<1>3. ASSUME NEW i \in 1 .. n + 1, t[i] = Calls PROVE i < n + 1 /\ t[i + 1] = Tools
    <2>1. i # n + 1
        BY <1>1, <1>3
    <2>2. i \in 1 .. n /\ s[i] = Calls
        BY <1>1, <1>3, <2>1
    <2>3. i < n /\ s[i + 1] = Tools
        BY <1>2, <2>2 DEF Answered, n
    <2>4. i + 1 \in 1 .. n
        BY <1>1, <2>2, <2>3
    <2>5. QED
        BY <1>1, <2>3, <2>4
<1>4. ASSUME NEW i \in 1 .. n + 1, t[i] = Tools PROVE i > 1 /\ t[i - 1] = Calls
    <2>1. i # n + 1
        BY <1>1, <1>4
    <2>2. i \in 1 .. n /\ s[i] = Tools
        BY <1>1, <1>4, <2>1
    <2>3. i > 1 /\ s[i - 1] = Calls
        BY <1>2, <2>2 DEF Answered
    <2>4. i - 1 \in 1 .. n
        BY <1>1, <2>2, <2>3
    <2>5. QED
        BY <1>1, <2>3, <2>4
<1>5. QED
    BY <1>1, <1>2, <1>3, <1>4 DEF Answered, t

\* Calls and their answers.
LEMMA AnswerKeepsSendable ==
    ASSUME NEW s \in Seq(Messages), Answered(s)
    PROVE  /\ Append(Append(s, Calls), Tools) \in Seq(Messages)
           /\ Answered(Append(Append(s, Calls), Tools))
<1> DEFINE n == Len(s)
           c == Append(s, Calls)
           t == Append(c, Tools)
<1>0. Calls \in Messages /\ Tools \in Messages /\ Calls # Tools
    BY DEF Messages, Calls, Tools
<1>1. /\ c \in Seq(Messages) /\ Len(c) = n + 1 /\ n \in Nat /\ c[n + 1] = Calls
      /\ \A i \in 1 .. n : c[i] = s[i]
    BY <1>0, Appending
<1>2. /\ t \in Seq(Messages) /\ Len(t) = Len(c) + 1 /\ t[Len(c) + 1] = Tools
      /\ \A i \in 1 .. Len(c) : t[i] = c[i]
    <2> HIDE DEF c
    <2>1. QED
        BY <1>0, <1>1, Appending
<1> HIDE DEF n, c, t
<1>3. /\ Len(t) = n + 2 /\ t[n + 2] = Tools /\ t[n + 1] = Calls
      /\ \A i \in 1 .. n : t[i] = s[i]
    <2>1. n + 1 + 1 = n + 2 /\ n + 1 \in 1 .. n + 1 /\ \A i \in 1 .. n : i \in 1 .. n + 1
        BY <1>1
    <2>2. QED
        BY <1>1, <1>2, <2>1
<1>4. DOMAIN t = 1 .. n + 2 /\ DOMAIN s = 1 .. n
    BY <1>2, <1>3 DEF n
<1>5. ASSUME NEW i \in 1 .. n + 2, t[i] = Calls PROVE i < n + 2 /\ t[i + 1] = Tools
    <2>1. i # n + 2
        BY <1>0, <1>3, <1>5
    <2>2. CASE i = n + 1
        <3>1. i + 1 = n + 2 /\ i < n + 2
            BY <1>1, <2>2
        <3>2. QED
            BY <1>3, <3>1
    <2>3. CASE i # n + 1
        <3>1. i \in 1 .. n /\ s[i] = Calls
            BY <1>1, <1>3, <1>5, <2>1, <2>3
        <3>2. i < n /\ s[i + 1] = Tools
            BY <1>4, <3>1 DEF Answered, n
        <3>3. i + 1 \in 1 .. n
            BY <1>1, <3>1, <3>2
        <3>4. QED
            BY <1>1, <1>3, <3>2, <3>3
    <2>4. QED
        BY <2>2, <2>3
<1>6. ASSUME NEW i \in 1 .. n + 2, t[i] = Tools PROVE i > 1 /\ t[i - 1] = Calls
    <2>1. i # n + 1
        BY <1>0, <1>3, <1>6
    <2>2. CASE i = n + 2
        <3>1. i - 1 = n + 1 /\ i > 1
            BY <1>1, <2>2
        <3>2. QED
            BY <1>3, <3>1
    <2>3. CASE i # n + 2
        <3>1. i \in 1 .. n /\ s[i] = Tools
            BY <1>1, <1>3, <1>6, <2>1, <2>3
        <3>2. i > 1 /\ s[i - 1] = Calls
            BY <1>4, <3>1 DEF Answered
        <3>3. i - 1 \in 1 .. n
            BY <1>1, <3>1, <3>2
        <3>4. QED
            BY <1>1, <1>3, <3>2, <3>3
    <2>4. QED
        BY <2>2, <2>3
<1>7. QED
    BY <1>2, <1>3, <1>4, <1>5, <1>6 DEF Answered, c, t

\* Nothing dangles in a conversation that can be sent.
LEMMA NothingDangles ==
    ASSUME NEW s \in Seq(Messages), Answered(s)
    PROVE  DropDangling(s) = s
<1> DEFINE owners == {i \in DOMAIN s : s[i] = Calls}
           last == CHOOSE i \in owners : \A k \in owners : k <= i
<1>1. ASSUME owners # {} PROVE \E k \in DOMAIN s : k > last /\ s[k] = Tools
    <2> DEFINE n == Len(s)
    <2>1. n \in Nat /\ DOMAIN s = 1 .. n /\ owners \in SUBSET Nat /\ \A k \in owners : k <= n
        OBVIOUS
    <2>2. \E i \in owners : \A k \in owners : k <= i
        <3> HIDE DEF owners, n
        <3>1. PICK i \in owners : \A k \in owners : i >= k
            BY <1>1, <2>1, LargestExists
        <3>2. \A k \in owners : k <= i
            BY <2>1, <3>1
        <3>3. QED
            BY <3>2
    <2>3. last \in owners
        <3> HIDE DEF owners
        <3>1. QED
            BY <2>2
    <2> HIDE DEF last
    <2>4. last \in 1 .. n /\ s[last] = Calls
        BY <2>1, <2>3
    <2>5. last < n /\ s[last + 1] = Tools
        BY <2>1, <2>4 DEF Answered
    <2>6. last + 1 \in DOMAIN s /\ last + 1 > last
        BY <2>1, <2>4, <2>5
    <2>7. QED
        BY <2>5, <2>6
<1>2. QED
    BY <1>1 DEF DropDangling

\* Whatever dangles, what is left is a conversation.
LEMMA DroppedTyped ==
    ASSUME NEW s \in Seq(Messages)
    PROVE  DropDangling(s) \in Seq(Messages)
<1> DEFINE owners == {i \in DOMAIN s : s[i] = Calls}
           last == CHOOSE i \in owners : \A k \in owners : k <= i
           n == Len(s)
<1>1. n \in Nat /\ DOMAIN s = 1 .. n /\ owners \in SUBSET Nat /\ \A k \in owners : k <= n
    OBVIOUS
<1>2. ASSUME owners # {} PROVE Prefix(s, last - 1) \in Seq(Messages)
    <2>1. \E i \in owners : \A k \in owners : k <= i
        <3> HIDE DEF owners, n
        <3>1. PICK i \in owners : \A k \in owners : i >= k
            BY <1>1, <1>2, LargestExists
        <3>2. \A k \in owners : k <= i
            BY <1>1, <3>1
        <3>3. QED
            BY <3>2
    <2>2. last \in owners
        <3> HIDE DEF owners
        <3>1. QED
            BY <2>1
    <2> HIDE DEF last
    <2>3. last \in 1 .. n
        BY <1>1, <2>2
    <2>4. last - 1 \in Int /\ last - 1 <= Len(s)
        BY <1>1, <2>3
    <2>5. \A i \in 1 .. last - 1 : s[i] \in Messages
        BY <2>3
    <2>6. QED
        BY <2>4, <2>5, SubSeqProperties DEF Prefix
<1>3. QED
    BY <1>2 DEF DropDangling

-----------------------------------------------------------------------------
(* Types *)

\* What the journal folds is a conversation.
LEMMA Typed ==
    ASSUME TypeOK, NEW h \in Seq(Messages), NEW whole \in BOOLEAN
    PROVE  Appended(raw, txLen, h, whole) \in Seq(Messages) /\ Len(h) \in Nat
<1>1. raw \in Seq(Messages) /\ txLen \in Nat
    BY DEF TypeOK
<1>2. SubSeq(h, txLen + 1, Len(h)) \in Seq(Messages)
    BY <1>1, SubSeqProperties
<1>3. raw \o SubSeq(h, txLen + 1, Len(h)) \in Seq(Messages)
    BY <1>1, <1>2, ConcatProperties
<1>4. QED
    BY <1>3, LenProperties DEF Appended

\* The messages a run appends.
LEMMA Kinds ==
    /\ {User, Pinned, Control, Text, Calls, Tools} \subseteq Messages
    /\ {User, Pinned, Control, Text} \subseteq Messages \ {Calls, Tools}
    /\ <<>> \in Seq(Messages)
    BY DEF Messages, User, Pinned, Control, Text, Calls, Tools

\* A nudge is one more message, or none.
LEMMA Nudged ==
    ASSUME NEW h \in Seq(Messages), NEW nudge \in BOOLEAN
    PROVE  h \o (IF nudge THEN <<Pinned>> ELSE <<>>) = IF nudge THEN Append(h, Pinned) ELSE h
<1>1. h \o <<>> = h
    BY ConcatEmptySeq
<1>2. h \o <<Pinned>> = Append(h, Pinned)
    BY Kinds, AppendIsConcat
<1>3. QED
    BY <1>1, <1>2

\* What opens a thread and what opens a phase.
LEMMA Opening ==
    ASSUME NEW s \in Seq(Messages), NEW same \in BOOLEAN
    PROVE  /\ Seeded(s) \in Seq(Messages) /\ Opened(s, same) \in Seq(Messages)
           /\ Extends(s, Seeded(s)) /\ Extends(s, Opened(s, same))
           /\ Answered(s) => Answered(Seeded(s)) /\ Answered(Opened(s, same))
<1>0. ASSUME NEW x \in {User, Control}
      PROVE  /\ Append(s, x) \in Seq(Messages) /\ Extends(s, Append(s, x))
             /\ Answered(s) => Answered(Append(s, x))
    <2>1. x \in Messages /\ x \in Messages \ {Calls, Tools}
        BY Kinds
    <2>2. QED
        BY <2>1, Appending, PlainKeepsSendable
<1>1. CASE s = <<>>
    <2>1. Append(s, User) = <<User>>
        BY <1>1
    <2>2. Seeded(s) = Append(s, User) /\ Opened(s, same) = Append(s, Control)
        BY <1>1, <2>1 DEF Seeded, Opened
    <2>3. QED
        BY <2>2, <1>0
<1>2. CASE s # <<>>
    <2>1. Seeded(s) = s /\ (Opened(s, same) = s \/ Opened(s, same) = Append(s, Control))
        BY <1>2 DEF Seeded, Opened
    <2>2. QED
        BY <2>1, <1>0, ExtendsItself
<1>3. QED
    BY <1>1, <1>2

\* What a run tells the thread when it starts.
LEMMA Telling ==
    ASSUME NEW s \in Seq(Messages), NEW news
    PROVE  /\ Told(s, news) \in Seq(Messages)
           /\ Answered(s) => Answered(Told(s, news)) /\ Extends(s, Told(s, news))
<1>1. CASE Told(s, news) = s
    BY <1>1, ExtendsItself
<1>2. CASE Told(s, news) = Append(<<User>>, Pinned) /\ s = <<>>
    <2>1. <<User>> = Append(s, User)
        BY <1>2
    <2>a. User \in Messages /\ User \in Messages \ {Calls, Tools}
        BY Kinds
    <2>b. /\ Append(s, User) \in Seq(Messages) /\ Extends(s, Append(s, User))
          /\ Answered(s) => Answered(Append(s, User))
        BY <2>a, Appending, PlainKeepsSendable
    <2>2. /\ <<User>> \in Seq(Messages) /\ Extends(s, <<User>>)
          /\ Answered(s) => Answered(<<User>>)
        BY <2>1, <2>b
    <2>3. Extends(<<User>>, Append(<<User>>, Pinned)) /\ Append(<<User>>, Pinned) \in Seq(Messages)
        BY <2>2, Kinds, Appending
    <2>4. QED
        BY <1>2, <2>2, <2>3, Kinds, ExtendsAgain, PlainKeepsSendable
<1>3. CASE Told(s, news) = Append(DropDangling(s), Pinned)
    <2>1. DropDangling(s) \in Seq(Messages) /\ (Answered(s) => DropDangling(s) = s)
        BY DroppedTyped, NothingDangles
    <2>2. QED
        BY <1>3, <2>1, Kinds, Appending, PlainKeepsSendable
<1>4. QED
    BY <1>1, <1>2, <1>3 DEF Told

\* The first conversation is empty.
LEMMA InitTypes ==
    Init => TypeOK
<1>1. <<>> \in Seq(Messages) /\ 0 \in Nat
    OBVIOUS
<1> HIDE DEF Messages
<1>2. QED
    BY <1>1 DEF Init, TypeOK

\* Every step leaves conversations.
LEMMA NextTypes ==
    ASSUME TypeOK, [Next]_vars
    PROVE  TypeOK'
<1>0. /\ raw \in Seq(Messages) /\ pro \in Seq(Messages) /\ history \in Seq(Messages)
      /\ txLen \in Nat /\ compacted \in BOOLEAN /\ at \in {"off", "idle", "turn", "tools"}
      /\ <<>> \in Seq(Messages)
    BY Kinds DEF TypeOK
<1>a. ASSUME NEW h \in Seq(Messages), Flush(h)
      PROVE  raw' \in Seq(Messages) /\ txLen' \in Nat /\ compacted' \in BOOLEAN
    BY <1>0, <1>a, Typed DEF Flush
<1>b. ASSUME NEW h \in Seq(Messages), NEW nudge \in BOOLEAN
      PROVE  h \o (IF nudge THEN <<Pinned>> ELSE <<>>) \in Seq(Messages)
    <2>1. Append(h, Pinned) \in Seq(Messages)
        BY Kinds, Appending
    <2>2. QED
        BY <2>1, Nudged
<1>c. ASSUME NEW h \in Seq(Messages), NEW x \in {User, Pinned, Control, Text, Calls, Tools}
      PROVE  Append(h, x) \in Seq(Messages)
    BY Kinds, Appending
<1>1. ASSUME NEW news, Start(news) PROVE TypeOK'
    <2>1. raw' \in Seq(Messages) /\ pro' \in Seq(Messages)
        BY <1>0, <1>1, Telling, DroppedTyped DEF Start
    <2>2. QED
        BY <1>0, <1>1, <2>1, LenProperties DEF Start, Synced, TypeOK
<1>2. CASE AppendState
    <2>1. Seeded(pro) \in Seq(Messages)
        BY <1>0, Opening
    <2>2. pro' \in Seq(Messages)
        BY <1>2, <1>c, <2>1 DEF AppendState
    <2>3. raw' \in Seq(Messages) /\ txLen' \in Nat
        BY <1>2, <2>2, Typed DEF AppendState
    <2>4. QED
        BY <1>0, <1>2, <2>2, <2>3 DEF AppendState, TypeOK
<1>3. ASSUME NEW same \in BOOLEAN, Drive(same) PROVE TypeOK'
    <2>1. Seeded(pro) \in Seq(Messages)
        BY <1>0, Opening
    <2>2. history' \in Seq(Messages) /\ pro' \in Seq(Messages)
        BY <1>3, <2>1, Opening DEF Drive
    <2>3. Flush(history')
        BY <1>3 DEF Drive
    <2>4. raw' \in Seq(Messages) /\ txLen' \in Nat /\ compacted' \in BOOLEAN
        BY <1>a, <2>2, <2>3
    <2>5. QED
        BY <1>3, <2>2, <2>4 DEF Drive, TypeOK
<1>4. CASE Compact
    <2>1. history' \in Seq(Messages)
        BY <1>0, <1>4, SummaryIsPlaced DEF Compact
    <2>2. QED
        BY <1>0, <1>4, <2>1 DEF Compact, TypeOK
<1>5. ASSUME NEW h \in Seq(Messages), NextTurn(h) PROVE TypeOK'
    <2>1. raw' \in Seq(Messages) /\ txLen' \in Nat /\ compacted' \in BOOLEAN
        BY <1>5, <1>a DEF NextTurn
    <2>2. QED
        BY <1>0, <1>5, <2>1 DEF NextTurn, TypeOK
<1>6. CASE TurnTalks
    <2>1. Append(history, Text) \in Seq(Messages)
        BY <1>0, <1>c
    <2>2. QED
        BY <1>5, <1>6, <2>1 DEF TurnTalks
<1>7. CASE TurnCalls
    <2>1. Append(history, Calls) \in Seq(Messages)
        BY <1>0, <1>c
    <2>2. QED
        BY <1>0, <1>7, <2>1 DEF TurnCalls, TypeOK
<1>8. ASSUME NEW nudge \in BOOLEAN, TurnIsEmpty(nudge) PROVE TypeOK'
    <2>1. history \o (IF nudge THEN <<Pinned>> ELSE <<>>) \in Seq(Messages)
        BY <1>0, <1>b
    <2>2. QED
        BY <1>5, <1>8, <2>1 DEF TurnIsEmpty
<1>9. ASSUME NEW nudge \in BOOLEAN, ToolsReturn(nudge) PROVE TypeOK'
    <2>1. Append(history, Tools) \in Seq(Messages)
        BY <1>0, <1>c
    <2>2. Append(history, Tools) \o (IF nudge THEN <<Pinned>> ELSE <<>>) \in Seq(Messages)
        BY <1>b, <2>1
    <2>3. QED
        BY <1>5, <1>9, <2>2 DEF ToolsReturn
<1>10. CASE ToolsSubmit
    <2>1. Append(history, Tools) \in Seq(Messages)
        BY <1>0, <1>c
    <2>2. raw' \in Seq(Messages) /\ txLen' \in Nat /\ compacted' \in BOOLEAN
        BY <1>10, <1>a, <2>1 DEF ToolsSubmit, EndDrive
    <2>3. pro' \in Seq(Messages)
        BY <1>10, <2>1, DroppedTyped DEF ToolsSubmit, EndDrive
    <2>4. QED
        BY <1>0, <1>10, <2>2, <2>3 DEF ToolsSubmit, EndDrive, TypeOK
<1>11. CASE DrivePauses \/ Cancel
    <2>1. Flush(history) /\ GoOff
        BY <1>11 DEF DrivePauses, Cancel
    <2>2. raw' \in Seq(Messages) /\ txLen' \in Nat /\ compacted' \in BOOLEAN
        BY <1>0, <1>a, <2>1
    <2>3. QED
        BY <1>0, <2>1, <2>2 DEF GoOff, TypeOK
<1>12. CASE Crash
    BY <1>0, <1>12 DEF Crash, GoOff, TypeOK
<1>13. CASE UNCHANGED vars
    BY <1>0, <1>13 DEF vars, TypeOK
<1>14. QED
    BY <1>1, <1>2, <1>3, <1>4, <1>6, <1>7, <1>8, <1>9, <1>10, <1>11, <1>12, <1>13 DEF Next

\* Every variable keeps its type, whatever the constants.
THEOREM TranscriptTypesHold ==
    Spec => []TypeOK
<1>1. Init => TypeOK
    BY InitTypes
<1>2. TypeOK /\ [Next]_vars => TypeOK'
    BY NextTypes
<1>3. QED
    BY <1>1, <1>2, PTL DEF Spec

-----------------------------------------------------------------------------
(* The inductive invariant *)

\* What has happened to the thread of the drive since it was last made durable:
\* nothing, a compaction, or calls that are not answered yet.
IdleInv ==
    at = "idle" => raw = pro /\ txLen = Len(raw)

TurnInv ==
    at = "turn" =>
        /\ Answered(history)
        /\ ~compacted => raw = history /\ txLen = Len(raw)
        /\ Cardinality(PinnedIn(raw)) <= Cardinality(PinnedIn(history))

ToolsInv ==
    at = "tools" =>
        \E before \in Seq(Messages) :
            /\ history = Append(before, Calls)
            /\ Answered(before)
            /\ ~compacted => raw = before /\ txLen = Len(raw)
            /\ Cardinality(PinnedIn(raw)) <= Cardinality(PinnedIn(before))

TxInv ==
    /\ TypeOK
    /\ Answered(raw)
    /\ compacted => at \in {"turn", "tools"}
    /\ IdleInv
    /\ TurnInv
    /\ ToolsInv

\* A new thread satisfies the invariant.
LEMMA InitTx ==
    Init => TxInv
    BY InitTypes, EmptyIsSendable DEF Init, TxInv, IdleInv, TurnInv, ToolsInv

\* A flush of what extends the durable conversation, or is it after a compaction:
\* the journal then holds just what was flushed.
LEMMA Flushing ==
    ASSUME TypeOK, NEW h \in Seq(Messages), Flush(h),
           NEW b \in Seq(Messages), Extends(b, h),
           ~compacted => raw = b /\ txLen = Len(raw),
           Cardinality(PinnedIn(raw)) <= Cardinality(PinnedIn(b))
    PROVE  /\ raw' = h /\ txLen' = Len(raw') /\ ~compacted'
           /\ ~compacted => Extends(raw, raw')
           /\ Cardinality(PinnedIn(raw)) <= Cardinality(PinnedIn(raw'))
<1>1. raw \in Seq(Messages) /\ compacted \in BOOLEAN
    BY DEF TypeOK
<1>2. raw' = h
    <2>1. CASE compacted
        BY <2>1 DEF Flush, Appended
    <2>2. CASE ~compacted
        <3>1. Appended(raw, txLen, h, compacted) = h
            BY <1>1, <2>2, IncrementsAddUp
        <3>2. QED
            BY <3>1 DEF Flush
    <2>3. QED
        BY <2>1, <2>2
<1>3. Cardinality(PinnedIn(b)) <= Cardinality(PinnedIn(h))
    BY PinnedGrow
<1>4. Cardinality(PinnedIn(raw)) <= Cardinality(PinnedIn(h))
    <2>1. \A s \in Seq(Messages) : Cardinality(PinnedIn(s)) \in Nat
        BY PinnedIsCounted
    <2> DEFINE x == Cardinality(PinnedIn(raw))
               y == Cardinality(PinnedIn(b))
               z == Cardinality(PinnedIn(h))
    <2>2. x \in Nat /\ y \in Nat /\ z \in Nat /\ x <= y /\ y <= z
        BY <1>1, <1>3, <2>1
    <2> HIDE DEF x, y, z
    <2>3. x <= z
        BY <2>2
    <2>4. QED
        BY <2>3 DEF x, z
<1>5. QED
    BY <1>2, <1>4 DEF Flush

\* What a step may do to what is durable.
Keeps ==
    /\ ~compacted => Extends(raw, raw')
    /\ Cardinality(PinnedIn(raw)) <= Cardinality(PinnedIn(raw'))

\* A journal that stays keeps what it has.
LEMMA UnchangedKeeps ==
    ASSUME TypeOK, raw' = raw
    PROVE  Keeps
<1>1. raw \in Seq(Messages)
    BY DEF TypeOK
<1>2. Extends(raw, raw)
    BY <1>1, ExtendsItself
<1>3. Cardinality(PinnedIn(raw)) <= Cardinality(PinnedIn(raw))
    BY <1>1, <1>2, PinnedGrow
<1>4. QED
    BY <1>2, <1>3 DEF Keeps

\* A flush at the end of a turn, and the next turn begins.
LEMMA NextTurnTx ==
    ASSUME TypeOK, TypeOK', NEW h \in Seq(Messages), NextTurn(h), Answered(h),
           NEW b \in Seq(Messages), Extends(b, h),
           ~compacted => raw = b /\ txLen = Len(raw),
           Cardinality(PinnedIn(raw)) <= Cardinality(PinnedIn(b))
    PROVE  TxInv' /\ Keeps
<1>1. Flush(h) /\ history' = h /\ at' = "turn"
    BY DEF NextTurn
<1>2. /\ raw' = h /\ txLen' = Len(raw') /\ ~compacted'
      /\ ~compacted => Extends(raw, raw')
      /\ Cardinality(PinnedIn(raw)) <= Cardinality(PinnedIn(raw'))
    BY <1>1, Flushing
<1>3. Cardinality(PinnedIn(raw')) <= Cardinality(PinnedIn(history'))
    BY <1>1, <1>2, ExtendsItself, PinnedGrow
<1>4. Answered(raw)' /\ Answered(history)'
    BY <1>1, <1>2 DEF Answered
<1>5. IdleInv' /\ ToolsInv'
    BY <1>1 DEF IdleInv, ToolsInv
<1>6. TurnInv'
    BY <1>1, <1>2, <1>3, <1>4 DEF TurnInv, PinnedIn
<1>7. QED
    BY <1>2, <1>4, <1>5, <1>6 DEF TxInv, Keeps

\* A flush when the drive ends for good, the thread staying behind.
LEMMA GoneTx ==
    ASSUME TypeOK, TypeOK', NEW h \in Seq(Messages), Flush(h), GoOff, Answered(h),
           NEW b \in Seq(Messages), Extends(b, h),
           ~compacted => raw = b /\ txLen = Len(raw),
           Cardinality(PinnedIn(raw)) <= Cardinality(PinnedIn(b))
    PROVE  TxInv' /\ Keeps
<1>1. /\ raw' = h /\ ~compacted'
      /\ ~compacted => Extends(raw, raw')
      /\ Cardinality(PinnedIn(raw)) <= Cardinality(PinnedIn(raw'))
    BY Flushing
<1>2. Answered(raw)'
    BY <1>1 DEF Answered
<1>3. IdleInv' /\ TurnInv' /\ ToolsInv'
    BY DEF GoOff, IdleInv, TurnInv, ToolsInv
<1>4. QED
    BY <1>1, <1>2, <1>3 DEF TxInv, Keeps

\* Every step of a run, a crash and a restart keeps invariant and journal.
LEMMA NextTx ==
    ASSUME CancelInTools = FALSE, TxInv, [Next]_vars
    PROVE  TxInv' /\ Keeps
<1>0. /\ raw \in Seq(Messages) /\ pro \in Seq(Messages) /\ history \in Seq(Messages)
      /\ txLen \in Nat /\ compacted \in BOOLEAN /\ at \in {"off", "idle", "turn", "tools"}
      /\ Answered(raw) /\ TypeOK
    BY DEF TxInv, TypeOK
<1>t. TypeOK'
    BY NextTypes DEF TxInv
<1>s. \A s \in Seq(Messages) : \A x \in {User, Pinned, Control, Text} :
          /\ Append(s, x) \in Seq(Messages) /\ Extends(s, Append(s, x))
          /\ Answered(s) => Answered(Append(s, x))
    <2>1. \A x \in {User, Pinned, Control, Text} : x \in Messages /\ x \in Messages \ {Calls, Tools}
        BY Kinds
    <2>2. QED
        BY <2>1, Appending, PlainKeepsSendable
<1>n. ASSUME NEW h \in Seq(Messages), NEW nudge \in BOOLEAN, Answered(h)
      PROVE  LET g == h \o (IF nudge THEN <<Pinned>> ELSE <<>>)
             IN  g \in Seq(Messages) /\ Answered(g) /\ Extends(h, g)
    <2> DEFINE g == h \o (IF nudge THEN <<Pinned>> ELSE <<>>)
    <2>1. g = IF nudge THEN Append(h, Pinned) ELSE h
        BY Nudged
    <2>2. /\ Append(h, Pinned) \in Seq(Messages) /\ Extends(h, Append(h, Pinned))
          /\ Answered(Append(h, Pinned))
        BY <1>n, <1>s
    <2> HIDE DEF g
    <2>3. g \in Seq(Messages) /\ Answered(g) /\ Extends(h, g)
        BY <1>n, <2>1, <2>2, ExtendsItself
    <2>4. QED
        BY <2>3 DEF g
<1>1. ASSUME NEW news, Start(news) PROVE TxInv' /\ Keeps
    <2>1. raw' \in Seq(Messages) /\ Answered(raw') /\ Extends(raw, raw')
        BY <1>0, <1>1, Telling DEF Start
    <2>2. pro' = raw' /\ txLen' = Len(raw') /\ at' = "idle" /\ ~compacted'
        BY <1>1, <2>1, NothingDangles DEF Start, Synced
    <2>3. Cardinality(PinnedIn(raw)) <= Cardinality(PinnedIn(raw'))
        BY <1>0, <2>1, PinnedGrow
    <2>4. Answered(raw)'
        BY <2>1 DEF Answered
    <2>5. IdleInv' /\ TurnInv' /\ ToolsInv'
        BY <2>2 DEF IdleInv, TurnInv, ToolsInv
    <2>6. QED
        BY <1>t, <2>1, <2>2, <2>3, <2>4, <2>5 DEF TxInv, Keeps
<1>2. CASE AppendState
    <2>1. at = "idle" /\ at' = "idle" /\ raw = pro /\ txLen = Len(raw) /\ ~compacted /\ ~compacted'
        BY <1>2 DEF AppendState, TxInv, IdleInv
    <2>2. Seeded(pro) \in Seq(Messages) /\ Extends(pro, Seeded(pro)) /\ Answered(Seeded(pro))
        BY <1>0, <2>1, Opening
    <2>3. pro' = Append(Seeded(pro), User)
        BY <1>2 DEF AppendState
    <2>4. pro' \in Seq(Messages) /\ Extends(Seeded(pro), pro') /\ Answered(pro')
        BY <1>s, <2>2, <2>3
    <2>5. Extends(pro, pro')
        BY <1>0, <2>2, <2>4, ExtendsAgain
    <2>6. raw' = pro' /\ txLen' = Len(pro')
        BY <1>0, <1>2, <2>1, <2>4, <2>5, IncrementsAddUp DEF AppendState
    <2>7. Cardinality(PinnedIn(raw)) <= Cardinality(PinnedIn(raw'))
        BY <1>0, <2>1, <2>4, <2>5, <2>6, PinnedGrow
    <2>8. Answered(raw)'
        BY <2>4, <2>6 DEF Answered
    <2>9. IdleInv' /\ TurnInv' /\ ToolsInv'
        BY <2>1, <2>6 DEF IdleInv, TurnInv, ToolsInv
    <2>10. QED
        BY <1>t, <2>1, <2>5, <2>6, <2>7, <2>8, <2>9 DEF TxInv, Keeps
<1>3. ASSUME NEW same \in BOOLEAN, Drive(same)
      PROVE  TxInv' /\ Keeps
    <2>1. at = "idle" /\ raw = pro /\ txLen = Len(raw) /\ ~compacted
        BY <1>3 DEF Drive, TxInv, IdleInv
    <2>2. Seeded(pro) \in Seq(Messages) /\ Extends(pro, Seeded(pro)) /\ Answered(Seeded(pro))
        BY <1>0, <2>1, Opening
    <2>3. history' = Opened(Seeded(pro), same) /\ Flush(history') /\ at' = "turn"
        BY <1>3 DEF Drive
    <2>4. history' \in Seq(Messages) /\ Extends(Seeded(pro), history') /\ Answered(history')
        BY <2>2, <2>3, Opening
    <2>5. Extends(raw, history')
        BY <1>0, <2>1, <2>2, <2>4, ExtendsAgain
    <2>6. Cardinality(PinnedIn(raw)) <= Cardinality(PinnedIn(raw))
        BY <1>0, ExtendsItself, PinnedGrow
    <2>7. /\ raw' = history' /\ txLen' = Len(raw') /\ ~compacted'
          /\ ~compacted => Extends(raw, raw')
          /\ Cardinality(PinnedIn(raw)) <= Cardinality(PinnedIn(raw'))
        BY <1>0, <2>1, <2>3, <2>4, <2>5, <2>6, Flushing
    <2>8. Cardinality(PinnedIn(raw')) <= Cardinality(PinnedIn(history'))
        BY <2>4, <2>7, ExtendsItself, PinnedGrow
    <2>9. Answered(raw)' /\ Answered(history)'
        BY <2>4, <2>7 DEF Answered
    <2>10. IdleInv' /\ TurnInv' /\ ToolsInv'
        BY <2>3, <2>7, <2>8, <2>9 DEF IdleInv, TurnInv, ToolsInv, PinnedIn
    <2>11. QED
        BY <1>t, <2>7, <2>9, <2>10 DEF TxInv, Keeps
<1>4. CASE Compact
    <2>1. at = "turn" /\ ~compacted /\ OldTurns(history) # {} /\ Answered(history)
          /\ raw = history /\ raw' = raw /\ at' = "turn" /\ compacted'
          /\ history' = Summarized(history)
        BY <1>4 DEF Compact, TxInv, TurnInv
    <2>2. Answered(history') /\ history' \in Seq(Messages)
        BY <1>0, <2>1, SummaryIsSendable, SummaryIsPlaced
    <2>3. Cardinality(PinnedIn(raw)) <= Cardinality(PinnedIn(history'))
        BY <1>0, <2>1, SummaryKeepsPinned
    <2>4. Answered(raw)' /\ Answered(history)'
        BY <1>0, <2>1, <2>2 DEF Answered
    <2>5. IdleInv' /\ TurnInv' /\ ToolsInv'
        BY <2>1, <2>3, <2>4 DEF IdleInv, TurnInv, ToolsInv, PinnedIn
    <2>6. QED
        BY <1>0, <1>t, <2>1, <2>4, <2>5, UnchangedKeeps DEF TxInv
<1>u. ASSUME at = "turn"
      PROVE  /\ Answered(history)
             /\ ~compacted => raw = history /\ txLen = Len(raw)
             /\ Cardinality(PinnedIn(raw)) <= Cardinality(PinnedIn(history))
    BY <1>u DEF TxInv, TurnInv
<1>5. CASE TurnTalks
    <2>1. at = "turn" /\ NextTurn(Append(history, Text))
        BY <1>5 DEF TurnTalks
    <2>2. /\ Append(history, Text) \in Seq(Messages) /\ Extends(history, Append(history, Text))
          /\ Answered(Append(history, Text))
        BY <1>0, <1>s, <1>u, <2>1
    <2>3. QED
        BY <1>0, <1>t, <1>u, <2>1, <2>2, NextTurnTx
<1>6. ASSUME NEW nudge \in BOOLEAN, TurnIsEmpty(nudge) PROVE TxInv' /\ Keeps
    <2> DEFINE g == history \o (IF nudge THEN <<Pinned>> ELSE <<>>)
    <2>1. at = "turn" /\ NextTurn(g)
        BY <1>6 DEF TurnIsEmpty
    <2>2. g \in Seq(Messages) /\ Answered(g) /\ Extends(history, g)
        BY <1>0, <1>n, <1>u, <2>1
    <2> HIDE DEF g
    <2>3. QED
        BY <1>0, <1>t, <1>u, <2>1, <2>2, NextTurnTx
<1>7. CASE TurnCalls
    <2>1. at = "turn" /\ at' = "tools" /\ history' = Append(history, Calls)
          /\ raw' = raw /\ txLen' = txLen /\ compacted' = compacted
        BY <1>7 DEF TurnCalls
    <2>2. Answered(raw)'
        BY <1>0, <2>1 DEF Answered
    <2>3. IdleInv' /\ TurnInv'
        BY <2>1 DEF IdleInv, TurnInv
    <2>4. ToolsInv'
        <3>1. /\ history \in Seq(Messages) /\ history' = Append(history, Calls)
              /\ Answered(history)
              /\ ~compacted' => raw' = history /\ txLen' = Len(raw')
              /\ Cardinality(PinnedIn(raw')) <= Cardinality(PinnedIn(history))
            BY <1>0, <1>u, <2>1
        <3>2. QED
            BY <3>1 DEF ToolsInv, PinnedIn
    <2>5. QED
        BY <1>0, <1>t, <2>1, <2>2, <2>3, <2>4, UnchangedKeeps DEF TxInv
<1>v. ASSUME at = "tools"
      PROVE  \E before \in Seq(Messages) :
                /\ Answered(before)
                /\ ~compacted => raw = before /\ txLen = Len(raw)
                /\ Cardinality(PinnedIn(raw)) <= Cardinality(PinnedIn(before))
                /\ Append(history, Tools) \in Seq(Messages)
                /\ Answered(Append(history, Tools))
                /\ Extends(before, Append(history, Tools))
    <2>1. PICK before \in Seq(Messages) :
            /\ history = Append(before, Calls)
            /\ Answered(before)
            /\ ~compacted => raw = before /\ txLen = Len(raw)
            /\ Cardinality(PinnedIn(raw)) <= Cardinality(PinnedIn(before))
        BY <1>v DEF TxInv, ToolsInv
    <2>2. Append(history, Tools) \in Seq(Messages) /\ Answered(Append(history, Tools))
        BY <2>1, AnswerKeepsSendable
    <2>3. Calls \in Messages /\ Tools \in Messages
        BY Kinds
    <2>4. Extends(before, history) /\ Extends(history, Append(history, Tools))
        BY <1>0, <2>1, <2>3, Appending
    <2>5. Extends(before, Append(history, Tools))
        BY <1>0, <2>2, <2>4, ExtendsAgain
    <2>6. QED
        BY <2>1, <2>2, <2>5
<1>8. ASSUME NEW nudge \in BOOLEAN, ToolsReturn(nudge) PROVE TxInv' /\ Keeps
    <2> DEFINE a == Append(history, Tools)
               g == a \o (IF nudge THEN <<Pinned>> ELSE <<>>)
    <2>1. at = "tools" /\ NextTurn(g)
        BY <1>8 DEF ToolsReturn
    <2>2. PICK before \in Seq(Messages) :
            /\ ~compacted => raw = before /\ txLen = Len(raw)
            /\ Cardinality(PinnedIn(raw)) <= Cardinality(PinnedIn(before))
            /\ a \in Seq(Messages) /\ Answered(a) /\ Extends(before, a)
        BY <1>v, <2>1
    <2> HIDE DEF a
    <2>3. g \in Seq(Messages) /\ Answered(g) /\ Extends(a, g)
        BY <1>n, <2>2
    <2> HIDE DEF g
    <2>4. Extends(before, g)
        BY <2>2, <2>3, ExtendsAgain
    <2>5. QED
        BY <1>0, <1>t, <2>1, <2>2, <2>3, <2>4, NextTurnTx
<1>9. CASE ToolsSubmit
    <2> DEFINE a == Append(history, Tools)
    <2>1. at = "tools" /\ Flush(a) /\ pro' = DropDangling(a) /\ at' = "idle"
        BY <1>9 DEF ToolsSubmit, EndDrive
    <2>2. PICK before \in Seq(Messages) :
            /\ ~compacted => raw = before /\ txLen = Len(raw)
            /\ Cardinality(PinnedIn(raw)) <= Cardinality(PinnedIn(before))
            /\ a \in Seq(Messages) /\ Answered(a) /\ Extends(before, a)
        BY <1>v, <2>1
    <2> HIDE DEF a
    <2>3. /\ raw' = a /\ txLen' = Len(raw') /\ ~compacted'
          /\ ~compacted => Extends(raw, raw')
          /\ Cardinality(PinnedIn(raw)) <= Cardinality(PinnedIn(raw'))
        BY <1>0, <2>1, <2>2, Flushing
    <2>4. pro' = raw'
        BY <2>1, <2>2, <2>3, NothingDangles
    <2>5. Answered(raw)'
        BY <2>2, <2>3 DEF Answered
    <2>6. IdleInv' /\ TurnInv' /\ ToolsInv'
        BY <2>1, <2>3, <2>4 DEF IdleInv, TurnInv, ToolsInv
    <2>7. QED
        BY <1>t, <2>3, <2>5, <2>6 DEF TxInv, Keeps
<1>10. CASE DrivePauses \/ Cancel
    <2>1. at = "turn" /\ Flush(history) /\ GoOff
        BY <1>10 DEF DrivePauses, Cancel
    <2>2. Extends(history, history)
        BY <1>0, ExtendsItself
    <2>3. QED
        BY <1>0, <1>t, <1>u, <2>1, <2>2, GoneTx
<1>11. CASE Crash
    <2>1. raw' = raw /\ at' = "off" /\ ~compacted'
        BY <1>11 DEF Crash, GoOff
    <2>2. Answered(raw)'
        BY <1>0, <2>1 DEF Answered
    <2>3. IdleInv' /\ TurnInv' /\ ToolsInv'
        BY <2>1 DEF IdleInv, TurnInv, ToolsInv
    <2>4. QED
        BY <1>0, <1>t, <2>1, <2>2, <2>3, UnchangedKeeps DEF TxInv
<1>12. CASE UNCHANGED vars
    <2>1. raw' = raw
        BY <1>12 DEF vars
    <2>2. TxInv'
        BY <1>12 DEF vars, TxInv, TypeOK, Answered, IdleInv, TurnInv, ToolsInv, PinnedIn
    <2>3. QED
        BY <1>0, <2>1, <2>2, UnchangedKeeps
<1>13. QED
    BY <1>1, <1>2, <1>3, <1>4, <1>5, <1>6, <1>7, <1>8, <1>9, <1>10, <1>11, <1>12 DEF Next

\* So it is in every behaviour in which no tool is cancelled by a stop.
LEMMA TxHolds ==
    ASSUME CancelInTools = FALSE
    PROVE  Spec => []TxInv
<1>1. Init => TxInv
    BY InitTx
<1>2. TxInv /\ [Next]_vars => TxInv'
    BY NextTx
<1>3. QED
    BY <1>1, <1>2, PTL DEF Spec

-----------------------------------------------------------------------------
(* What follows *)

\* Wherever a run was interrupted, outside its tools, what the journal holds can
\* be sent: a resume needs no more than replay.
THEOREM RestoredCanBeSent ==
    ASSUME CancelInTools = FALSE, ModelNamesCalls = TRUE
    PROVE  Spec => []RestoredIsSendable
<1>1. TxInv => RestoredIsSendable
    <2>1. SUFFICES ASSUME TxInv PROVE RestoredIsSendable
        OBVIOUS
    <2>2. raw \in Seq(Messages) /\ Answered(raw)
        BY <2>1 DEF TxInv, TypeOK
    <2>3. QED
        BY <2>2, NothingDangles DEF RestoredIsSendable, Sendable, IdsDiffer
<1>2. QED
    BY <1>1, TxHolds, PTL

\* Every request of a drive carries a conversation that a gateway accepts, however
\* often it was compacted, nudged or restored.
THEOREM RequestsAreSendable ==
    ASSUME CancelInTools = FALSE, ModelNamesCalls = TRUE
    PROVE  Spec => []RequestIsSendable
<1>1. TxInv => RequestIsSendable
    BY DEF TxInv, TurnInv, RequestIsSendable, Sendable, IdsDiffer
<1>2. QED
    BY <1>1, TxHolds, PTL

\* The increments of the journal add up to the thread.
THEOREM JournalAddsUp ==
    ASSUME CancelInTools = FALSE
    PROVE  Spec => []JournalFollowsThread
<1>1. TxInv => JournalFollowsThread
    <2>1. SUFFICES ASSUME TxInv PROVE JournalFollowsThread
        OBVIOUS
    <2>2. ASSUME at = "tools", ~compacted
          PROVE  raw = Prefix(history, Len(history) - 1)
        <3>1. PICK before \in Seq(Messages) : history = Append(before, Calls) /\ raw = before
            BY <2>1, <2>2 DEF TxInv, ToolsInv
        <3>2. Calls \in Messages
            BY Kinds
        <3>3. QED
            BY <3>1, <3>2, Appending
    <2>3. QED
        BY <2>1, <2>2 DEF TxInv, IdleInv, TurnInv, JournalFollowsThread
<1>2. QED
    BY <1>1, TxHolds, PTL

\* No message that was durable is lost, except to a compaction.
THEOREM DurableMessagesStay ==
    ASSUME CancelInTools = FALSE
    PROVE  Spec => DurableIsKept
<1>1. TxInv /\ [Next]_vars =>
        [raw' # raw /\ ~compacted =>
            Len(raw') >= Len(raw) /\ Prefix(raw', Len(raw)) = raw]_vars
    <2>1. SUFFICES ASSUME TxInv, [Next]_vars, ~compacted
                   PROVE  Len(raw') >= Len(raw) /\ Prefix(raw', Len(raw)) = raw
        OBVIOUS
    <2>2. raw \in Seq(Messages) /\ raw' \in Seq(Messages) /\ Extends(raw, raw')
        BY <2>1, NextTx DEF TxInv, TypeOK, Keeps
    <2>3. QED
        BY <2>2, ExtendedBegins
<1>2. QED
    BY <1>1, TxHolds, PTL DEF DurableIsKept, Spec

\* No compaction and no flush costs an instruction or a nudge.
THEOREM PinnedMessagesStay ==
    ASSUME CancelInTools = FALSE
    PROVE  Spec => PinnedAreKept
<1>1. TxInv /\ [Next]_vars =>
        [Cardinality({i \in DOMAIN raw' : raw'[i] = Pinned})
            >= Cardinality({i \in DOMAIN raw : raw[i] = Pinned})]_vars
    <2>1. SUFFICES ASSUME TxInv, [Next]_vars
                   PROVE  Cardinality(PinnedIn(raw')) >= Cardinality(PinnedIn(raw))
        BY DEF PinnedIn
    <2>2. Cardinality(PinnedIn(raw)) <= Cardinality(PinnedIn(raw'))
        BY <2>1, NextTx DEF Keeps
    <2>3. Cardinality(PinnedIn(raw)) \in Nat /\ Cardinality(PinnedIn(raw')) \in Nat
        <3>1. raw \in Seq(Messages) /\ raw' \in Seq(Messages)
            BY <2>1, NextTx DEF TxInv, TypeOK
        <3>2. QED
            BY <3>1, PinnedIsCounted
    <2>4. QED
        BY <2>2, <2>3
<1>2. QED
    BY <1>1, TxHolds, PTL DEF PinnedAreKept, Spec
=============================================================================
