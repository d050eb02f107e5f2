-------------------------- MODULE AgentLoop_proofs --------------------------
(***************************************************************************)
(* Proofs about module AgentLoop, for every budget, every limit of errors  *)
(* and retries and any number of calls in a turn.                          *)
(***************************************************************************)
EXTENDS AgentLoop, SequenceTheorems, WellFoundedInduction, TLAPS

\* The fields that the count of turns depends on.
CountsAreTyped ==
    /\ at \in {"top", "model", "calls", "decide", "done"}
    /\ "steps" \in DOMAIN task /\ task.steps \in Nat
    /\ "forced" \in DOMAIN loop /\ loop.forced \in BOOLEAN
    /\ turns \in Nat

\* Between two turns every turn has been recorded once, and a loop that may go
\* on is below its budget, or at its budget with the forced turn still to come.
TurnsAreRecorded ==
    /\ at = "top" =>
          /\ turns = task.steps
          /\ IF loop.forced THEN task.steps <= Budget ELSE task.steps < Budget
    /\ at \in {"model", "calls"} =>
          /\ turns = task.steps + 1
          /\ IF loop.forced THEN task.steps <= Budget ELSE task.steps < Budget
    /\ at = "decide" =>
          /\ turns = task.steps
          /\ task.steps <= (IF loop.forced THEN Budget + 1 ELSE Budget)
    /\ at = "done" => turns <= Budget + 1

CountInv == CountsAreTyped /\ TurnsAreRecorded

\* Recording a turn counts it once, whatever came of it.
LEMMA RecordedCounts ==
    ASSUME NEW t, "steps" \in DOMAIN t, t.steps \in Nat, NEW e
    PROVE  /\ Recorded(t, e).steps = t.steps + 1
           /\ "steps" \in DOMAIN Recorded(t, e)
BY DEF Recorded

LEMMA CountInit == Init => CountInv
BY LoopAssumption DEF Init, CountInv, CountsAreTyped, TurnsAreRecorded

LEMMA CountStep == CountInv /\ [Next]_vars => CountInv'
<1> SUFFICES ASSUME CountInv, [Next]_vars PROVE CountInv'
    OBVIOUS
<1> USE LoopAssumption DEF CountInv, CountsAreTyped, TurnsAreRecorded
<1>1. CASE StartTurn
    BY <1>1 DEF StartTurn
<1>2. ASSUME NEW e \in GatewayErrors, ModelFails(e) PROVE CountInv'
    BY <1>2, RecordedCounts DEF ModelFails, End, ToDecide
<1>3. CASE ModelTalks
    BY <1>3, RecordedCounts DEF ModelTalks, End, ToDecide
<1>4. ASSUME NEW names, ModelCalls(names) PROVE CountInv'
    BY <1>4 DEF ModelCalls
<1>5. ASSUME NEW i, CallStep(i) PROVE CountInv'
    BY <1>5 DEF CallStep, CallIsMalformed, ToolReturns, SubmitAccepted, SubmitRejected, Returns
<1>6. CASE TurnEnds
    BY <1>6, RecordedCounts DEF TurnEnds, End, ToDecide
<1>7. CASE TurnTimesOut
    BY <1>7 DEF TurnTimesOut, End
<1>8. CASE DecideStops \/ DecideStopsOnLogic
    BY <1>8 DEF DecideStops, DecideStopsOnLogic, Free, End
<1>9. CASE DecideForces
    BY <1>9 DEF DecideForces, OverBudget, End
<1>10. CASE DecideNudges \/ DecideContinues
    BY <1>10 DEF DecideNudges, DecideContinues, Free, OverBudget
<1>11. CASE TimePasses \/ UNCHANGED vars
    BY <1>11 DEF TimePasses, vars
<1>12. QED
    BY <1>1, <1>2, <1>3, <1>4, <1>5, <1>6, <1>7, <1>8, <1>9, <1>10, <1>11 DEF Next, LoopStep

\* A loop makes at most one turn more than its budget, the one that has to
\* submit, whatever errors, retries and nudges it meets.
THEOREM LoopTurnsAreBounded == Spec => []TurnsAreBounded
<1>1. CountInv => TurnsAreBounded
    BY LoopAssumption DEF CountInv, CountsAreTyped, TurnsAreRecorded, TurnsAreBounded
<1>2. QED
    BY <1>1, CountInit, CountStep, PTL DEF Spec

-----------------------------------------------------------------------------
(* No turn after an error that no retry helps *)

\* Of the calls of a turn one is at least as severe as every other.
LEMMA MostSevereExists ==
    ASSUME NEW S, S # {}, \A o \in S : o.error \in Errors
    PROVE  \E o \in S : \A p \in S : Severity(p.error) <= Severity(o.error)
<1> DEFINE Has(e) == \E o \in S : o.error = e
<1>1. CASE Has("fatal")
    BY <1>1 DEF Errors, Severity
<1>2. CASE ~Has("fatal") /\ Has("auth")
    BY <1>2 DEF Errors, Severity
<1>3. CASE ~Has("fatal") /\ ~Has("auth") /\ Has("logic")
    BY <1>3 DEF Errors, Severity
<1>4. CASE ~Has("fatal") /\ ~Has("auth") /\ ~Has("logic") /\ Has("other")
    BY <1>4 DEF Errors, Severity
<1>5. CASE ~Has("fatal") /\ ~Has("auth") /\ ~Has("logic") /\ ~Has("other") /\ Has("transient")
    BY <1>5 DEF Errors, Severity
<1>6. CASE /\ ~Has("fatal") /\ ~Has("auth") /\ ~Has("logic") /\ ~Has("other")
           /\ ~Has("transient") /\ Has("validation")
    BY <1>6 DEF Errors, Severity
<1>7. CASE \A o \in S : o.error = "ok"
    BY <1>7 DEF Errors, Severity
<1>8. QED
    BY <1>1, <1>2, <1>3, <1>4, <1>5, <1>6, <1>7 DEF Errors

\* The error of a turn is at least as severe as that of each of its calls.
LEMMA ErrorOfTurnIsWorst ==
    ASSUME NEW outcomes, NEW i \in DOMAIN outcomes,
           \A j \in DOMAIN outcomes : outcomes[j].error \in Errors
    PROVE  /\ ErrorOfTurn(outcomes) \in Errors
           /\ Severity(outcomes[i].error) <= Severity(ErrorOfTurn(outcomes))
<1> DEFINE S == {outcomes[j] : j \in DOMAIN outcomes}
           Worst(o) == \A p \in S : Severity(p.error) <= Severity(o.error)
           w == CHOOSE o \in S : Worst(o)
<1>1. \A o \in S : o.error \in Errors
    OBVIOUS
<1>2. outcomes[i] \in S
    OBVIOUS
<1>3. \E o \in S : Worst(o)
    BY <1>1, <1>2, MostSevereExists
<1>4. w \in S /\ Worst(w)
    <2> HIDE DEF S, Worst
    <2> QED
        BY <1>3
<1>5. ErrorOfTurn(outcomes) = w.error
    <2>1. \A o : Worst(o) <=>
            \A j \in DOMAIN outcomes : Severity(outcomes[j].error) <= Severity(o.error)
        OBVIOUS
    <2> QED
        BY <2>1 DEF ErrorOfTurn
<1>6. QED
    BY <1>1, <1>2, <1>4, <1>5

\* What a call has returned carries an error class, and what it has not is pending.
OutcomesAreTyped ==
    /\ DOMAIN turn = {"calls", "outcome"}
    /\ "error" \in DOMAIN loop
    /\ \A i \in DOMAIN turn.outcome :
          turn.outcome[i] = Pending \/ turn.outcome[i].error \in Errors

\* The decision looks at an error that is as severe as every call of the turn.
WorstIsKnown ==
    /\ at = "model" => DOMAIN turn.outcome = {}
    /\ at = "calls" => DOMAIN turn.outcome # {}
    /\ at = "decide" =>
          /\ loop.error \in Errors
          /\ \A i \in DOMAIN turn.outcome :
                /\ turn.outcome[i].error \in Errors
                /\ Severity(turn.outcome[i].error) <= Severity(loop.error)

ErrorInv == OutcomesAreTyped /\ WorstIsKnown /\ NoTurnAfterFatal

LEMMA ErrorInit == Init => ErrorInv
BY DEF Init, NoTurn, ErrorInv, OutcomesAreTyped, WorstIsKnown, NoTurnAfterFatal

\* A call that returns says how it ended; the other calls keep what they said.
LEMMA ReturnedIsTyped ==
    ASSUME ErrorInv, at = "calls",
           NEW i, NEW error \in Errors, NEW key, NEW payload, NEW down,
           Returns(i, error, key, payload, down)
    PROVE  ErrorInv'
<1> DEFINE new == [ error |-> error, key |-> key, payload |-> payload,
                    exhausted |-> /\ error = "validation"
                                  /\ streak[turn.calls[i]] + 1 >= ValidationMax,
                    down |-> down ]
<1> USE DEF ErrorInv, OutcomesAreTyped
<1>1. /\ turn' = [turn EXCEPT !.outcome[i] = new]
      /\ at' = at /\ loop' = loop
    BY DEF Returns
<1>2. new.error \in Errors
    OBVIOUS
<1> HIDE DEF new
<1>3. /\ DOMAIN turn' = DOMAIN turn
      /\ turn.outcome' = [turn.outcome EXCEPT ![i] = new]
    BY <1>1
<1>4. \A j \in DOMAIN turn.outcome' :
          turn.outcome'[j] = Pending \/ turn.outcome'[j].error \in Errors
    BY <1>2, <1>3
<1>5. QED
    BY <1>1, <1>3, <1>4 DEF WorstIsKnown, NoTurnAfterFatal

LEMMA ErrorStep == ErrorInv /\ [Next]_vars => ErrorInv'
<1> SUFFICES ASSUME ErrorInv, [Next]_vars PROVE ErrorInv'
    OBVIOUS
<1> USE DEF ErrorInv, OutcomesAreTyped, WorstIsKnown, NoTurnAfterFatal
<1>1. CASE StartTurn
    BY <1>1 DEF StartTurn, NoTurn
<1>2. ASSUME NEW e \in GatewayErrors, ModelFails(e) PROVE ErrorInv'
    BY <1>2 DEF ModelFails, End, ToDecide, GatewayErrors
<1>3. CASE ModelTalks
    BY <1>3 DEF ModelTalks, End, ToDecide, Errors
<1>4. ASSUME NEW n \in 1 .. MaxCalls, NEW names \in [1 .. n -> Names], ModelCalls(names)
      PROVE  ErrorInv'
    <2>1. 1 \in DOMAIN names
        BY LoopAssumption
    <2>2. QED
        BY <1>4, <2>1 DEF ModelCalls
<1>5. ASSUME NEW i, CallStep(i) PROVE ErrorInv'
    <2>1. CASE CallIsMalformed(i)
        BY <2>1, ReturnedIsTyped DEF CallIsMalformed, Errors
    <2>2. ASSUME NEW error \in Errors, NEW v, NEW down, ToolReturns(i, error, v, down)
          PROVE  ErrorInv'
        BY <2>2, ReturnedIsTyped DEF ToolReturns
    <2>3. CASE SubmitAccepted(i)
        BY <2>3, ReturnedIsTyped DEF SubmitAccepted, Errors
    <2>4. ASSUME NEW v, SubmitRejected(i, v) PROVE ErrorInv'
        BY <2>4, ReturnedIsTyped DEF SubmitRejected, Errors
    <2>5. QED
        BY <1>5, <2>1, <2>2, <2>3, <2>4, LoopAssumption DEF CallStep
<1>6. CASE TurnEnds
    <2>1. /\ turn' = turn
          /\ at' \in {"done", "decide"}
          /\ DOMAIN loop' = DOMAIN loop
          /\ loop.error' = ErrorOfTurn(turn.outcome)
        BY <1>6 DEF TurnEnds, End, ToDecide
    <2>2. \A i \in DOMAIN turn.outcome : turn.outcome[i].error \in Errors
        BY <1>6 DEF TurnEnds
    <2>3. DOMAIN turn.outcome # {} => loop.error' \in Errors
        BY <2>1, <2>2, ErrorOfTurnIsWorst
    <2>4. \A i \in DOMAIN turn.outcome :
              Severity(turn.outcome[i].error) <= Severity(loop.error')
        BY <2>1, <2>2, ErrorOfTurnIsWorst
    <2>5. QED
        BY <1>6, <2>1, <2>2, <2>3, <2>4 DEF TurnEnds
<1>7. CASE TurnTimesOut
    BY <1>7 DEF TurnTimesOut, End
<1>8. CASE DecideStops \/ DecideStopsOnLogic
    BY <1>8 DEF DecideStops, DecideStopsOnLogic, Free, End
<1>9. CASE DecideForces \/ DecideNudges \/ DecideContinues
    <2>1. at = "decide" /\ StopReason = "none" /\ turn' = turn /\ at' \in {"top", "done"}
          /\ DOMAIN loop' = DOMAIN loop
        BY <1>9 DEF DecideForces, DecideNudges, DecideContinues, Free, End
    <2>2. loop.error \notin {"auth", "fatal"}
        BY <2>1 DEF StopReason
    <2>3. \A i \in DOMAIN turn.outcome : turn.outcome[i].error \notin {"auth", "fatal"}
        BY <2>1, <2>2 DEF Severity, Errors
    <2>4. QED
        BY <2>1, <2>3
<1>10. CASE TimePasses \/ UNCHANGED vars
    BY <1>10 DEF TimePasses, vars
<1>11. QED
    BY <1>1, <1>2, <1>3, <1>4, <1>5, <1>6, <1>7, <1>8, <1>9, <1>10 DEF Next, LoopStep

\* An error that no retry helps is not hidden by another call of the same turn:
\* no further turn is made after it.
THEOREM LoopStopsOnFatal == Spec => []NoTurnAfterFatal
<1>1. ErrorInv => NoTurnAfterFatal
    BY DEF ErrorInv
<1>2. QED
    BY <1>1, ErrorInit, ErrorStep, PTL DEF Spec

-----------------------------------------------------------------------------
(* Induction over data: sets of natural numbers, and iteration *)

\* Every set of natural numbers that is not empty has a smallest one.
LEMMA SmallestExists ==
    ASSUME NEW T \in SUBSET Nat, T # {}
    PROVE  \E m \in T : \A n \in T : m <= n
<1> DEFINE R == {ss \in Nat \X Nat : ss[1] < ss[2]}
<1>1. IsWellFoundedOn(R, Nat)
    BY NatLessThanWellFounded, Zenon DEF OpToRel
<1>2. PICK x \in T : \A y \in T : ~(<<y, x>> \in R)
    <2> HIDE DEF R
    <2> QED BY <1>1, WFMin, Zenon
<1>3. ASSUME NEW y \in T PROVE x <= y
    <2>1. x \in Nat /\ y \in Nat
        OBVIOUS
    <2>2. ~(<<y, x>>[1] < <<y, x>>[2])
        BY <1>2, <2>1
    <2>3. ~(y < x)
        BY <2>2
    <2>4. QED
        BY <2>1, <2>3
<1>4. QED
    BY <1>3

\* A bounded set of natural numbers that is not empty has a largest one.
LEMMA LargestExists ==
    ASSUME NEW T \in SUBSET Nat, T # {}, NEW b \in Nat, \A n \in T : n <= b
    PROVE  \E m \in T : \A n \in T : m >= n
<1> DEFINE D == {b - n : n \in T}
<1>0. \A n \in T : n \in Nat /\ n <= b
    OBVIOUS
<1>1. D \in SUBSET Nat /\ D # {}
    <2>1. \A n \in T : b - n \in Nat
        BY <1>0
    <2>2. QED
        BY <2>1
<1>2. PICK d \in D : \A e \in D : d <= e
    <2> HIDE DEF D
    <2> QED BY <1>1, SmallestExists
<1>3. PICK m \in T : d = b - m
    OBVIOUS
<1>4. ASSUME NEW n \in T PROVE m >= n
    <2>1. b - m <= b - n
        BY <1>2, <1>3
    <2>2. QED
        BY <2>1, <1>0
<1>5. QED
    BY <1>4

\* f starts at b and goes from each value to the next by g.
Iterates(f, n, S, b, g) ==
    /\ f \in [0 .. n -> S]
    /\ f[0] = b
    /\ \A i \in 1 .. n : f[i] = g[i][f[i - 1]]

\* What is defined by iteration exists.
LEMMA IterationExists ==
    ASSUME NEW n \in Nat, NEW S, NEW b \in S, NEW g \in [1 .. n -> [S -> S]]
    PROVE  \E f : Iterates(f, n, S, b, g)
<1> DEFINE Bad == {k \in 0 .. n : ~ \E f : Iterates(f, k, S, b, g)}
<1>1. SUFFICES ASSUME Bad # {} PROVE FALSE
    <2>1. n \in 0 .. n
        OBVIOUS
    <2>2. n \notin Bad => \E f : Iterates(f, n, S, b, g)
        BY <2>1
    <2>3. QED
        BY <2>2
<1>2. PICK m \in Bad : \A k \in Bad : m <= k
    <2>1. Bad \in SUBSET Nat
        OBVIOUS
    <2> HIDE DEF Bad
    <2>2. QED
        BY <1>1, <2>1, SmallestExists
<1>3. m # 0
    <2>1. Iterates([i \in 0 .. 0 |-> b], 0, S, b, g)
        BY DEF Iterates
    <2>2. QED
        BY <2>1
<1>4. m - 1 \in 0 .. n /\ m - 1 \notin Bad
    BY <1>2, <1>3
<1>5. PICK f : Iterates(f, m - 1, S, b, g)
    BY <1>4
<1> DEFINE h == [i \in 0 .. m |-> IF i = m THEN g[m][f[m - 1]] ELSE f[i]]
<1>6. f[m - 1] \in S /\ m \in 1 .. n
    BY <1>3, <1>5 DEF Iterates
<1>7. g[m][f[m - 1]] \in S
    BY <1>6
<1>8. Iterates(h, m, S, b, g)
    <2>1. h \in [0 .. m -> S]
        BY <1>5, <1>7 DEF Iterates
    <2>2. h[0] = b
        BY <1>3, <1>5 DEF Iterates
    <2>3. ASSUME NEW i \in 1 .. m PROVE h[i] = g[i][h[i - 1]]
        <3>1. CASE i = m
            BY <3>1, <1>6
        <3>2. CASE i # m
            BY <3>2, <1>5 DEF Iterates
        <3>3. QED
            BY <3>1, <3>2
    <2> HIDE DEF h
    <2>4. QED
        BY <2>1, <2>2, <2>3 DEF Iterates
<1>9. QED
    BY <1>8

\* The largest element of a bounded set.
LEMMA MaxIsLargest ==
    ASSUME NEW T \in SUBSET Nat, T # {}, NEW b \in Nat, \A n \in T : n <= b
    PROVE  Max(T) \in T /\ \A n \in T : Max(T) >= n
<1>1. \E m \in T : \A n \in T : m >= n
    BY LargestExists
<1>2. QED
    BY <1>1 DEF Max

-----------------------------------------------------------------------------
(* The tracker *)

Keys == Names \X Errors \X Variants
Trackers == [seen : Seq(Keys), nudged : BOOLEAN, grace : 0 .. Grace, signal : Signals]

\* The window holds the call that was observed last.
LEMMA WindowIsTyped ==
    ASSUME NEW seen \in Seq(Keys), NEW key \in Keys
    PROVE  Remembered(seen, key) \in Seq(Keys) /\ Len(Remembered(seen, key)) \in Nat \ {0}
<1> DEFINE all == Append(seen, key)
           m == Len(all) - HistoryMax + 1
<1>1. all \in Seq(Keys) /\ Len(all) = Len(seen) + 1 /\ Len(seen) \in Nat
    BY AppendProperties
<1>2. m \in Int /\ m <= Len(all)
    BY <1>1, LoopAssumption
<1>3. Max({1, m}) \in 1 .. Len(all)
    <2>1. CASE m >= 1
        <3>1. Max({1, m}) = m
            BY <2>1, <1>2 DEF Max
        <3>2. QED
            BY <3>1, <2>1, <1>2
    <2>2. CASE m < 1
        <3>1. Max({1, m}) = 1
            BY <2>2, <1>2 DEF Max
        <3>2. QED
            BY <3>1, <1>1
    <2>3. QED
        BY <2>1, <2>2, <1>2
<1> DEFINE k == Max({1, m})
           window == SubSeq(all, k, Len(all))
<1> HIDE DEF all, m, k
<1>4. k \in 1 .. Len(all) /\ Len(all) \in Nat
    BY <1>1, <1>3 DEF k
<1>5. window \in Seq(Keys)
    BY <1>1, <1>4
<1>6. Len(window) = Len(all) - k + 1
    BY <1>1, <1>4
<1>7. Remembered(seen, key) = window
    BY DEF Remembered, all, m, k
<1>8. QED
    BY <1>4, <1>5, <1>6, <1>7

\* How often the last calls repeat themselves is a number, at least one.
LEMMA RepeatsAreCounted ==
    ASSUME NEW seen \in Seq(Keys), Len(seen) \in Nat \ {0}
    PROVE  CycleRepeats(seen) \in Nat \ {0}
<1>1. ASSUME NEW p \in 1 .. Len(seen) PROVE RepeatsOf(seen, p) \in 1 .. Len(seen)
    <2> DEFINE T == {n \in 1 .. Len(seen) :
                        /\ n * p <= Len(seen)
                        /\ \A i \in (Len(seen) - n * p + 1) .. (Len(seen) - p) :
                               seen[i] = seen[i + p]}
    <2>1. 1 \in T
        <3>1. 1 * p = p /\ p <= Len(seen) /\ 1 \in 1 .. Len(seen)
            OBVIOUS
        <3>2. (Len(seen) - p + 1) .. (Len(seen) - p) = {}
            BY <3>1
        <3>3. QED
            BY <3>1, <3>2
    <2>2. RepeatsOf(seen, p) = Max(T)
        BY DEF RepeatsOf
    <2>3. T \subseteq 1 .. Len(seen)
        OBVIOUS
    <2> HIDE DEF T
    <2>4. T \in SUBSET Nat /\ T # {} /\ \A n \in T : n <= Len(seen)
        BY <2>1, <2>3
    <2>5. Max(T) \in T
        BY <2>4, MaxIsLargest
    <2>6. QED
        BY <2>2, <2>3, <2>5
<1> DEFINE m == Min({3, Len(seen)})
           U == {RepeatsOf(seen, p) : p \in 1 .. m}
<1>2. m \in 1 .. Len(seen)
    <2>1. CASE Len(seen) >= 3
        <3>1. m = 3
            BY <2>1 DEF Min
        <3>2. QED
            BY <3>1, <2>1
    <2>2. CASE Len(seen) < 3
        <3>1. m = Len(seen)
            BY <2>2 DEF Min
        <3>2. QED
            BY <3>1
    <2>3. QED
        BY <2>1, <2>2
<1> HIDE DEF m
<1>3. U \subseteq 1 .. Len(seen) /\ U # {}
    BY <1>1, <1>2
<1>4. CycleRepeats(seen) = Max(U)
    BY DEF CycleRepeats, m
<1> HIDE DEF U
<1>5. Max(U) \in U
    <2>1. U \in SUBSET Nat /\ \A n \in U : n <= Len(seen)
        BY <1>3
    <2>2. QED
        BY <2>1, <1>3, MaxIsLargest
<1>6. Max(U) \in 1 .. Len(seen)
    BY <1>3, <1>5
<1>7. QED
    BY <1>4, <1>6

\* One call observed: the tracker confirms a loop only after it has nudged and
\* its grace has run out; a nudge leaves a signal, and the grace shrinks by one.
LEMMA ObservedStep ==
    ASSUME NEW tr \in Trackers, NEW key \in Keys
    PROVE  LET r == Observed(tr, key) IN
           /\ r \in Trackers
           /\ r.signal = "loop" => tr.signal = "loop" \/ (tr.nudged /\ tr.grace = 0)
           /\ tr.signal # "none" => r.signal # "none"
           /\ r.nudged /\ ~tr.nudged => r.grace = Grace /\ r.signal # "none"
           /\ r.nudged /\ tr.nudged => r.grace >= tr.grace - 1
<1> DEFINE seen == Remembered(tr.seen, key)
           n == CycleRepeats(seen)
<1>1. seen \in Seq(Keys) /\ n \in Nat \ {0}
    BY WindowIsTyped, RepeatsAreCounted DEF Trackers
<1> HIDE DEF n
<1>2. Observed(tr, key) =
        LET signal == IF n < Threshold THEN "none"
                      ELSE IF tr.nudged /\ tr.grace = 0 THEN "loop" ELSE "repeat"
        IN  [ seen |-> seen,
              nudged |-> n > 1 /\ (tr.nudged \/ n >= Threshold),
              grace |-> IF n <= 1 THEN 0
                        ELSE IF tr.nudged THEN (IF tr.grace = 0 THEN 0 ELSE tr.grace - 1)
                        ELSE IF n >= Threshold THEN Grace ELSE tr.grace,
              signal |-> IF SignalRank(signal) > SignalRank(tr.signal)
                         THEN signal ELSE tr.signal ]
    BY DEF Observed, n
<1> HIDE DEF seen
<1>3. tr.nudged \in BOOLEAN /\ tr.grace \in 0 .. Grace /\ tr.signal \in Signals
    BY DEF Trackers
<1> DEFINE r == Observed(tr, key)
           signal == IF n < Threshold THEN "none"
                     ELSE IF tr.nudged /\ tr.grace = 0 THEN "loop" ELSE "repeat"
<1>4. /\ r.seen = seen
      /\ r.nudged = (n > 1 /\ (tr.nudged \/ n >= Threshold))
      /\ r.grace = IF n <= 1 THEN 0
                   ELSE IF tr.nudged THEN (IF tr.grace = 0 THEN 0 ELSE tr.grace - 1)
                   ELSE IF n >= Threshold THEN Grace ELSE tr.grace
      /\ r.signal = IF SignalRank(signal) > SignalRank(tr.signal) THEN signal ELSE tr.signal
      /\ r = [seen |-> r.seen, nudged |-> r.nudged, grace |-> r.grace, signal |-> r.signal]
    BY <1>2
<1> HIDE DEF r
<1>5. r.signal \in {signal, tr.signal} /\ signal \in Signals
    BY <1>4 DEF Signals
<1>6. /\ tr.signal # "none" => r.signal # "none"
      /\ signal # "none" => r.signal # "none"
    BY <1>3, <1>4, <1>5 DEF Signals, SignalRank
<1>7. r.grace \in 0 .. Grace
    BY <1>1, <1>3, <1>4, LoopAssumption
<1>8. r \in Trackers
    BY <1>1, <1>3, <1>4, <1>5, <1>7 DEF Trackers
<1>9. r.signal = "loop" => tr.signal = "loop" \/ (tr.nudged /\ tr.grace = 0)
    BY <1>5
<1>10. r.nudged /\ ~tr.nudged => r.grace = Grace /\ r.signal # "none"
    <2>1. ASSUME r.nudged, ~tr.nudged PROVE n > 1 /\ n >= Threshold
        BY <2>1, <1>4
    <2>2. QED
        BY <2>1, <1>1, <1>3, <1>4, <1>6, LoopAssumption
<1>11. ASSUME r.nudged, tr.nudged PROVE r.grace >= tr.grace - 1
    <2>1. n > 1
        BY <1>4, <1>11
    <2>2. ~(n <= 1)
        BY <2>1, <1>1
    <2>3. r.grace = IF tr.grace = 0 THEN 0 ELSE tr.grace - 1
        BY <1>4, <1>11, <2>2
    <2>4. tr.grace \in Nat
        BY <1>3, LoopAssumption
    <2>5. QED
        BY <2>3, <2>4
<1>12. QED
    BY <1>6, <1>8, <1>9, <1>10, <1>11 DEF r

-----------------------------------------------------------------------------
(* The calls of a turn, one after the other *)

\* The tracker after each of the calls of a turn.
Follows(after, tr, outcomes) ==
    /\ after \in [0 .. Len(outcomes) -> Trackers]
    /\ after[0] = [tr EXCEPT !.signal = "none"]
    /\ \A i \in 1 .. Len(outcomes) :
          after[i] = IF outcomes[i].key = Unseen THEN after[i - 1]
                     ELSE Observed(after[i - 1], outcomes[i].key)

\* ObservedTurn is what its definition says: a tracker that saw call after call.
LEMMA TurnIsFollowed ==
    ASSUME NEW tr \in Trackers, NEW outcomes \in Seq(Outcomes)
    PROVE  \E after : Follows(after, tr, outcomes) /\ ObservedTurn(tr, outcomes) = after[Len(outcomes)]
<1> DEFINE n == Len(outcomes)
           start == [tr EXCEPT !.signal = "none"]
           Seen(i, t) == IF outcomes[i].key = Unseen THEN t ELSE Observed(t, outcomes[i].key)
           g == [i \in 1 .. n |-> [t \in Trackers |-> Seen(i, t)]]
           Is(f) == f = [i \in 0 .. n |-> IF i = 0 THEN start ELSE Seen(i, f[i - 1])]
           f == CHOOSE f : Is(f)
<1>1. n \in Nat /\ start \in Trackers
    BY DEF Trackers, Signals
<1>2. ASSUME NEW i \in 1 .. n, NEW t \in Trackers PROVE Seen(i, t) \in Trackers
    <2>1. outcomes[i] \in Outcomes
        BY <1>1
    <2>2. outcomes[i].key \in {Unseen} \cup Keys
        BY <2>1 DEF Outcomes, Keys
    <2>3. QED
        BY <2>2, ObservedStep
<1> HIDE DEF n, start, Seen
<1>3. /\ g \in [1 .. n -> [Trackers -> Trackers]]
      /\ \A i \in 1 .. n : \A t \in Trackers : g[i][t] = Seen(i, t)
    BY <1>2
<1>4. PICK h : Iterates(h, n, Trackers, start, g)
    <2> HIDE DEF g
    <2>1. QED
        BY <1>1, <1>3, IterationExists
<1>5. \A i \in 1 .. n : h[i] = Seen(i, h[i - 1])
    <2> HIDE DEF g
    <2>1. ASSUME NEW i \in 1 .. n PROVE h[i - 1] \in Trackers
        BY <1>1, <1>4 DEF Iterates
    <2>2. QED
        BY <2>1, <1>3, <1>4 DEF Iterates
<1>6. Is(h)
    BY <1>4, <1>5 DEF Iterates
<1>7. Is(f)
    <2> HIDE DEF Is
    <2>1. QED
        BY <1>6
<1>8. f[0] = start /\ \A i \in 1 .. n : f[i] = Seen(i, f[i - 1])
    <2> HIDE DEF f
    <2>1. ASSUME NEW i \in 0 .. n PROVE f[i] = IF i = 0 THEN start ELSE Seen(i, f[i - 1])
        BY <1>7
    <2>2. QED
        BY <2>1, <1>1
<1> HIDE DEF f
<1>9. ASSUME NEW i \in 0 .. n PROVE f[i] \in Trackers
    <2> DEFINE Bad == {k \in 0 .. n : f[k] \notin Trackers}
    <2>1. SUFFICES ASSUME Bad # {} PROVE FALSE
        OBVIOUS
    <2>2. PICK m \in Bad : \A k \in Bad : m <= k
        <3>1. Bad \in SUBSET Nat
            BY <1>1
        <3> HIDE DEF Bad
        <3>2. QED
            BY <2>1, <3>1, SmallestExists
    <2>3. m # 0
        BY <1>1, <1>8
    <2>4. m \in 1 .. n /\ m - 1 \in 0 .. n /\ m - 1 \notin Bad
        BY <1>1, <2>2, <2>3
    <2>5. f[m - 1] \in Trackers
        BY <2>4
    <2>6. QED
        BY <1>2, <1>8, <2>4, <2>5
<1>10. ObservedTurn(tr, outcomes) = f[n]
    BY DEF ObservedTurn, f, Is, Seen, start, n
<1>11. f \in [0 .. n -> Trackers]
    <2>1. f = [i \in 0 .. n |-> f[i]]
        BY <1>7
    <2>2. QED
        BY <1>9, <2>1
<1>12. Follows(f, tr, outcomes)
    BY <1>8, <1>11 DEF Follows, n, start, Seen
<1>13. QED
    BY <1>10, <1>12 DEF n

\* What a turn tells the tracker: it stays typed; and if nothing had been nudged
\* before, a confirmed loop takes the nudge, the grace and one call more, and a
\* nudge shows in the signal of the turn.
LEMMA TurnIsObserved ==
    ASSUME NEW tr \in Trackers, NEW outcomes \in Seq(Outcomes)
    PROVE  LET r == ObservedTurn(tr, outcomes) IN
           /\ r \in Trackers
           /\ ~tr.nudged /\ r.signal = "loop" => Len(outcomes) >= Grace + 2
           /\ ~tr.nudged /\ r.nudged => r.signal # "none"
<1>1. PICK after : Follows(after, tr, outcomes) /\ ObservedTurn(tr, outcomes) = after[Len(outcomes)]
    BY TurnIsFollowed
<1> DEFINE n == Len(outcomes)
           Fine(i) == /\ after[i].signal = "loop" => i >= Grace + 2
                      /\ after[i].nudged => after[i].signal # "none"
                      /\ after[i].nudged => after[i].grace + i >= Grace + 1
<1>2. n \in Nat /\ \A i \in 0 .. n : after[i] \in Trackers
    BY <1>1 DEF Follows
<1>3. ASSUME ~tr.nudged, NEW i \in 0 .. n PROVE Fine(i)
    <2> DEFINE Bad == {k \in 0 .. n : ~Fine(k)}
    <2>1. SUFFICES ASSUME Bad # {} PROVE FALSE
        OBVIOUS
    <2>2. PICK m \in Bad : \A k \in Bad : m <= k
        <3>1. Bad \in SUBSET Nat
            BY <1>2
        <3> HIDE DEF Bad
        <3>2. QED
            BY <2>1, <3>1, SmallestExists
    <2>3. Fine(0)
        <3>1. after[0].nudged = tr.nudged /\ after[0].signal = "none"
            BY <1>1 DEF Follows, Trackers
        <3>2. QED
            BY <1>3, <3>1
    <2>4. m \in 1 .. n /\ m - 1 \in 0 .. n /\ m - 1 \notin Bad
        BY <1>2, <2>2, <2>3
    <2>5. Fine(m - 1)
        BY <2>4
    <2> DEFINE t == after[m - 1]
               r == after[m]
    <2>6. t \in Trackers /\ r \in Trackers /\ t.grace \in Nat /\ r.grace \in Nat
        <3>1. t \in Trackers /\ r \in Trackers
            BY <1>2, <2>4
        <3> HIDE DEF t, r
        <3>2. QED
            BY <3>1, LoopAssumption DEF Trackers
    <2>7. CASE outcomes[m].key = Unseen
        <3>1. r = t
            BY <1>1, <2>4, <2>7 DEF Follows
        <3>2. Fine(m)
            BY SMTT(40), <2>4, <2>5, <2>6, <3>1, LoopAssumption
        <3>3. QED
            BY <2>2, <3>2
    <2>8. CASE outcomes[m].key # Unseen
        <3>1. r = Observed(t, outcomes[m].key)
            BY <1>1, <2>4, <2>8 DEF Follows
        <3>2. outcomes[m] \in Outcomes
            BY <2>4
        <3>3. outcomes[m].key \in Keys
            BY <2>8, <3>2 DEF Outcomes, Keys
        <3>4. /\ r.signal = "loop" => t.signal = "loop" \/ (t.nudged /\ t.grace = 0)
              /\ t.signal # "none" => r.signal # "none"
              /\ r.nudged /\ ~t.nudged => r.grace = Grace /\ r.signal # "none"
              /\ r.nudged /\ t.nudged => r.grace >= t.grace - 1
            BY <2>6, <3>1, <3>3, ObservedStep
        <3> HIDE DEF t, r
        <3>5. /\ t.signal = "loop" => m - 1 >= Grace + 2
              /\ t.nudged => t.signal # "none"
              /\ t.nudged => t.grace + (m - 1) >= Grace + 1
            BY <2>5 DEF t
        <3>6. /\ r.signal = "loop" => m >= Grace + 2
              /\ r.nudged => r.signal # "none"
              /\ r.nudged => r.grace + m >= Grace + 1
            <4>1. m \in Nat /\ Grace \in Nat /\ t.grace \in Nat /\ r.grace \in Nat
                  /\ t.nudged \in BOOLEAN /\ r.nudged \in BOOLEAN
                BY <1>2, <2>4, <2>6, LoopAssumption DEF Trackers
            <4>2. r.signal = "loop" => m >= Grace + 2
                BY <3>4, <3>5, <4>1
            <4>3. CASE r.nudged /\ t.nudged
                BY <3>4, <3>5, <4>1, <4>2, <4>3
            <4>4. CASE r.nudged /\ ~t.nudged
                <5>1. m >= 1
                    BY <1>2, <2>4
                <5>2. QED
                    BY <3>4, <4>1, <4>2, <4>4, <5>1
            <4>5. QED
                BY <4>2, <4>3, <4>4
        <3>7. Fine(m)
            BY <3>6 DEF r
        <3>8. QED
            BY <2>2, <3>7
    <2>9. QED
        BY <2>7, <2>8
<1>4. ~tr.nudged => Fine(n)
    BY <1>2, <1>3
<1>5. QED
    BY <1>1, <1>2, <1>4

-----------------------------------------------------------------------------
(* Types, and no end for repeating itself before the model was told *)

\* The types of TypeOK with the record of the turn; what is counted is counted
\* once for each turn that was recorded.
LoopTypes ==
    /\ task \in [steps : Nat, transient : Nat, logic : Nat]
    /\ task.transient <= task.steps /\ task.logic <= task.steps /\ task.steps <= turns
    /\ loop \in [forced : BOOLEAN, forceHalt : BOOLEAN, error : Errors, stag : Signals]
    /\ streak \in [Names -> Nat]
    /\ tracker \in Trackers
    /\ turn \in [calls : Seq(Names), outcome : Seq(Outcomes \cup {Pending})]
    /\ Len(turn.outcome) = Len(turn.calls)
    /\ late \in BOOLEAN /\ warned \in BOOLEAN
    /\ reason \in Reasons

\* A tracker that has nudged is one whose model was told, or one that ends the loop.
NudgesAreTold ==
    /\ reason = "LOOP_DETECTED" => at = "done"
    /\ loop.stag = "loop" => at \in {"decide", "done"}
    /\ at \in {"top", "model", "calls"} => (tracker.nudged => warned)
    /\ at = "decide" => (tracker.nudged => warned \/ loop.stag = "loop")
    /\ at = "decide" /\ loop.stag = "loop" /\ ~warned => Len(turn.calls) >= Grace + 2

WarnInv == CountInv /\ ErrorInv /\ LoopTypes /\ NudgesAreTold /\ LoopIsWarned

LEMMA WarnInit == Init => WarnInv
<1> SUFFICES ASSUME Init PROVE WarnInv
    OBVIOUS
<1>1. CountInv /\ ErrorInv
    BY CountInit, ErrorInit
<1>2. LoopTypes
    <2>1. turn \in [calls : Seq(Names), outcome : Seq(Outcomes \cup {Pending})]
          /\ Len(turn.outcome) = Len(turn.calls)
        BY DEF Init, NoTurn
    <2>2. tracker \in Trackers
        BY LoopAssumption DEF Init, Trackers, Signals
    <2>3. /\ loop \in [forced : BOOLEAN, forceHalt : BOOLEAN, error : Errors, stag : Signals]
          /\ reason \in Reasons
        BY DEF Init, Errors, Signals, Reasons
    <2>4. /\ task \in [steps : Nat, transient : Nat, logic : Nat]
          /\ task.transient <= task.steps /\ task.logic <= task.steps /\ task.steps <= turns
        <3>1. task = [steps |-> 0, transient |-> 0, logic |-> 0] /\ turns = 0
            BY DEF Init
        <3>2. QED
            BY <3>1
    <2>5. streak \in [Names -> Nat] /\ late \in BOOLEAN /\ warned \in BOOLEAN
        BY DEF Init
    <2>6. QED
        BY <2>1, <2>2, <2>3, <2>4, <2>5 DEF LoopTypes
<1>3. NudgesAreTold /\ LoopIsWarned
    BY DEF Init, NudgesAreTold, LoopIsWarned
<1>4. QED
    BY <1>1, <1>2, <1>3 DEF WarnInv

\* What Recorded counts.
LEMMA RecordedIsTyped ==
    ASSUME NEW t \in [steps : Nat, transient : Nat, logic : Nat], NEW e,
           t.transient <= t.steps, t.logic <= t.steps
    PROVE  /\ Recorded(t, e) \in [steps : Nat, transient : Nat, logic : Nat]
           /\ Recorded(t, e).transient <= Recorded(t, e).steps
           /\ Recorded(t, e).logic <= Recorded(t, e).steps
           /\ Recorded(t, e).steps = t.steps + 1
BY DEF Recorded

\* A call that returned leaves a typed outcome and a typed streak.
LEMMA ReturnedKeepsTypes ==
    ASSUME LoopTypes, NEW i \in DOMAIN turn.calls, NEW error \in Errors,
           NEW key \in {Unseen} \cup Keys, NEW payload \in BOOLEAN, NEW down \in BOOLEAN,
           Returns(i, error, key, payload, down)
    PROVE  LoopTypes' /\ turn.calls' = turn.calls
<1> DEFINE exhausted == error = "validation" /\ streak[turn.calls[i]] + 1 >= ValidationMax
           new == [ error |-> error, key |-> key, payload |-> payload,
                    exhausted |-> exhausted, down |-> down ]
<1>1. /\ turn' = [turn EXCEPT !.outcome[i] = new]
      /\ streak' = Counted(turn.calls[i], error)
      /\ UNCHANGED <<at, task, loop, tracker, late, reason, turns, warned>>
    BY DEF Returns
<1>2. new \in Outcomes
    BY DEF Outcomes, Keys
<1>3. streak' \in [Names -> Nat]
    <2>1. turn.calls[i] \in Names
        BY DEF LoopTypes
    <2>2. streak \in [Names -> Nat]
        BY DEF LoopTypes
    <2>3. QED
        BY <1>1, <2>1, <2>2 DEF Counted
<1> HIDE DEF new
<1>4. /\ turn.outcome' = [turn.outcome EXCEPT ![i] = new] /\ turn.calls' = turn.calls
      /\ turn' = [calls |-> turn.calls', outcome |-> turn.outcome']
    BY <1>1 DEF LoopTypes
<1>5. /\ turn.outcome \in Seq(Outcomes \cup {Pending}) /\ turn.calls \in Seq(Names)
      /\ Len(turn.outcome) = Len(turn.calls)
    BY DEF LoopTypes
<1>6. /\ turn.outcome' \in Seq(Outcomes \cup {Pending})
      /\ Len(turn.outcome') = Len(turn.calls)
    BY <1>2, <1>4, <1>5
<1>7. turn' \in [calls : Seq(Names), outcome : Seq(Outcomes \cup {Pending})]
    BY <1>4, <1>5, <1>6
<1>8. QED
    BY <1>1, <1>3, <1>4, <1>6, <1>7 DEF LoopTypes

LEMMA WarnStep == WarnInv /\ [Next]_vars => WarnInv'
<1> SUFFICES ASSUME WarnInv, [Next]_vars PROVE WarnInv'
    OBVIOUS
<1>0. CountInv' /\ ErrorInv'
    BY CountStep, ErrorStep DEF WarnInv
<1>a. CountsAreTyped /\ TurnsAreRecorded /\ LoopTypes /\ NudgesAreTold /\ LoopIsWarned
    BY DEF WarnInv, CountInv
<1> DEFINE Holds == LoopTypes /\ NudgesAreTold /\ LoopIsWarned
<1> SUFFICES Holds'
    BY <1>0 DEF WarnInv
<1>b. ASSUME UNCHANGED <<tracker, turn, late, warned, streak>>,
             task' \in [steps : Nat, transient : Nat, logic : Nat],
             task.transient' <= task.steps', task.logic' <= task.steps', task.steps' <= turns',
             loop' \in [forced : BOOLEAN, forceHalt : BOOLEAN, error : Errors, stag : Signals],
             reason' \in Reasons
      PROVE  LoopTypes'
    BY <1>a, <1>b DEF LoopTypes
<1>1. CASE StartTurn
    <2>1. turn' \in [calls : Seq(Names), outcome : Seq(Outcomes \cup {Pending})]
          /\ Len(turn.outcome') = Len(turn.calls')
        BY <1>1 DEF StartTurn, NoTurn
    <2>2. LoopTypes'
        BY <1>a, <1>1, <2>1 DEF LoopTypes, StartTurn, CountsAreTyped
    <2>3. QED
        BY <1>a, <1>1, <2>2 DEF StartTurn, NudgesAreTold, LoopIsWarned, CountsAreTyped
<1>2. ASSUME NEW e \in GatewayErrors, ModelFails(e) PROVE Holds'
    <2>1. LoopTypes'
        BY SMTT(40), <1>a, <1>b, <1>2, RecordedIsTyped
        DEF ModelFails, End, ToDecide, LoopTypes, TurnsAreRecorded, GatewayErrors, Reasons
    <2>2. QED
        BY <1>a, <1>2, <2>1 DEF ModelFails, End, ToDecide, NudgesAreTold, LoopIsWarned, LoopTypes
<1>3. CASE ModelTalks
    <2>1. loop' \in [forced : BOOLEAN, forceHalt : BOOLEAN, error : Errors, stag : Signals]
        BY <1>a, <1>3 DEF ModelTalks, LoopTypes, Errors
    <2>2. reason' \in Reasons
        BY <1>a, <1>3 DEF ModelTalks, End, ToDecide, LoopTypes, Reasons
    <2>3. LoopTypes'
        <3>1. task.steps < turns /\ turns \in Nat /\ task.steps \in Nat
            BY <1>a, <1>3 DEF ModelTalks, TurnsAreRecorded, CountsAreTyped
        <3>2. /\ task' \in [steps : Nat, transient : Nat, logic : Nat]
              /\ task.transient' <= task.steps' /\ task.logic' <= task.steps'
              /\ task.steps' = task.steps + 1
            BY <1>a, <1>3, RecordedIsTyped DEF ModelTalks, LoopTypes
        <3>3. UNCHANGED <<tracker, turn, late, warned, streak, turns>>
            BY <1>3 DEF ModelTalks
        <3>4. QED
            BY <1>b, <2>1, <2>2, <3>1, <3>2, <3>3
    <2>4. QED
        BY <1>a, <1>3, <2>3 DEF ModelTalks, End, ToDecide, NudgesAreTold, LoopIsWarned, LoopTypes
<1>4. ASSUME NEW n \in 1 .. MaxCalls, NEW names \in [1 .. n -> Names], ModelCalls(names)
      PROVE  Holds'
    <2>1. n \in Nat
        BY LoopAssumption
    <2>2. /\ names \in Seq(Names) /\ Len(names) = n
          /\ [i \in DOMAIN names |-> Pending] \in Seq(Outcomes \cup {Pending})
          /\ Len([i \in DOMAIN names |-> Pending]) = n
        BY <2>1
    <2>3. turn' \in [calls : Seq(Names), outcome : Seq(Outcomes \cup {Pending})]
          /\ Len(turn.outcome') = Len(turn.calls')
        BY <1>4, <2>2 DEF ModelCalls
    <2>4. LoopTypes'
        BY <1>a, <1>4, <2>3 DEF LoopTypes, ModelCalls
    <2>5. QED
        BY <1>a, <1>4, <2>4 DEF ModelCalls, NudgesAreTold, LoopIsWarned
<1>5. ASSUME NEW i \in DOMAIN turn.calls, CallStep(i) PROVE Holds'
    <2>1. turn.calls[i] \in Names
        BY <1>a DEF LoopTypes
    <2>2. at = "calls" /\ LoopTypes' /\ UNCHANGED <<at, loop, tracker, reason, warned>>
        <3>1. CASE CallIsMalformed(i)
            BY <1>a, <3>1, ReturnedKeepsTypes DEF CallIsMalformed, Errors, Returns
        <3>2. ASSUME NEW error \in ToolErrors, NEW v \in Variants, NEW down \in BOOLEAN,
                     ToolReturns(i, error, v, down)
              PROVE  at = "calls" /\ LoopTypes' /\ UNCHANGED <<at, loop, tracker, reason, warned>>
            <4>1. error \in Errors
                BY LoopAssumption
            <4>2. <<turn.calls[i], error, v>> \in Keys
                BY <2>1, <4>1 DEF Keys
            <4>3. QED
                BY <1>a, <3>2, <4>1, <4>2, ReturnedKeepsTypes DEF ToolReturns, Returns
        <3>3. CASE SubmitAccepted(i)
            BY <1>a, <3>3, ReturnedKeepsTypes DEF SubmitAccepted, Errors, Returns
        <3>4. ASSUME NEW v \in Variants, SubmitRejected(i, v)
              PROVE  at = "calls" /\ LoopTypes' /\ UNCHANGED <<at, loop, tracker, reason, warned>>
            <4>1. "validation" \in Errors
                BY DEF Errors
            <4>2. <<turn.calls[i], "validation", v>> \in Keys
                BY <2>1, <4>1 DEF Keys
            <4>3. QED
                BY <1>a, <3>4, <4>1, <4>2, ReturnedKeepsTypes DEF SubmitRejected, Returns
        <3>5. QED
            BY <1>5, <3>1, <3>2, <3>3, <3>4 DEF CallStep
    <2>3. QED
        BY <1>a, <2>2 DEF NudgesAreTold, LoopIsWarned, LoopTypes
<1>6. CASE TurnEnds
    <2> DEFINE observed == ObservedTurn(tracker, turn.outcome)
    <2>1. turn.outcome \in Seq(Outcomes)
        <3>1. turn.outcome \in Seq(Outcomes \cup {Pending})
            BY <1>a DEF LoopTypes
        <3>2. \A i \in DOMAIN turn.outcome : turn.outcome[i] \in Outcomes
            BY <1>6, <3>1 DEF TurnEnds
        <3>3. QED
            BY <3>1, <3>2
    <2>2. tracker \in Trackers
        BY <1>a DEF LoopTypes
    <2>3. /\ observed \in Trackers
          /\ ~tracker.nudged /\ observed.signal = "loop" => Len(turn.outcome) >= Grace + 2
          /\ ~tracker.nudged /\ observed.nudged => observed.signal # "none"
        BY <2>1, <2>2, TurnIsObserved
    <2> HIDE DEF observed
    <2>4. /\ at = "calls"
          /\ tracker' = observed
          /\ task' = Recorded(task, ErrorOfTurn(turn.outcome))
          /\ loop' = [loop EXCEPT !.error = ErrorOfTurn(turn.outcome), !.stag = observed.signal,
                                  !.forceHalt = loop.forceHalt']
          /\ loop.forceHalt' \in BOOLEAN
          /\ warned' = (warned \/ observed.signal = "repeat")
          /\ UNCHANGED <<turn, late, turns>>
        BY <1>a, <1>6 DEF TurnEnds, observed, LoopTypes
    <2>5. \/ /\ at' = "done"
             /\ reason' \in {"sandbox_unreachable", "validation_takeover", "validation_exhausted", "submit"}
          \/ at' = "decide" /\ reason' = reason
        BY <1>6 DEF TurnEnds, End, ToDecide
    <2>6. streak' \in [Names -> Nat]
        <3>1. streak \in [Names -> Nat]
            BY <1>a DEF LoopTypes
        <3>2. streak' = streak \/ streak' = [streak EXCEPT ![FirstExhausted(turn.outcome)] = 0]
            BY <1>6 DEF TurnEnds
        <3>3. QED
            BY <3>1, <3>2
    <2>7. ErrorOfTurn(turn.outcome) \in Errors
        <3>1. DOMAIN turn.outcome # {}
            BY <1>6 DEF TurnEnds, WarnInv, ErrorInv, WorstIsKnown
        <3>2. \A j \in DOMAIN turn.outcome : turn.outcome[j].error \in Errors
            <4>1. \A o \in Outcomes : o.error \in Errors
                BY DEF Outcomes
            <4>2. \A j \in DOMAIN turn.outcome : turn.outcome[j] \in Outcomes
                BY <2>1
            <4>3. QED
                BY <4>1, <4>2
        <3>3. QED
            BY <3>1, <3>2, ErrorOfTurnIsWorst
    <2>8. LoopTypes'
        <3>1. reason' \in Reasons
            BY <1>a, <2>5 DEF LoopTypes, Reasons
        <3>2. observed.signal \in Signals
            BY <2>3 DEF Trackers
        <3>3. loop' \in [forced : BOOLEAN, forceHalt : BOOLEAN, error : Errors, stag : Signals]
            BY <1>a, <2>4, <2>7, <3>2 DEF LoopTypes
        <3>4. task.steps < turns /\ turns \in Nat /\ task.steps \in Nat
            BY <1>a, <2>4 DEF TurnsAreRecorded, CountsAreTyped
        <3>5. /\ task' \in [steps : Nat, transient : Nat, logic : Nat]
              /\ task.transient' <= task.steps' /\ task.logic' <= task.steps'
              /\ task.steps' = task.steps + 1
            BY <1>a, <2>4, RecordedIsTyped DEF LoopTypes
        <3>6. task.steps' <= turns'
            BY <2>4, <3>4, <3>5
        <3>7. QED
            BY <1>a, <2>3, <2>4, <2>6, <3>1, <3>3, <3>5, <3>6 DEF LoopTypes
    <2>9. loop.stag' = observed.signal
        BY <1>a, <2>4 DEF LoopTypes
    <2>10. Len(turn.calls') = Len(turn.outcome) /\ warned \in BOOLEAN
        BY <1>a, <2>4 DEF LoopTypes
    <2>11. tracker.nudged => warned
        BY <1>a, <2>4 DEF NudgesAreTold
    <2>12. observed.signal \in {"none", "repeat", "loop"} /\ observed.nudged \in BOOLEAN
        BY <2>3 DEF Trackers, Signals
    <2>13. NudgesAreTold'
        BY <1>a, <2>3, <2>4, <2>5, <2>9, <2>10, <2>11, <2>12 DEF NudgesAreTold
    <2>14. LoopIsWarned'
        BY <1>a, <2>4, <2>5 DEF LoopIsWarned, NudgesAreTold
    <2>15. QED
        BY <2>8, <2>13, <2>14
<1>7. CASE TurnTimesOut
    <2>1. LoopTypes'
        BY <1>a, <1>b, <1>7 DEF TurnTimesOut, End, LoopTypes, Reasons
    <2>2. QED
        BY <1>a, <1>7, <2>1 DEF TurnTimesOut, End, NudgesAreTold, LoopIsWarned, LoopTypes
<1>8. CASE DecideStops
    <2>1. StopReason \in Reasons
        BY <1>a DEF StopReason, Reasons, LoopTypes, Errors
    <2>2. LoopTypes'
        BY <1>a, <1>b, <1>8, <2>1 DEF DecideStops, End, LoopTypes
    <2>3. StopReason = "LOOP_DETECTED" => loop.stag = "loop"
        BY DEF StopReason
    <2>4. QED
        BY <1>a, <1>8, <2>2, <2>3 DEF DecideStops, End, NudgesAreTold, LoopIsWarned, LoopTypes
<1>9. CASE DecideStopsOnLogic
    <2>1. LoopTypes'
        BY <1>a, <1>b, <1>9 DEF DecideStopsOnLogic, End, LoopTypes, Reasons
    <2>2. QED
        BY <1>a, <1>9, <2>1 DEF DecideStopsOnLogic, End, NudgesAreTold, LoopIsWarned, LoopTypes
<1>10. CASE DecideForces
    <2>1. LoopTypes'
        BY <1>a, <1>b, <1>10 DEF DecideForces, End, LoopTypes, Reasons
    <2>2. loop.stag # "loop" /\ loop.stag' = loop.stag
        BY <1>a, <1>10 DEF DecideForces, StopReason, LoopTypes
    <2>3. QED
        BY <1>a, <1>10, <2>1, <2>2 DEF DecideForces, End, NudgesAreTold, LoopIsWarned, LoopTypes
<1>11. CASE DecideNudges \/ DecideContinues
    <2>1. /\ at = "decide" /\ at' = "top" /\ loop.stag # "loop" /\ loop.stag' \in {"none", loop.stag}
          /\ UNCHANGED <<task, streak, tracker, turn, late, reason, turns, warned>>
          /\ loop' \in [forced : BOOLEAN, forceHalt : BOOLEAN, error : Errors, stag : Signals]
        BY <1>a, <1>11 DEF DecideNudges, DecideContinues, Free, StopReason, LoopTypes, Signals
    <2>2. LoopTypes'
        BY <1>a, <1>b, <2>1 DEF LoopTypes
    <2>3. QED
        BY <1>a, <2>1, <2>2 DEF NudgesAreTold, LoopIsWarned, LoopTypes
<1>12. CASE TimePasses \/ UNCHANGED vars
    <2>1. late' \in BOOLEAN /\ UNCHANGED <<at, task, loop, streak, tracker, turn, reason, turns, warned>>
        BY <1>a, <1>12 DEF TimePasses, vars, LoopTypes
    <2>2. LoopTypes'
        BY <1>a, <2>1 DEF LoopTypes
    <2>3. QED
        BY <1>a, <2>1, <2>2 DEF NudgesAreTold, LoopIsWarned
<1>13. QED
    BY <1>1, <1>2, <1>3, <1>4, <1>5, <1>6, <1>7, <1>8, <1>9, <1>10, <1>11, <1>12 DEF Next, LoopStep

\* Every variable keeps its type.
THEOREM LoopTypesHold == Spec => []TypeOK
<1>1. WarnInv => TypeOK
    <2>1. ASSUME WarnInv PROVE turns <= Budget + 1 /\ turns \in Nat /\ at \in {"top", "model", "calls", "decide", "done"}
        BY <2>1, LoopAssumption DEF WarnInv, CountInv, CountsAreTyped, TurnsAreRecorded
    <2>2. ASSUME WarnInv PROVE LoopTypes
        BY <2>2 DEF WarnInv
    <2>3. QED
        BY SMTT(40), <2>1, <2>2, LoopAssumption DEF TypeOK, LoopTypes, Trackers, Keys
<1>2. QED
    BY <1>1, WarnInit, WarnStep, PTL DEF Spec

\* A loop is stopped for repeating itself only after it was told to stop doing
\* so, unless one turn holds the whole window; for every threshold, grace and
\* length of the window.
THEOREM LoopsAreWarned == Spec => []LoopIsWarned
<1>1. WarnInv => LoopIsWarned
    BY DEF WarnInv
<1>2. QED
    BY <1>1, WarnInit, WarnStep, PTL DEF Spec
=============================================================================
