------------------------ MODULE WaveOnGateway_proofs ------------------------
(***************************************************************************)
(* Proofs about a wave of workers and the gateway they share: about module *)
(* Gateway for every number of callers, permits and failures, about        *)
(* run_wave (module Scheduler) for every set of workers and every number   *)
(* of permits, and that a wave on the gateway is both.                     *)
(*                                                                         *)
(* The inductive invariant WaveInv of a wave ties the semaphore to the     *)
(* tasks inside it, the committed briefs to the tasks that wrote them, and *)
(* the place of run_wave to what its tasks can still do.                   *)
(***************************************************************************)
EXTENDS WaveOnGateway, FiniteSetTheorems, TLAPS

-----------------------------------------------------------------------------
(* The gateway *)

Going == {"away", "top", "summary", "assembled", "turn"}
Ended == {"submitted", "over", "gone"}

\* A loop that may still turn is in its budget.
GatewayTypes ==
    /\ loop \in [Callers -> [at : LoopPlaces, steps : 0 .. (Budget + 1)]]
    /\ \A c \in Callers : loop[c].at \in Going => loop[c].steps <= Budget
    /\ fails \in Nat /\ row \in Nat /\ row <= fails
    /\ free \in Nat

LEMMA TypesInit == GatewayInit => GatewayTypes
BY GatewayAssumption DEF GatewayInit, GatewayTypes, Away, LoopPlaces, InRequest

\* An answer leaves the count of failures at least as long as the row of them.
LEMMA AnsweredTypes ==
    ASSUME GatewayTypes, NEW answer \in Answers, Answered(answer)
    PROVE  /\ fails' \in Nat /\ row' \in Nat /\ row' <= fails' /\ free' \in Nat
           /\ answer # "transient" => row' = 0
           /\ answer = "transient" => row' = row + 1 /\ fails' = fails + 1
BY DEF GatewayTypes, Answered, Counted, Answers

LEMMA TypesStep == GatewayTypes /\ [GatewayNext]_gatewayVars => GatewayTypes'
<1> SUFFICES ASSUME GatewayTypes, [GatewayNext]_gatewayVars PROVE GatewayTypes'
    OBVIOUS
<1> USE GatewayAssumption
<1>1. ASSUME NEW c \in Callers, Begins(c) PROVE GatewayTypes'
    BY <1>1 DEF GatewayTypes, Begins, Away, LoopPlaces, Going
<1>2. ASSUME NEW c \in Callers, AsksForSummary(c) \/ AsksForTurn(c) PROVE GatewayTypes'
    BY <1>2 DEF GatewayTypes, AsksForSummary, AsksForTurn, Asks, LoopPlaces, InRequest, Going
<1>3. ASSUME NEW c \in Callers, NEW answer \in Answers, SummaryEnds(c, answer)
      PROVE  GatewayTypes'
    <2>1. /\ fails' \in Nat /\ row' \in Nat /\ row' <= fails' /\ free' \in Nat
        BY <1>3, AnsweredTypes DEF SummaryEnds
    <2>2. QED
        BY <1>3, <2>1 DEF GatewayTypes, SummaryEnds, LoopPlaces, Going
<1>4. ASSUME NEW c \in Callers, NEW answer \in Answers, NEW place \in LoopPlaces,
             TurnEnds(c, answer, place)
      PROVE  GatewayTypes'
    <2>1. /\ fails' \in Nat /\ row' \in Nat /\ row' <= fails' /\ free' \in Nat
        BY <1>4, AnsweredTypes DEF TurnEnds
    <2>2. /\ loop[c].steps \in 0 .. Budget
          /\ place \in {"top", "submitted", "over"}
          /\ loop[c].steps + 1 > Budget => place # "top"
        BY <1>4 DEF TurnEnds, After, GatewayTypes, Going
    <2>3. loop' = [loop EXCEPT ![c] = [at |-> place, steps |-> loop[c].steps + 1]]
        BY <1>4 DEF TurnEnds
    <2>4. [at |-> place, steps |-> loop[c].steps + 1]
              \in [at : LoopPlaces, steps : 0 .. (Budget + 1)]
        BY <2>2
    <2>5. QED
        BY <2>1, <2>2, <2>3, <2>4 DEF GatewayTypes, Going
<1>5. ASSUME NEW c \in Callers, TimesOut(c) PROVE GatewayTypes'
    BY <1>5 DEF GatewayTypes, TimesOut, Leaves, LoopPlaces, Going
<1>6. ASSUME NEW c \in Callers, Dropped(c) PROVE GatewayTypes'
    BY <1>6 DEF GatewayTypes, Dropped, Leaves, Gone, LoopPlaces, Going
<1>7. CASE UNCHANGED gatewayVars
    BY <1>7 DEF GatewayTypes, gatewayVars
<1>8. QED
    BY <1>1, <1>2, <1>3, <1>4, <1>5, <1>6, <1>7 DEF GatewayNext, CallerStep

-----------------------------------------------------------------------------
(* The breaker *)

\* The loops that made their last request, and those that got their summary,
\* or will get none any more.
Finished == {c \in Callers : loop[c].at \in Ended}
Summarized == {c \in Callers : loop[c].at \in Ended \cup {"assembled", "turn"}}

WasteInv ==
    /\ GatewayTypes
    /\ row < BreakerMax + Cardinality(Finished) + Cardinality(Summarized)

LEMMA SetsOfCallers ==
    ASSUME NEW S \in SUBSET Callers, NEW T \in SUBSET Callers
    PROVE  /\ Cardinality(S) \in Nat /\ Cardinality(T) \in Nat
           /\ Cardinality(S) <= Cardinality(Callers)
           /\ S \subseteq T => Cardinality(S) <= Cardinality(T)
           /\ S \subseteq T /\ S # T => Cardinality(S) < Cardinality(T)
<1>1. IsFiniteSet(Callers) /\ IsFiniteSet(S) /\ IsFiniteSet(T)
    BY GatewayAssumption, FS_Subset
<1>2. Cardinality(S) \in Nat /\ Cardinality(T) \in Nat /\ Cardinality(Callers) \in Nat
    BY <1>1, FS_CardinalityType
<1>3. QED
    BY <1>1, <1>2, FS_Subset

LEMMA WasteInit == GatewayInit => WasteInv
<1> SUFFICES ASSUME GatewayInit PROVE WasteInv
    OBVIOUS
<1>1. Finished \in SUBSET Callers /\ Summarized \in SUBSET Callers
    BY DEF Finished, Summarized
<1>2. Cardinality(Finished) \in Nat /\ Cardinality(Summarized) \in Nat
    BY <1>1, SetsOfCallers
<1>3. QED
    BY <1>2, TypesInit, GatewayAssumption DEF WasteInv, GatewayInit

\* A step that wastes no request, or starts the row again, or one that wastes a
\* request of a loop that had not wasted it before.
LEMMA WasteKept ==
    ASSUME WasteInv, GatewayTypes',
           \/ row' < BreakerMax
           \/ /\ Finished \subseteq Finished' /\ Summarized \subseteq Summarized'
              /\ \/ row' = row
                 \/ row' = row + 1 /\ (Finished # Finished' \/ Summarized # Summarized')
    PROVE  WasteInv'
<1> DEFINE F == Cardinality(Finished)   G == Cardinality(Finished')
           S == Cardinality(Summarized) T == Cardinality(Summarized')
<1>1. /\ Finished \in SUBSET Callers /\ Finished' \in SUBSET Callers
      /\ Summarized \in SUBSET Callers /\ Summarized' \in SUBSET Callers
    BY DEF Finished, Summarized
<1>2. /\ F \in Nat /\ G \in Nat /\ S \in Nat /\ T \in Nat
      /\ Finished \subseteq Finished' => F <= G
      /\ Summarized \subseteq Summarized' => S <= T
      /\ Finished \subseteq Finished' /\ Finished # Finished' => F < G
      /\ Summarized \subseteq Summarized' /\ Summarized # Summarized' => S < T
    BY <1>1, SetsOfCallers
<1>3. row \in Nat /\ row' \in Nat /\ BreakerMax \in Nat /\ row < BreakerMax + F + S
    BY GatewayAssumption DEF WasteInv, GatewayTypes
<1> HIDE DEF F, G, S, T
<1>4. row' < BreakerMax + G + T
    BY <1>2, <1>3
<1>5. QED
    BY <1>4 DEF WasteInv, G, T

LEMMA WasteStep == WasteInv /\ [GatewayNext]_gatewayVars => WasteInv'
<1> SUFFICES ASSUME WasteInv, [GatewayNext]_gatewayVars PROVE WasteInv'
    OBVIOUS
<1>1. GatewayTypes /\ GatewayTypes'
    BY TypesStep DEF WasteInv
<1> USE <1>1, GatewayAssumption DEF Finished, Summarized, Ended
<1>2. ASSUME NEW c \in Callers,
             Begins(c) \/ AsksForSummary(c) \/ AsksForTurn(c) \/ TimesOut(c) \/ Dropped(c)
      PROVE  WasteInv'
    <2>1. /\ row' = row
          /\ \A d \in Callers : d # c => loop'[d] = loop[d]
        BY <1>2 DEF Begins, AsksForSummary, AsksForTurn, Asks, TimesOut, Dropped, Leaves,
                    GatewayTypes
    <2>2. \/ loop[c].at \in {"away", "top"} /\ loop'[c].at \in {"top", "summary", "turn"}
          \/ loop[c].at = "assembled" /\ loop'[c].at = "turn"
          \/ loop'[c].at \in {"over", "gone"}
        BY <1>2 DEF Begins, AsksForSummary, AsksForTurn, Asks, TimesOut, Dropped, Away, Gone,
                    GatewayTypes
    <2>3. Finished \subseteq Finished' /\ Summarized \subseteq Summarized'
        BY <2>1, <2>2
    <2>4. QED
        BY <2>1, <2>3, WasteKept
<1>3. ASSUME NEW c \in Callers, NEW answer \in Answers, SummaryEnds(c, answer)
      PROVE  WasteInv'
    <2>1. /\ answer # "transient" => row' = 0
          /\ answer = "transient" => row' = row + 1
        BY <1>3, AnsweredTypes DEF SummaryEnds
    <2>2. /\ loop[c].at = "summary" /\ loop'[c].at = "assembled"
          /\ \A d \in Callers : d # c => loop'[d] = loop[d]
        BY <1>3 DEF SummaryEnds, GatewayTypes
    <2>3. /\ Finished \subseteq Finished' /\ Summarized \subseteq Summarized'
          /\ c \notin Summarized /\ c \in Summarized'
        BY <2>2
    <2>4. QED
        BY <2>1, <2>3, WasteKept
<1>4. ASSUME NEW c \in Callers, NEW answer \in Answers, NEW place \in LoopPlaces,
             TurnEnds(c, answer, place)
      PROVE  WasteInv'
    <2>1. /\ answer # "transient" => row' = 0
          /\ answer = "transient" => row' = row + 1 /\ fails' = fails + 1
          /\ fails' \in Nat /\ row' \in Nat /\ row' <= fails'
        BY <1>4, AnsweredTypes DEF TurnEnds
    <2>2. CASE answer # "transient" \/ fails' < BreakerMax
        BY <2>1, <2>2, WasteKept
    <2>3. CASE answer = "transient" /\ ~(fails' < BreakerMax)
        <3>1. Escalated(fails', answer) = "fatal"
            BY <2>1, <2>3 DEF Escalated
        <3>2. /\ loop[c].at = "turn" /\ loop'[c].at = "over"
              /\ \A d \in Callers : d # c => loop'[d] = loop[d]
            BY <1>4, <3>1 DEF TurnEnds, After, GatewayTypes
        <3>3. /\ Finished \subseteq Finished' /\ Summarized \subseteq Summarized'
              /\ c \notin Finished /\ c \in Finished'
            BY <3>2
        <3>4. QED
            BY <2>1, <2>3, <3>3, WasteKept
    <2>4. QED
        BY <2>2, <2>3
<1>5. CASE UNCHANGED gatewayVars
    BY <1>5, WasteKept DEF gatewayVars
<1>6. QED
    BY <1>2, <1>3, <1>4, <1>5 DEF GatewayNext, CallerStep

\* When the gateway is down, the loops do not spend their budgets on it: once the
\* breaker is full, each loop makes one more request for its summary and one for
\* its turn.
THEOREM BreakerEndsTheLoops == GatewaySpec => []DeadGatewayIsLeft
<1>1. WasteInv => DeadGatewayIsLeft
    <2> SUFFICES ASSUME WasteInv PROVE DeadGatewayIsLeft
        OBVIOUS
    <2>1. Finished \in SUBSET Callers /\ Summarized \in SUBSET Callers
        BY DEF Finished, Summarized
    <2>2. /\ Cardinality(Finished) <= Cardinality(Callers)
          /\ Cardinality(Summarized) <= Cardinality(Callers)
          /\ Cardinality(Finished) \in Nat /\ Cardinality(Summarized) \in Nat
          /\ Cardinality(Callers) \in Nat
        BY <2>1, SetsOfCallers
    <2>3. QED
        BY <2>2, GatewayAssumption DEF WasteInv, GatewayTypes, DeadGatewayIsLeft
<1>2. QED
    BY <1>1, WasteInit, WasteStep, PTL DEF GatewaySpec

-----------------------------------------------------------------------------
(* The semaphore *)

InFlight == {c \in Callers : loop[c].at \in InRequest}

PermitInv == GatewayTypes /\ free + Cardinality(InFlight) = Requests

LEMMA AddedCaller ==
    ASSUME NEW S \in SUBSET Callers, NEW c \in Callers, c \notin S
    PROVE  /\ Cardinality(S) \in Nat
           /\ Cardinality(S \cup {c}) = Cardinality(S) + 1
<1>1. IsFiniteSet(S)
    BY GatewayAssumption, FS_Subset
<1>2. QED
    BY <1>1, FS_AddElement, FS_CardinalityType

LEMMA PermitInit == GatewayInit => PermitInv
<1> SUFFICES ASSUME GatewayInit PROVE PermitInv
    OBVIOUS
<1>1. InFlight = {}
    BY DEF InFlight, GatewayInit, Away, InRequest
<1>2. Cardinality(InFlight) = 0
    BY <1>1, FS_EmptySet
<1>3. QED
    BY <1>2, TypesInit, GatewayAssumption DEF PermitInv, GatewayInit

\* A loop takes a permit when it enters a request, returns one when it leaves it,
\* and otherwise leaves the permits alone.
LEMMA PermitKept ==
    ASSUME PermitInv, GatewayTypes', NEW c \in Callers,
           \A d \in Callers : d # c => loop'[d] = loop[d],
           LET before == loop[c].at \in InRequest
               after == loop'[c].at \in InRequest
           IN  free' = IF before = after THEN free ELSE IF after THEN free - 1 ELSE free + 1
    PROVE  PermitInv'
<1> DEFINE F == InFlight  G == InFlight'
<1>1. F \in SUBSET Callers /\ G \in SUBSET Callers
    BY DEF InFlight
<1>2. /\ c \in F <=> loop[c].at \in InRequest
      /\ c \in G <=> loop'[c].at \in InRequest
      /\ \A d \in Callers : d # c => (d \in F <=> d \in G)
    BY DEF InFlight
<1>3. free \in Nat /\ free' \in Nat /\ free + Cardinality(F) = Requests /\ Requests \in Nat
    BY GatewayAssumption DEF PermitInv, GatewayTypes
<1>4. CASE (c \in F) = (c \in G)
    <2>1. F = G
        BY <1>1, <1>2, <1>4
    <2>2. free' = free
        BY <1>2, <1>4
    <2>3. QED
        BY <1>3, <2>1, <2>2 DEF PermitInv
<1>5. CASE c \notin F /\ c \in G
    <2>1. G = F \cup {c}
        BY <1>1, <1>2, <1>5
    <2>2. free' = free - 1
        BY <1>2, <1>5
    <2>3. Cardinality(G) = Cardinality(F) + 1 /\ Cardinality(F) \in Nat
        BY <1>1, <1>5, <2>1, AddedCaller
    <2>4. free' + Cardinality(G) = Requests
        BY <1>3, <2>2, <2>3
    <2>5. QED
        BY <2>4 DEF PermitInv
<1>6. CASE c \in F /\ c \notin G
    <2>1. F = G \cup {c}
        BY <1>1, <1>2, <1>6
    <2>2. free' = free + 1
        BY <1>2, <1>6
    <2>3. Cardinality(F) = Cardinality(G) + 1 /\ Cardinality(G) \in Nat
        BY <1>1, <1>6, <2>1, AddedCaller
    <2>4. free' + Cardinality(G) = Requests
        BY <1>3, <2>2, <2>3
    <2>5. QED
        BY <2>4 DEF PermitInv
<1>7. QED
    BY <1>4, <1>5, <1>6

LEMMA PermitStep == PermitInv /\ [GatewayNext]_gatewayVars => PermitInv'
<1> SUFFICES ASSUME PermitInv, [GatewayNext]_gatewayVars PROVE PermitInv'
    OBVIOUS
<1>1. GatewayTypes /\ GatewayTypes'
    BY TypesStep DEF PermitInv
<1>2. ASSUME NEW c \in Callers, Begins(c) \/ AsksForSummary(c) \/ AsksForTurn(c)
      PROVE  PermitInv'
    <2>1. \A d \in Callers : d # c => loop'[d] = loop[d]
        BY <1>1, <1>2 DEF Begins, AsksForSummary, AsksForTurn, Asks, GatewayTypes
    <2>2. /\ loop[c].at \notin InRequest
          /\ loop'[c].at \in {"top", "summary", "turn"}
          /\ free' = IF loop'[c].at \in InRequest THEN free - 1 ELSE free
        BY <1>1, <1>2 DEF Begins, AsksForSummary, AsksForTurn, Asks, Away, InRequest,
                          GatewayTypes
    <2>3. QED
        BY <1>1, <2>1, <2>2, PermitKept
<1>3. ASSUME NEW c \in Callers, NEW answer \in Answers,
             \/ SummaryEnds(c, answer)
             \/ \E place \in LoopPlaces : TurnEnds(c, answer, place)
      PROVE  PermitInv'
    <2>1. \A d \in Callers : d # c => loop'[d] = loop[d]
        BY <1>1, <1>3 DEF SummaryEnds, TurnEnds, GatewayTypes
    <2>2. /\ loop[c].at \in InRequest /\ loop'[c].at \notin InRequest
          /\ free' = free + 1
        BY <1>1, <1>3 DEF SummaryEnds, TurnEnds, After, Answered, InRequest,
                          GatewayTypes
    <2>3. QED
        BY <1>1, <2>1, <2>2, PermitKept
<1>4. ASSUME NEW c \in Callers, TimesOut(c) \/ Dropped(c)
      PROVE  PermitInv'
    <2>1. \A d \in Callers : d # c => loop'[d] = loop[d]
        BY <1>1, <1>4 DEF TimesOut, Dropped, Leaves, GatewayTypes
    <2>2. /\ loop'[c].at \notin InRequest
          /\ free' = IF loop[c].at \in InRequest THEN free + 1 ELSE free
        BY <1>1, <1>4 DEF TimesOut, Dropped, Leaves, Gone, InRequest, GatewayTypes
    <2>3. QED
        BY <1>1, <2>1, <2>2, PermitKept
<1>5. CASE UNCHANGED gatewayVars
    BY <1>5 DEF gatewayVars, PermitInv, GatewayTypes, InFlight
<1>6. QED
    BY <1>2, <1>3, <1>4, <1>5 DEF GatewayNext, CallerStep

\* Every variable keeps its type; a permit is out for every request in flight and
\* no other, whatever ended the request.
THEOREM PermitsAreCounted == GatewaySpec => []GatewayTypeOK
<1>1. PermitInv => GatewayTypeOK
    <2> SUFFICES ASSUME PermitInv PROVE GatewayTypeOK
        OBVIOUS
    <2>1. InFlight \in SUBSET Callers
        BY DEF InFlight
    <2>2. Cardinality(InFlight) \in Nat
        BY <2>1, SetsOfCallers
    <2>3. QED
        BY <2>2, GatewayAssumption DEF PermitInv, GatewayTypes, GatewayTypeOK, InFlight
<1>2. QED
    BY <1>1, PermitInit, PermitStep, PTL DEF GatewaySpec

-----------------------------------------------------------------------------
(* The wave *)

Holders == {w \in Workers : task[w] \in Holding}

\* The types, without the bounds of the semaphore, which need SemaphoreInv.
LooseTypes ==
    /\ task \in [Workers -> Places]
    /\ result \in [Workers -> WorkerBriefs \cup {NoBrief}]
    /\ cancelled \in SUBSET Workers
    /\ value \in Int
    /\ briefs \in [Workers -> WorkerBriefs \cup {NoBrief, Blocked}]
    /\ main \in {"waiting", "joining", "filling"} \cup Exits
    /\ error \in {"none", "commit_failed", "cancelled"}
    /\ stop \in BOOLEAN

\* Every permit is free or held by one task.
SemaphoreInv == value >= 0 /\ value + Cardinality(Holders) = Permits

\* What the tasks have committed while run_wave waits or joins.
TaskInv ==
    /\ \A w \in Workers : task[w] = "ready" => result[w] \in WorkerBriefs
    /\ \A w \in Workers : task[w] = "committed" => briefs[w] # NoBrief
    /\ main \in {"waiting", "joining"} =>
         \A w \in Workers : /\ briefs[w] # Blocked
                            /\ task[w] \notin Over => briefs[w] = NoBrief

\* From the finally block on, no task can commit; from the end of gather on
\* there is no task left.
MainInv ==
    /\ main = "waiting" =>
         error = "none" /\ cancelled = {} /\ \A w \in Workers : task[w] # "gone"
    /\ main = "joining" => \A w \in Workers : task[w] \in Over \/ w \in cancelled
    /\ main \in {"filling"} \cup Exits => AllOver
    /\ main \in {"joining", "filling"} /\ error = "none" => CalledOff \/ Complete
    /\ main \in {"filling", "returned"} => error = "none"
    /\ main = "returned" => Complete
    /\ (\E w \in Workers : briefs[w] = Blocked) => CalledOff

WaveInv == LooseTypes /\ SemaphoreInv /\ TaskInv /\ MainInv

-----------------------------------------------------------------------------
(* The semaphore. *)

LEMMA HoldersFinite == IsFiniteSet(Holders) /\ Cardinality(Holders) \in Nat
<1>1. Holders \subseteq Workers
  BY DEF Holders
<1>. QED
  BY <1>1, WaveAssumption, FS_Subset, FS_CardinalityType

\* A step that moves no task in or out of the semaphore keeps the permits.
LEMMA HoldersSame ==
    ASSUME SemaphoreInv, Holders' = Holders, value' = value
    PROVE  SemaphoreInv'
BY DEF SemaphoreInv

\* Taking a permit that is free.
LEMMA HoldersGain ==
    ASSUME SemaphoreInv, value \in Int, NEW w \in Workers, w \notin Holders,
           Holders' = Holders \cup {w}, value > 0, value' = value - 1
    PROVE  SemaphoreInv'
<1>1. Cardinality(Holders') = Cardinality(Holders) + 1
  BY HoldersFinite, FS_AddElement
<1>. QED
  BY <1>1, HoldersFinite, WaveAssumption DEF SemaphoreInv

\* Giving it back.
LEMMA HoldersLose ==
    ASSUME SemaphoreInv, value \in Int, NEW w \in Workers, w \in Holders,
           Holders' = Holders \ {w}, value' = value + 1
    PROVE  SemaphoreInv'
<1>1. Cardinality(Holders') = Cardinality(Holders) - 1
  BY HoldersFinite, FS_RemoveElement
<1>. QED
  BY <1>1, HoldersFinite, WaveAssumption DEF SemaphoreInv

-----------------------------------------------------------------------------
USE DEF NoBrief, Plain, CallsOff, Blocked, WorkerBriefs, Places, Over, Exits, Holding

LEMMA InitInv == Init => WaveInv
<1>. SUFFICES ASSUME Init PROVE WaveInv
  OBVIOUS
<1>1. LooseTypes
  <2>1. task \in [Workers -> Places]
    BY DEF Init
  <2>2. result \in [Workers -> WorkerBriefs \cup {NoBrief}]
    BY DEF Init
  <2>3. briefs \in [Workers -> WorkerBriefs \cup {NoBrief, Blocked}]
    BY DEF Init
  <2>4. value \in Int
    BY WaveAssumption DEF Init
  <2>. QED
    BY <2>1, <2>2, <2>3, <2>4 DEF Init, LooseTypes
<1>2. SemaphoreInv
  <2>1. Holders = {}
    BY DEF Init, Holders
  <2>2. Cardinality({}) = 0
    BY FS_EmptySet
  <2>. QED
    BY <2>1, <2>2, WaveAssumption DEF Init, SemaphoreInv
<1>3. TaskInv
  BY DEF Init, TaskInv
<1>4. MainInv
  BY DEF Init, MainInv
<1>. QED
  BY <1>1, <1>2, <1>3, <1>4 DEF WaveInv

LEMMA NextTypes == LooseTypes /\ [Next]_vars => LooseTypes'
<1>. SUFFICES ASSUME LooseTypes, [Next]_vars PROVE LooseTypes'
  OBVIOUS
<1>. USE DEF LooseTypes
<1>1. ASSUME NEW w \in Workers, TaskStep(w) PROVE LooseTypes'
  BY <1>1 DEF TaskStep, Acquire, RunnerEnds, Commit, CommitFails, Cancelled, Released
<1>2. CASE MainStep
  BY <1>2 DEF MainStep, MainWakes, MainCancelled, LeaveWith, Join, Fill, FillFails, Return
<1>3. CASE Stop
  BY <1>3 DEF Stop
<1>4. CASE UNCHANGED vars
  BY <1>4 DEF vars
<1>. QED
  BY <1>1, <1>2, <1>3, <1>4 DEF Next

LEMMA NextSemaphore == WaveInv /\ [Next]_vars => SemaphoreInv'
<1>. SUFFICES ASSUME WaveInv, [Next]_vars PROVE SemaphoreInv'
  OBVIOUS
<1>. USE DEF WaveInv, LooseTypes
<1>1. ASSUME NEW w \in Workers, Acquire(w) PROVE SemaphoreInv'
  <2>1. w \notin Holders /\ Holders' = Holders \cup {w}
    BY <1>1 DEF Acquire, Holders
  <2>. QED
    BY <1>1, <2>1, HoldersGain DEF Acquire, Free
<1>2. ASSUME NEW w \in Workers, NEW brief \in WorkerBriefs, RunnerEnds(w, brief)
      PROVE  SemaphoreInv'
  <2>1. Holders' = Holders
    BY <1>2 DEF RunnerEnds, Holders
  <2>. QED
    BY <1>2, <2>1, HoldersSame DEF RunnerEnds
<1>3. ASSUME NEW w \in Workers, Commit(w) \/ CommitFails(w) PROVE SemaphoreInv'
  <2>1. w \in Holders /\ Holders' = Holders \ {w}
    BY <1>3 DEF Commit, CommitFails, Holders
  <2>. QED
    BY <1>3, <2>1, HoldersLose DEF Commit, CommitFails, Released
<1>4. ASSUME NEW w \in Workers, Cancelled(w) PROVE SemaphoreInv'
  <2>1. CASE task[w] \in Holding
    <3>1. w \in Holders /\ Holders' = Holders \ {w}
      BY <1>4, <2>1 DEF Cancelled, Holders
    <3>. QED
      BY <1>4, <2>1, <3>1, HoldersLose DEF Cancelled, Released
  <2>2. CASE task[w] \notin Holding
    <3>1. Holders' = Holders
      BY <1>4, <2>2 DEF Cancelled, Holders
    <3>. QED
      BY <1>4, <2>2, <3>1, HoldersSame DEF Cancelled
  <2>. QED
    BY <2>1, <2>2
<1>5. CASE MainStep \/ Stop \/ UNCHANGED vars
  <2>1. Holders' = Holders /\ value' = value
    BY <1>5 DEF MainStep, MainWakes, MainCancelled, LeaveWith, Join, Fill, FillFails,
                Return, Stop, vars, Holders
  <2>. QED
    BY <2>1, HoldersSame
<1>. QED
  BY <1>1, <1>2, <1>3, <1>4, <1>5 DEF Next, TaskStep

LEMMA NextTasks == WaveInv /\ [Next]_vars => TaskInv'
<1>. SUFFICES ASSUME WaveInv, [Next]_vars PROVE TaskInv'
  OBVIOUS
<1>. USE DEF WaveInv, LooseTypes, TaskInv
<1>1. ASSUME NEW w \in Workers, TaskStep(w) PROVE TaskInv'
  <2>1. CASE Acquire(w)
    BY <2>1 DEF Acquire
  <2>2. ASSUME NEW brief \in WorkerBriefs, RunnerEnds(w, brief) PROVE TaskInv'
    BY <2>2 DEF RunnerEnds
  <2>3. CASE Commit(w)
    BY <2>3 DEF Commit
  <2>4. CASE CommitFails(w)
    BY <2>4 DEF CommitFails
  <2>5. CASE Cancelled(w)
    BY <2>5 DEF Cancelled
  <2>. QED
    BY <1>1, <2>1, <2>2, <2>3, <2>4, <2>5 DEF TaskStep
<1>2. CASE MainStep
  BY <1>2 DEF MainStep, MainWakes, MainCancelled, LeaveWith, Join, Fill, FillFails, Return
<1>3. CASE Stop
  BY <1>3 DEF Stop
<1>4. CASE UNCHANGED vars
  BY <1>4 DEF vars
<1>. QED
  BY <1>1, <1>2, <1>3, <1>4 DEF Next

LEMMA NextMain == WaveInv /\ [Next]_vars => MainInv'
<1>. SUFFICES ASSUME WaveInv, [Next]_vars PROVE MainInv'
  OBVIOUS
<1>. USE DEF WaveInv, LooseTypes, MainInv, AllOver, CalledOff, Complete
<1>1. ASSUME NEW w \in Workers, TaskStep(w) PROVE MainInv'
  <2>1. CASE Acquire(w)
    BY <2>1 DEF Acquire
  <2>2. ASSUME NEW brief \in WorkerBriefs, RunnerEnds(w, brief) PROVE MainInv'
    BY <2>2 DEF RunnerEnds
  <2>3. CASE Commit(w)
    BY <2>3 DEF Commit, TaskInv, Resumes
  <2>4. CASE CommitFails(w)
    BY <2>4 DEF CommitFails, Resumes
  <2>5. CASE Cancelled(w)
    BY <2>5 DEF Cancelled
  <2>. QED
    BY <1>1, <2>1, <2>2, <2>3, <2>4, <2>5 DEF TaskStep
<1>2. CASE MainWakes
  <2>1. CASE LeaveWith("commit_failed")
    BY <1>2, <2>1 DEF MainWakes, LeaveWith, TaskInv
  <2>2. CASE (\A w \in Workers : task[w] # "failed") /\ (CalledOff \/ AllOver) /\ LeaveWith("none")
    <3>1. ASSUME AllOver, ~CalledOff PROVE Complete
      <4>1. \A w \in Workers : task[w] = "committed"
        BY <1>2, <2>2, <3>1 DEF MainWakes
      <4>. QED
        BY <4>1, <3>1 DEF TaskInv
    <3>. QED
      BY <1>2, <2>2, <3>1 DEF MainWakes, LeaveWith, TaskInv
  <2>. QED
    BY <1>2, <2>1, <2>2 DEF MainWakes
<1>3. CASE MainCancelled
  BY <1>3 DEF MainCancelled, LeaveWith, TaskInv
<1>4. CASE Join
  BY <1>4 DEF Join, Joined, TaskInv
<1>5. ASSUME NEW w \in Workers, Fill(w) PROVE MainInv'
  BY <1>5 DEF Fill
<1>6. CASE FillFails \/ Return \/ Stop \/ UNCHANGED vars
  BY <1>6 DEF FillFails, Return, Stop, vars
<1>. QED
  BY <1>1, <1>2, <1>3, <1>4, <1>5, <1>6 DEF Next, MainStep

\* WaveInv holds throughout.
THEOREM InvHolds == Spec => []WaveInv
<1>1. WaveInv /\ [Next]_vars => WaveInv'
  BY NextTypes, NextSemaphore, NextTasks, NextMain DEF WaveInv
<1>. QED
  BY InitInv, <1>1, PTL DEF Spec

-----------------------------------------------------------------------------
(* What follows from WaveInv. *)

\* Every variable of run_wave keeps its type; the semaphore never counts below
\* zero nor above max_parallel_readonly_workers.
THEOREM TypesHold == Spec => []TypeOK
<1>1. WaveInv => TypeOK
  <2>. SUFFICES ASSUME WaveInv PROVE TypeOK
    OBVIOUS
  <2>1. value \in 0 .. Permits
    BY HoldersFinite, WaveAssumption DEF WaveInv, LooseTypes, SemaphoreInv
  <2>. QED
    BY <2>1 DEF WaveInv, LooseTypes, TypeOK
<1>. QED
  BY <1>1, InvHolds, PTL

\* However many workers a wave has and however they end, no more of them run at
\* once than the semaphore was created for.
THEOREM ConcurrencyIsBounded == Spec => []BoundedConcurrency
<1>1. WaveInv => BoundedConcurrency
  <2>. SUFFICES ASSUME WaveInv PROVE BoundedConcurrency
    OBVIOUS
  <2>1. Cardinality(Holders) <= Permits
    BY HoldersFinite, WaveAssumption DEF WaveInv, LooseTypes, SemaphoreInv
  <2>. QED
    BY <2>1 DEF Holders, BoundedConcurrency
<1>. QED
  BY <1>1, InvHolds, PTL

\* run_wave is left, in whatever way, only after all its tasks are over.
THEOREM NobodyOutlives == Spec => []NobodyOutlivesTheWave
<1>1. WaveInv => NobodyOutlivesTheWave
  BY DEF WaveInv, MainInv, NobodyOutlivesTheWave
<1>. QED
  BY <1>1, InvHolds, PTL

\* Blocked briefs are made up only in a wave that a committed brief called off.
THEOREM BlockedBriefsAreJustified == Spec => []BlockedOnlyWhenCalledOff
<1>1. WaveInv => BlockedOnlyWhenCalledOff
  BY DEF WaveInv, MainInv, BlockedOnlyWhenCalledOff
<1>. QED
  BY <1>1, InvHolds, PTL

\* After a stop reached run_wave no brief is committed any more.
THEOREM StopIsQuiet == Spec => StopCommitsNothing
<1>1. WaveInv /\ [Next]_vars => [error = "cancelled" => briefs' = briefs]_vars
  <2>. SUFFICES ASSUME WaveInv, Next, error = "cancelled" PROVE briefs' = briefs
    BY DEF vars
  <2>1. ASSUME NEW w \in Workers, TaskStep(w) PROVE briefs' = briefs
    BY <2>1 DEF TaskStep, Acquire, RunnerEnds, Commit, CommitFails, Cancelled, Resumes,
                WaveInv, LooseTypes, MainInv, AllOver
  <2>2. CASE MainStep
    BY <2>2 DEF MainStep, MainWakes, MainCancelled, LeaveWith, Join, Fill, FillFails,
                Return, WaveInv, MainInv
  <2>3. CASE Stop
    BY <2>3 DEF Stop
  <2>. QED
    BY <2>1, <2>2, <2>3 DEF Next
<1>. QED
  BY <1>1, InvHolds, PTL DEF Spec, StopCommitsNothing

\* run_wave implements the wave its caller relies on.
THEOREM WaveIsKept == Spec => KeepsWavePromises
<1>. DEFINE seen == IF main \in Exits THEN main ELSE "open"
<1>1. Init => Caller!Init
  BY DEF Init, Caller!Init, Caller!NoBrief
<1>2. WaveInv /\ [Next]_vars => [Caller!Next]_<<briefs, seen>>
  <2>. SUFFICES ASSUME WaveInv, [Next]_vars PROVE [Caller!Next]_<<briefs, seen>>
    OBVIOUS
  <2>. USE DEF WaveInv, LooseTypes, Caller!NoBrief, Caller!Plain, Caller!CallsOff,
               Caller!Blocked
  <2>1. ASSUME NEW w \in Workers, Commit(w) PROVE Caller!Next
    <3>1. /\ main \in {"waiting", "joining"}
          /\ result[w] \in {Plain, CallsOff}
          /\ briefs[w] = NoBrief
          /\ \A v \in Workers : briefs[v] # Blocked
      BY <2>1 DEF Commit, TaskInv, MainInv, AllOver
    <3>2. Caller!Returns(w, result[w])
      BY <2>1, <3>1 DEF Commit, Caller!Returns
    <3>. QED
      BY <3>1, <3>2 DEF Caller!Next
  <2>2. ASSUME NEW w \in Workers, Fill(w) PROVE Caller!Next
    <3>1. \E v \in Workers : briefs[v] = CallsOff
      BY <2>2 DEF Fill, MainInv, CalledOff, Complete
    <3>2. Caller!Block(w)
      BY <2>2, <3>1 DEF Fill, Caller!Block
    <3>. QED
      BY <3>2 DEF Caller!Next
  <2>3. CASE Return
    <3>1. Caller!Return
      BY <2>3 DEF Return, Complete, Caller!Return
    <3>. QED
      BY <3>1 DEF Caller!Next
  <2>4. CASE Join \/ FillFails
    <3>1. Caller!Leave \/ UNCHANGED <<briefs, seen>>
      BY <2>4 DEF Join, FillFails, Caller!Leave
    <3>. QED
      BY <3>1 DEF Caller!Next
  <2>5. ASSUME NEW w \in Workers, TaskStep(w), ~Commit(w) PROVE UNCHANGED <<briefs, seen>>
    BY <2>5 DEF TaskStep, Acquire, RunnerEnds, CommitFails, Cancelled
  <2>6. CASE MainWakes \/ MainCancelled \/ Stop \/ UNCHANGED vars
    BY <2>6 DEF MainWakes, MainCancelled, LeaveWith, Stop, vars
  <2>. QED
    BY <2>1, <2>2, <2>3, <2>4, <2>5, <2>6 DEF Next, MainStep
<1>. QED
  BY <1>1, <1>2, InvHolds, PTL DEF Spec, KeepsWavePromises, Caller!Spec, Caller!waveVars

-----------------------------------------------------------------------------
(* The composition *)

\* A wave whose workers share the gateway is a wave as Scheduler states it, and
\* uses the gateway as Gateway states it: what is proved of each holds of both.
THEOREM WaveUsesBoth == WaveSpec => Spec /\ GatewaySpec
<1>1. WaveInit => Init /\ GatewayInit
    BY DEF WaveInit
<1>2. [WaveNext]_allVars => [Next]_vars /\ [GatewayNext]_gatewayVars
    <2> SUFFICES ASSUME [WaveNext]_allVars
                 PROVE  [Next]_vars /\ [GatewayNext]_gatewayVars
        OBVIOUS
    <2> USE CallersAreWorkers
    <2>1. ASSUME NEW w \in Workers, WorkerStep(w)
          PROVE  [Next]_vars /\ [GatewayNext]_gatewayVars
        <3>1. CASE WorkerStarts(w)
            BY <3>1 DEF WorkerStarts, Next, TaskStep, GatewayNext
        <3>2. CASE WorkerAsks(w)
            BY <3>2 DEF WorkerAsks, GatewayNext
        <3>3. ASSUME NEW brief \in WorkerBriefs, WorkerReturns(w, brief)
              PROVE  [Next]_vars /\ [GatewayNext]_gatewayVars
            BY <3>3 DEF WorkerReturns, Next, TaskStep, GatewayNext
        <3>4. CASE WorkerCancelled(w)
            BY <3>4 DEF WorkerCancelled, Next, TaskStep, GatewayNext
        <3>5. CASE WorkerEnds(w)
            BY <3>5 DEF WorkerEnds, Next, TaskStep
        <3>6. QED
            BY <2>1, <3>1, <3>2, <3>3, <3>4, <3>5 DEF WorkerStep
    <2>2. CASE WaveMain
        BY <2>2 DEF WaveMain, Next
    <2>3. CASE UNCHANGED allVars
        BY <2>3 DEF allVars
    <2>4. QED
        BY <2>1, <2>2, <2>3 DEF WaveNext
<1>3. QED
    BY <1>1, <1>2, PTL DEF WaveSpec, Spec, GatewaySpec
=============================================================================
