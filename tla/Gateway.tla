------------------------------- MODULE Gateway -------------------------------
(***************************************************************************)
(* LLMGateway (runtime/llm.py), which all agent loops of a process share:  *)
(* the semaphore around a request, the class of its answer, and the        *)
(* breaker, one count of consecutive failures for every caller.            *)
(*                                                                         *)
(* A caller is an agent loop (runtime/loop/cycle.py) as the gateway sees   *)
(* it: in a turn it may ask for a summary of its history, then it asks for *)
(* the turn itself.  What it does with a failed summary, and which turn    *)
(* ends it, is all that is kept of the loop.                               *)
(***************************************************************************)
EXTENDS Naturals, FiniteSets

CONSTANTS
    Callers,
    Requests,       \* llm_max_concurrency
    BreakerMax,     \* llm_breaker_max
    Budget          \* step_budget of a loop

ASSUME GatewayAssumption ==
    /\ IsFiniteSet(Callers)
    /\ {Requests, BreakerMax, Budget} \subseteq Nat \ {0}

VARIABLES
    loop,       \* the loops
    free,       \* the semaphore of the gateway
    fails,      \* _consecutive_fail
    row         \* history: transient failures since an answer of another class

gatewayVars == <<loop, free, fails, row>>

\* What classify makes of an exception, or the stream of itself.  "other" is
\* validation (a tool was demanded and not called), environment, permission, logic.
Answers == {"ok", "transient", "other", "auth", "fatal"}

Away == [at |-> "away", steps |-> 0]
Gone == [at |-> "gone", steps |-> 0]
InRequest == {"summary", "turn"}
LoopPlaces == InRequest \cup {"away", "top", "assembled", "submitted", "over", "gone"}

GatewayInit ==
    /\ loop = [c \in Callers |-> Away]
    /\ free = Requests
    /\ fails = 0
    /\ row = 0

-----------------------------------------------------------------------------
(* _breaker *)

Counted(count, answer) ==
    CASE answer = "ok" -> 0
      [] answer = "transient" -> count + 1
      [] OTHER -> count

\* Slip: only the failure that fills the count is escalated.
EscalatedOnce(count, answer) ==
    IF answer = "transient" /\ count = BreakerMax THEN "fatal" ELSE answer

\* The class the caller sees, with the count after the answer.
Escalated(count, answer) ==
    IF answer = "transient" /\ count >= BreakerMax THEN "fatal" ELSE answer

-----------------------------------------------------------------------------
(* A request *)

Asks(c, request) ==
    /\ free > 0
    /\ free' = free - 1
    /\ loop' = [loop EXCEPT ![c].at = request]
    /\ UNCHANGED <<fails, row>>

\* async with is left, and the answer goes through the breaker.
Answered(answer) ==
    /\ free' = free + 1
    /\ fails' = Counted(fails, answer)
    /\ row' = IF answer = "transient" THEN row + 1 ELSE 0

-----------------------------------------------------------------------------
(* An agent loop *)

Begins(c) ==
    /\ loop[c] = Away
    /\ loop' = [loop EXCEPT ![c].at = "top"]
    /\ UNCHANGED <<free, fails, row>>

\* The history is longer than the turns that are kept, in the first turn too when
\* the loop goes on with a thread.
AsksForSummary(c) ==
    /\ loop[c].at = "top"
    /\ Asks(c, "summary")

\* Without a summary the turns are replaced by a note that says so.
SummaryEnds(c, answer) ==
    /\ loop[c].at = "summary"
    /\ Answered(answer)
    /\ loop' = [loop EXCEPT ![c].at = "assembled"]

AsksForTurn(c) ==
    /\ loop[c].at \in {"top", "assembled"}
    /\ Asks(c, "turn")

\* Where a loop is after a turn: an error that no retry helps ends it, and so
\* does the turn after its budget; what was answered may be a submit, and an
\* answer other than a transient failure may end the loop in other ways.  The
\* calls of an answer that failed its validation are run as well.
After(answer, class, steps, place) ==
    /\ place \in {"top", "submitted", "over"}
    /\ class \in {"auth", "fatal"} => place = "over"
    /\ class = "transient" /\ steps <= Budget => place = "top"
    /\ steps > Budget => place # "top"
    /\ place = "submitted" => answer \in {"ok", "other"}

TurnEnds(c, answer, place) ==
    /\ loop[c].at = "turn"
    /\ Answered(answer)
    /\ After(answer, Escalated(fails', answer), loop[c].steps + 1, place)
    /\ loop' = [loop EXCEPT ![c] = [at |-> place, steps |-> @.steps + 1]]

\* Slip: a request that is cancelled keeps its permit.
LeavesWithPermit(c) == UNCHANGED <<free, fails, row>>

Leaves(c) ==
    /\ free' = IF loop[c].at \in InRequest THEN free + 1 ELSE free
    /\ UNCHANGED <<fails, row>>

\* The deadline of the loop cancels the request in flight; nobody counts it.
TimesOut(c) ==
    /\ loop[c].at \in {"top", "summary", "assembled", "turn"}
    /\ Leaves(c)
    /\ loop' = [loop EXCEPT ![c].at = "over"]

\* The task of the caller is cancelled, wherever it is, or has its result.
Dropped(c) ==
    /\ loop[c].at # "gone"
    /\ Leaves(c)
    /\ loop' = [loop EXCEPT ![c] = Gone]

CallerStep(c) ==
    \/ AsksForSummary(c) \/ AsksForTurn(c) \/ TimesOut(c)
    \/ \E answer \in Answers :
          SummaryEnds(c, answer) \/ \E place \in LoopPlaces : TurnEnds(c, answer, place)

GatewayNext ==
    \E c \in Callers : Begins(c) \/ CallerStep(c) \/ Dropped(c)

GatewaySpec == GatewayInit /\ [][GatewayNext]_gatewayVars

-----------------------------------------------------------------------------
(* Properties *)

\* Every variable keeps its type; a permit is out for every request in flight and
\* no other, whatever ended the request.
GatewayTypeOK ==
    /\ loop \in [Callers -> [at : LoopPlaces, steps : 0 .. (Budget + 1)]]
    /\ fails \in Nat /\ row \in Nat /\ row <= fails
    /\ free \in 0 .. Requests
    /\ free + Cardinality({c \in Callers : loop[c].at \in InRequest}) = Requests

\* When the gateway is down, the loops do not spend their budgets on it (llm.py:
\* retries and pauses would be burnt for nothing): once the breaker is full, each
\* loop makes one more request for its summary and one for its turn.
DeadGatewayIsLeft == row < BreakerMax + 2 * Cardinality(Callers)
=============================================================================
