------------------------------ MODULE AgentLoop ------------------------------
(***************************************************************************)
(* One agent loop: run_loop (runtime/loop/cycle.py) with the calls of a    *)
(* turn (calls.py), the decision after it (control.py), the counters of    *)
(* the task (runtime/task.py) and the detection of repeated calls          *)
(* (stagnation.py).  What the loop does to the conversation is the subject *)
(* of module Transcript.                                                   *)
(*                                                                         *)
(* What the model answers is chosen freely: an error of the gateway, text, *)
(* or calls; so is what a call returns.  A call is known by its tool, the  *)
(* class of its result, and a variant that stands for its arguments and    *)
(* text.                                                                   *)
(***************************************************************************)
EXTENDS Integers, Sequences, FiniteSets, FiniteSetsExt

CONSTANTS
    Tools,          \* ordinary tools
    Readonly,       \* those that may run in parallel
    Variants,       \* variants of a call and its result
    ToolErrors,     \* the classes of error an ordinary tool may end with
    Flash,          \* the agent is Flash, else Pro
    HaltAllowed,    \* submit_halt is among the tools of the phase
    Budget,         \* step_budget
    RetryMax,       \* transient_retry_max
    LogicMax,       \* consecutive_logic_failure_max
    ValidationMax,  \* validation_retry_max
    Threshold,      \* stagnation_repeat_threshold
    Grace,          \* stagnation_grace_steps
    HistoryMax,     \* _HISTORY_MAX of the tracker
    MaxCalls        \* bound of the model: calls in one turn

Submit == "submit"          \* the exit tool of the phase
Halt == "submit_halt"
Foreign == "other_submit"   \* the exit tool of another phase
SubmitTools == {Submit, Halt, Foreign}

Errors == {"ok", "validation", "transient", "other", "logic", "auth", "fatal"}
GatewayErrors == Errors \ {"ok"}

ASSUME LoopAssumption ==
    /\ ToolErrors \subseteq Errors
    /\ Readonly \subseteq Tools /\ Tools \cap SubmitTools = {}
    /\ Flash \in BOOLEAN /\ HaltAllowed \in BOOLEAN
    /\ {Budget, RetryMax, LogicMax, ValidationMax, HistoryMax, MaxCalls} \subseteq Nat \ {0}
    /\ Threshold \in Nat \ {0, 1} /\ Grace \in Nat

VARIABLES
    at,         \* "top", "model", "calls", "decide", "done"
    task,       \* counters of RuntimeTask
    loop,       \* locals of run_loop
    streak,     \* validation_streak
    tracker,    \* StagnationTracker, with the worst signal of the turn
    turn,       \* the calls of the turn in progress and what they returned
    late,       \* the deadline of the task has passed
    reason,     \* reason of the LoopResult
    turns,      \* turns started
    warned      \* the model was told that it repeats itself

vars == <<at, task, loop, streak, tracker, turn, late, reason, turns, warned>>

Names == Tools \cup SubmitTools

\* _ERROR_SEVERITY; "other" is environment and permission.
Severity(e) ==
    CASE e = "ok" -> 0 [] e = "validation" -> 2 [] e = "transient" -> 3
      [] e = "other" -> 4 [] e = "logic" -> 5 [] e = "auth" -> 7 [] e = "fatal" -> 8

Signals == {"none", "repeat", "loop"}
SignalRank(s) == CASE s = "none" -> 0 [] s = "repeat" -> 1 [] s = "loop" -> 2

Unseen == <<>>      \* a call the tracker does not look at

\* A result as calls.py returns it.
Outcomes ==
    [ error : Errors, key : {Unseen} \cup (Names \X Errors \X Variants),
      payload : BOOLEAN, exhausted : BOOLEAN, down : BOOLEAN ]

NoTurn == [calls |-> <<>>, outcome |-> <<>>]

Init ==
    /\ at = "top"
    /\ task = [steps |-> 0, transient |-> 0, logic |-> 0]
    /\ loop = [forced |-> FALSE, forceHalt |-> FALSE, error |-> "ok", stag |-> "none"]
    /\ streak = [n \in Names |-> 0]
    /\ tracker = [seen |-> <<>>, nudged |-> FALSE, grace |-> 0, signal |-> "none"]
    /\ turn = NoTurn
    /\ late = FALSE
    /\ reason = "none"
    /\ turns = 0
    /\ warned = FALSE

-----------------------------------------------------------------------------
(* RuntimeTask.record *)

\* Slip: a transient failure is retried without counting a step.
RecordedUnlessTransient(t, error) ==
    [ steps |-> IF error = "transient" THEN t.steps ELSE t.steps + 1,
      transient |-> IF error = "transient" THEN t.transient + 1
                    ELSE IF error = "ok" THEN 0 ELSE t.transient,
      logic |-> IF error = "logic" THEN t.logic + 1
                ELSE IF error = "ok" THEN 0 ELSE t.logic ]

Recorded(t, error) ==
    [ steps |-> t.steps + 1,
      transient |-> IF error = "transient" THEN t.transient + 1
                    ELSE IF error = "ok" THEN 0 ELSE t.transient,
      logic |-> IF error = "logic" THEN t.logic + 1
                ELSE IF error = "ok" THEN 0 ELSE t.logic ]

-----------------------------------------------------------------------------
(* StagnationTracker *)

\* How often the last p calls were made in a row.
RepeatsOf(seen, p) ==
    Max({n \in 1 .. Len(seen) : /\ n * p <= Len(seen)
                                /\ \A i \in (Len(seen) - n * p + 1) .. (Len(seen) - p) :
                                        seen[i] = seen[i + p]})

\* _cycle_repeats: the best of the periods up to three.
CycleRepeats(seen) == Max({RepeatsOf(seen, p) : p \in 1 .. Min({3, Len(seen)})})

\* A deque keeps the latest calls.
Remembered(seen, key) ==
    LET all == Append(seen, key) IN
    SubSeq(all, Max({1, Len(all) - HistoryMax + 1}), Len(all))

\* Slip: the threshold confirms the loop at once.
ObservedWithoutGrace(tr, key) ==
    LET seen == Remembered(tr.seen, key)
        repeats == CycleRepeats(seen)
    IN  [tr EXCEPT !.seen = seen,
                   !.signal = IF repeats >= Threshold THEN "loop" ELSE tr.signal]

\* observe, and the worst signal so far.
Observed(tr, key) ==
    LET seen == Remembered(tr.seen, key)
        repeats == CycleRepeats(seen)
        signal == IF repeats < Threshold THEN "none"
                  ELSE IF tr.nudged /\ tr.grace = 0 THEN "loop" ELSE "repeat"
    IN  [ seen |-> seen,
          nudged |-> repeats > 1 /\ (tr.nudged \/ repeats >= Threshold),
          grace |-> IF repeats <= 1 THEN 0
                    ELSE IF tr.nudged THEN (IF tr.grace = 0 THEN 0 ELSE tr.grace - 1)
                    ELSE IF repeats >= Threshold THEN Grace ELSE tr.grace,
          signal |-> IF SignalRank(signal) > SignalRank(tr.signal) THEN signal ELSE tr.signal ]

\* The calls of a turn in the order in which the model made them.
ObservedTurn(tr, outcomes) ==
    LET after[i \in 0 .. Len(outcomes)] ==
            IF i = 0 THEN [tr EXCEPT !.signal = "none"]
            ELSE IF outcomes[i].key = Unseen THEN after[i - 1]
            ELSE Observed(after[i - 1], outcomes[i].key)
    IN  after[Len(outcomes)]

-----------------------------------------------------------------------------
(* one_turn *)

End(r) == at' = "done" /\ reason' = r
ToDecide == at' = "decide" /\ UNCHANGED reason

StartTurn ==
    /\ at = "top"
    /\ at' = "model"
    /\ turn' = NoTurn
    /\ turns' = turns + 1
    /\ UNCHANGED <<task, loop, streak, tracker, late, reason, warned>>

\* The gateway returns an error and no calls.
ModelFails(e) ==
    /\ at = "model"
    /\ task' = Recorded(task, e)
    /\ loop' = [loop EXCEPT !.error = e]
    /\ IF e = "auth" THEN End("auth") ELSE ToDecide
    /\ UNCHANGED <<streak, tracker, turn, late, turns, warned>>

\* No calls; after a forced submit this is the end.
ModelTalks ==
    /\ at = "model"
    /\ task' = Recorded(task, "ok")
    /\ loop' = [loop EXCEPT !.error = "ok"]
    /\ IF loop.forced THEN End("force_brief_failed") ELSE ToDecide
    /\ UNCHANGED <<streak, tracker, turn, late, turns, warned>>

Pending == [ error |-> "pending", key |-> Unseen, payload |-> FALSE,
             exhausted |-> FALSE, down |-> FALSE ]

ModelCalls(names) ==
    /\ at = "model"
    /\ turn' = [calls |-> names, outcome |-> [i \in DOMAIN names |-> Pending]]
    /\ at' = "calls"
    /\ UNCHANGED <<task, loop, streak, tracker, late, reason, turns, warned>>

\* waves: neighbouring read-only calls run together, every other call alone,
\* and a call waits for all calls before its wave.
MayRun(i) ==
    /\ turn.outcome[i] = Pending
    /\ \A j \in 1 .. (i - 1) :
          \/ turn.outcome[j] # Pending
          \/ \A k \in j .. i : turn.calls[k] \in Readonly

\* _track_validation
Counted(n, error) == [streak EXCEPT ![n] = IF error = "validation" THEN @ + 1 ELSE 0]

Returns(i, error, key, payload, down) ==
    LET name == turn.calls[i]
        exhausted == error = "validation" /\ streak[name] + 1 >= ValidationMax
    IN  /\ streak' = Counted(name, error)
        /\ turn' = [turn EXCEPT !.outcome[i] =
                        [ error |-> error, key |-> key, payload |-> payload,
                          exhausted |-> exhausted, down |-> down ]]
        /\ UNCHANGED <<at, task, loop, tracker, late, reason, turns, warned>>

\* Arguments that are no object, whatever the tool.
CallIsMalformed(i) ==
    /\ at = "calls" /\ MayRun(i)
    /\ Returns(i, "validation", Unseen, FALSE, FALSE)

ToolReturns(i, error, v, down) ==
    /\ at = "calls" /\ MayRun(i)
    /\ turn.calls[i] \in Tools
    /\ down => error = "fatal"
    /\ Returns(i, error, <<turn.calls[i], error, v>>, FALSE, down)

\* The exit tool of this phase, or submit_halt where the phase has it.
SubmitAccepted(i) ==
    /\ at = "calls" /\ MayRun(i)
    /\ turn.calls[i] = Submit \/ (turn.calls[i] = Halt /\ HaltAllowed)
    /\ Returns(i, "ok", Unseen, TRUE, FALSE)

SubmitRejected(i, v) ==
    /\ at = "calls" /\ MayRun(i)
    /\ turn.calls[i] \in SubmitTools
    /\ Returns(i, "validation", <<turn.calls[i], "validation", v>>, FALSE, FALSE)

\* Slip: the error of the last call is the error of the turn.
ErrorOfLast(outcomes) == outcomes[Len(outcomes)].error

\* _worse_error over the calls of the turn.
ErrorOfTurn(outcomes) ==
    (CHOOSE o \in {outcomes[i] : i \in DOMAIN outcomes} :
        \A i \in DOMAIN outcomes : Severity(outcomes[i].error) <= Severity(o.error)).error

FirstExhausted(outcomes) ==
    turn.calls[Min({i \in DOMAIN outcomes : outcomes[i].exhausted})]

\* All calls have returned: the turn is recorded, and then the first that
\* applies of: the sandbox is gone; a tool failed validation too often; a
\* submit was accepted.
TurnEnds ==
    /\ at = "calls"
    /\ \A i \in DOMAIN turn.outcome : turn.outcome[i] # Pending
    /\ LET outcomes == turn.outcome
           observed == ObservedTurn(tracker, outcomes)
           error == ErrorOfTurn(outcomes)
           Some(P(_)) == \E i \in DOMAIN outcomes : P(outcomes[i])
           down == Some(LAMBDA o : o.down)
           exhausted == ~down /\ Some(LAMBDA o : o.exhausted)
           payload == ~down /\ ~exhausted /\ Some(LAMBDA o : o.payload)
           exit == exhausted /\ FirstExhausted(outcomes) \in SubmitTools
       IN  /\ tracker' = observed
           /\ task' = Recorded(task, error)
           /\ loop' = [loop EXCEPT !.error = error, !.stag = observed.signal,
                                   !.forceHalt = @ \/ (exit /\ ~Flash /\ HaltAllowed)]
           \* record leaves an event that the next context shows
           /\ warned' = (warned \/ observed.signal = "repeat")
           \* an ordinary tool is only nudged, and counts from zero again
           /\ streak' = IF exhausted /\ ~exit
                        THEN [streak EXCEPT ![FirstExhausted(outcomes)] = 0] ELSE streak
           /\ CASE down -> End("sandbox_unreachable")
                [] exit /\ Flash -> End("validation_takeover")
                [] exit /\ ~Flash /\ ~HaltAllowed -> End("validation_exhausted")
                [] payload -> End("submit")
                [] OTHER -> ToDecide
    /\ UNCHANGED <<turn, late, turns>>

\* asyncio.wait_for around the turn: what is in flight is cancelled.
TurnTimesOut ==
    /\ at \in {"model", "calls"} /\ late
    /\ End("deadline")
    /\ UNCHANGED <<task, loop, streak, tracker, turn, late, turns, warned>>

-----------------------------------------------------------------------------
(* decide, and what run_loop does with it *)

StopReason ==
    IF loop.error \in {"auth", "fatal"} THEN loop.error
    ELSE IF loop.stag = "loop" THEN "LOOP_DETECTED"
    ELSE IF late THEN "deadline"
    ELSE "none"

OverBudget == task.steps >= Budget

DecideStops ==
    /\ at = "decide" /\ StopReason # "none"
    /\ End(StopReason)
    /\ UNCHANGED <<task, loop, streak, tracker, turn, late, turns, warned>>

\* The next turn has to submit; there is one such turn.
DecideForces ==
    /\ at = "decide" /\ StopReason = "none" /\ OverBudget
    /\ IF loop.forced THEN End("force_brief_failed")
                      ELSE at' = "top" /\ UNCHANGED reason
    /\ loop' = [loop EXCEPT !.forced = TRUE]
    /\ UNCHANGED <<task, streak, tracker, turn, late, turns, warned>>

Free == at = "decide" /\ StopReason = "none" /\ ~OverBudget

\* A nudge: the repeated action, or transient errors that do not go away.
DecideNudges ==
    /\ Free
    /\ \/ loop.stag = "repeat"
       \/ loop.error = "transient" /\ task.transient >= RetryMax
    /\ at' = "top"
    /\ loop' = [loop EXCEPT !.stag = "none"]
    /\ UNCHANGED <<task, streak, tracker, turn, late, reason, turns, warned>>

LogicExhausted == loop.error = "logic" /\ task.logic >= LogicMax

DecideStopsOnLogic ==
    /\ Free /\ loop.stag # "repeat" /\ LogicExhausted
    /\ End("logic_exhausted")
    /\ UNCHANGED <<task, loop, streak, tracker, turn, late, turns, warned>>

\* continue, or retry_tool after a pause.
DecideContinues ==
    /\ Free /\ loop.stag # "repeat" /\ ~LogicExhausted
    /\ loop.error = "transient" => task.transient < RetryMax
    /\ at' = "top"
    /\ UNCHANGED <<task, loop, streak, tracker, turn, late, reason, turns, warned>>

TimePasses ==
    /\ at # "done" /\ ~late
    /\ late' = TRUE
    /\ UNCHANGED <<at, task, loop, streak, tracker, turn, reason, turns, warned>>

-----------------------------------------------------------------------------
CallStep(i) ==
    \/ CallIsMalformed(i)
    \/ \E error \in ToolErrors, v \in Variants, down \in BOOLEAN : ToolReturns(i, error, v, down)
    \/ SubmitAccepted(i)
    \/ \E v \in Variants : SubmitRejected(i, v)

LoopStep ==
    \/ StartTurn
    \/ \E e \in GatewayErrors : ModelFails(e)
    \/ ModelTalks
    \/ \E n \in 1 .. MaxCalls : \E names \in [1 .. n -> Names] : ModelCalls(names)
    \/ \E i \in 1 .. MaxCalls : i \in DOMAIN turn.calls /\ CallStep(i)
    \/ TurnEnds \/ TurnTimesOut
    \/ DecideStops \/ DecideForces \/ DecideNudges \/ DecideStopsOnLogic \/ DecideContinues

Next == LoopStep \/ TimePasses

Spec == Init /\ [][Next]_vars

-----------------------------------------------------------------------------
(* Properties *)

Reasons == {"none", "auth", "fatal", "LOOP_DETECTED", "deadline", "logic_exhausted",
            "force_brief_failed", "sandbox_unreachable", "validation_takeover",
            "validation_exhausted", "submit"}

\* Every variable keeps its type.
TypeOK ==
    /\ at \in {"top", "model", "calls", "decide", "done"}
    /\ task \in [steps : 0 .. (Budget + 1), transient : 0 .. (Budget + 1), logic : 0 .. (Budget + 1)]
    /\ loop \in [forced : BOOLEAN, forceHalt : BOOLEAN, error : Errors, stag : Signals]
    /\ streak \in [Names -> Nat]
    /\ tracker \in [seen : Seq(Names \X Errors \X Variants), nudged : BOOLEAN,
                    grace : 0 .. Grace, signal : Signals]
    /\ turn.calls \in Seq(Names)
    /\ turn.outcome \in Seq(Outcomes \cup {Pending})
    /\ late \in BOOLEAN /\ warned \in BOOLEAN
    /\ reason \in Reasons
    /\ turns \in Nat

\* A loop makes at most one turn more than its budget, the one that has to
\* submit, whatever errors, retries and nudges it meets.
TurnsAreBounded == turns <= Budget + 1

\* An error that no retry helps is not hidden by another call of the same turn:
\* no further turn is made after it.
NoTurnAfterFatal ==
    at = "top" =>
        \A i \in DOMAIN turn.outcome : turn.outcome[i].error \notin {"auth", "fatal"}

\* A loop is stopped for repeating itself only after it was told to stop doing so
\* (task.py: after the stagnation grace window), unless one turn holds the whole
\* window: the grace is counted by calls, and what is told is seen by the next turn.
LoopIsWarned == reason = "LOOP_DETECTED" /\ ~warned => Len(turn.calls) >= Grace + 2

\* A submit that was answered with ok ends the loop with it, unless the sandbox
\* is gone or the time is up.
SubmitIsTaken ==
    (\E i \in DOMAIN turn.outcome : turn.outcome[i].payload) =>
        /\ at \in {"calls", "done"}
        /\ at = "done" => reason \in {"submit", "sandbox_unreachable", "deadline"}
=============================================================================
