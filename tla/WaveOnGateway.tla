---------------------------- MODULE WaveOnGateway ----------------------------
(***************************************************************************)
(* A wave of workers (module Scheduler) whose agent loops share the        *)
(* gateway (module Gateway): what a worker does while run_wave waits.  The *)
(* properties of the wave are those of the two modules.                    *)
(***************************************************************************)
EXTENDS Scheduler, Gateway

ASSUME CallersAreWorkers == Callers = Workers

allVars == <<vars, gatewayVars>>

WaveInit == Init /\ GatewayInit

\* run_worker starts the loop of the worker.
WorkerStarts(w) == Acquire(w) /\ Begins(w)

\* A cancelled task does nothing more than end; a worker begins with an empty
\* history, which needs no summary.
WorkerAsks(w) ==
    /\ task[w] = "running" /\ w \notin cancelled
    /\ CallerStep(w)
    /\ loop[w].steps = 0 => loop'[w].at # "summary"
    /\ UNCHANGED vars

\* The loop has its result; only a submit or a tool that lost the sandbox can
\* call the wave off.
WorkerReturns(w, brief) ==
    /\ loop[w].at = "submitted" \/ (loop[w].at = "over" /\ brief = Plain)
    /\ RunnerEnds(w, brief)
    /\ Dropped(w)

WorkerCancelled(w) ==
    /\ Cancelled(w)
    /\ IF task[w] = "running" THEN Dropped(w) ELSE UNCHANGED gatewayVars

WorkerEnds(w) == (Commit(w) \/ CommitFails(w)) /\ UNCHANGED gatewayVars

WorkerStep(w) ==
    \/ WorkerStarts(w) \/ WorkerAsks(w)
    \/ \E brief \in WorkerBriefs : WorkerReturns(w, brief)
    \/ WorkerCancelled(w) \/ WorkerEnds(w)

WaveMain == (MainStep \/ Stop) /\ UNCHANGED gatewayVars

WaveNext == (\E w \in Workers : WorkerStep(w)) \/ WaveMain

WaveSpec == WaveInit /\ [][WaveNext]_allVars

\* A request ends by the time limit of its client, a loop by its deadline.
FairWaveSpec ==
    /\ WaveSpec
    /\ WF_allVars(MainStep /\ UNCHANGED gatewayVars)
    /\ \A w \in Workers : WF_allVars(WorkerStep(w))
=============================================================================
