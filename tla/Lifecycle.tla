------------------------------ MODULE Lifecycle ------------------------------
(***************************************************************************)
(* What one lab session promises, whatever its phases do: the session is   *)
(* created once, is executed by at most one live run at a time, may be     *)
(* left and resumed any number of times while it is open, and is closed    *)
(* once, by a live run, after the report of its current plan was written.  *)
(* The durable model is open -> closed; RUNNING, PAUSED and FINISHED are   *)
(* views derived from it (JournalState.status).                            *)
(***************************************************************************)
EXTENDS Naturals

VARIABLES
    session,    \* what the journal says: no session, open or closed
    live,       \* LabRunner holds a run coroutine
    plan,       \* JournalState.plan_revision
    reported    \* SUMMARY.md holds the report of the current plan

lifeVars == <<session, live, plan, reported>>

Init ==
    /\ session = "none"
    /\ live = FALSE
    /\ plan = 0
    /\ reported = FALSE

\* The begin event of a new session.
Create ==
    /\ session = "none" /\ ~live
    /\ session' = "open"
    /\ UNCHANGED <<live, plan, reported>>

\* A run coroutine is created for an open session, new or resumed.
Launch ==
    /\ session = "open" /\ ~live
    /\ live' = TRUE
    /\ UNCHANGED <<session, plan, reported>>

\* A user instruction or changed artifacts start a new plan revision: whatever
\* report was written belongs to an older plan.
Replan ==
    /\ session = "open"
    /\ plan' = plan + 1
    /\ reported' = FALSE
    /\ UNCHANGED <<session, live>>

\* The report of the current plan reaches the workspace.
Report ==
    /\ live /\ session = "open"
    /\ reported' = TRUE
    /\ UNCHANGED <<session, live, plan>>

\* The session_closed event.
Close ==
    /\ live /\ session = "open" /\ reported
    /\ session' = "closed"
    /\ UNCHANGED <<live, plan, reported>>

\* The run coroutine is gone: finished, paused, cancelled or crashed.
Leave ==
    /\ live
    /\ live' = FALSE
    /\ UNCHANGED <<session, plan, reported>>

Next == Create \/ Launch \/ Replan \/ Report \/ Close \/ Leave

Spec == Init /\ [][Next]_lifeVars

-----------------------------------------------------------------------------
\* A session is closed only with the report of its current plan in place.
ClosedIsReported == session = "closed" => reported

\* A closed session is never reopened, replanned or run again.
StaysClosed == session = "closed" => session' = "closed" /\ plan' = plan /\ (live' => live)

ClosedIsFinal == [][StaysClosed]_lifeVars
=============================================================================
