-------------------------------- MODULE Wave --------------------------------
(***************************************************************************)
(* What run_wave (runtime/lab/scheduler.py) promises the step that calls   *)
(* it, and what module LabFlow assumes of a wave: every brief is committed *)
(* once; a blocked brief is made up for an assignment only after a sibling *)
(* called the wave off, and no worker's own brief is committed after it;   *)
(* the wave returns only when every assignment has a brief.                *)
(***************************************************************************)
CONSTANT Workers

VARIABLES
    briefs,     \* the committed briefs
    wave        \* "open", "returned", or "left" by an exception

waveVars == <<briefs, wave>>

NoBrief == "none"       \* nothing committed
Plain == "plain"        \* a worker's brief, or the one made of its exception
CallsOff == "calls_off" \* a brief with spec_invalid or sandbox_unreachable
Blocked == "blocked"    \* made up for a worker a sibling called off

Init ==
    /\ briefs = [w \in Workers |-> NoBrief]
    /\ wave = "open"

Returns(w, brief) ==
    /\ wave = "open" /\ briefs[w] = NoBrief
    /\ brief \in {Plain, CallsOff}
    /\ \A v \in Workers : briefs[v] # Blocked
    /\ briefs' = [briefs EXCEPT ![w] = brief]
    /\ UNCHANGED wave

Block(w) ==
    /\ wave = "open" /\ briefs[w] = NoBrief
    /\ \E v \in Workers : briefs[v] = CallsOff
    /\ briefs' = [briefs EXCEPT ![w] = Blocked]
    /\ UNCHANGED wave

Return ==
    /\ wave = "open"
    /\ \A w \in Workers : briefs[w] # NoBrief
    /\ wave' = "returned"
    /\ UNCHANGED briefs

\* The run was stopped, or a commit failed.
Leave ==
    /\ wave = "open"
    /\ wave' = "left"
    /\ UNCHANGED briefs

Next ==
    \/ \E w \in Workers, brief \in {Plain, CallsOff} : Returns(w, brief)
    \/ \E w \in Workers : Block(w)
    \/ Return \/ Leave

Spec == Init /\ [][Next]_waveVars
=============================================================================
