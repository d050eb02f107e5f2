------------------------------ MODULE ToolCalls ------------------------------
(***************************************************************************)
(* The calls of tools while they run: the waves of one turn                *)
(* (runtime/loop/calls.py), the deadline of a call (registry.py), the      *)
(* threads of the host tools, and the sandbox behind one session of the    *)
(* process (mcp_client/client.py, tools/sandbox_tools.py,                  *)
(* infra/sandbox_boot.py).                                                 *)
(*                                                                         *)
(* Several agents call at a time: the workers of a wave, or Pro, and an    *)
(* edit of a skill that converts samples.  The container stops, hangs and  *)
(* starts again whenever it likes.  What the model asks for is free within *)
(* the tools that its phase executes.                                      *)
(***************************************************************************)
EXTENDS ToolTable, Naturals, Sequences, FiniteSets

CONSTANTS
    Workers,
    MaxWave,            \* bound of the model: calls of one wave of calls
    MaxAtOnce,          \* bound of the model: calls at a time, of all agents
    Asked,              \* bound of the model: tools the agents ask for
    Phases,             \* bound of the model: phases that are tried
    MaxFailures,        \* _SANDBOX_MAX_FAILURES
    MaxStarts,          \* bound of the model: times the container is started
    MarkInFiles         \* whether a tool may return text that holds the mark
                        \* of the unreachable sandbox

ProAgent == "pro_agent"
Editor == "editor"      \* propose_edit, on behalf of a person
Agents == Workers \cup {ProAgent}
Calls == (Agents \cup {Editor}) \X (1 .. MaxWave)

None == "none"
EditorsCall == <<Editor, 1>>
Nobody == <<None, 0>>
Gate == "gate"          \* sandbox_run of the acceptance gate
SandboxTools == {"sandbox_convert_to_markdown", "sandbox_execute_bash",
                 "sandbox_execute_code", "sandbox_file_operations", Gate}

ASSUME ToolCallsAssumption ==
    /\ IsFiniteSet(Workers) /\ {ProAgent, Editor, None} \cap Workers = {}
    /\ Asked \subseteq Tools /\ Phases \subseteq Kinds
    /\ MaxWave \in Nat \ {0} /\ MaxAtOnce \in Nat \ {0}
    /\ MaxFailures \in Nat \ {0} /\ MaxStarts \in Nat \ {0}
    /\ MarkInFiles \in BOOLEAN

VARIABLES
    lab,        \* the run of a lab and the phase it is in
    call,       \* the calls
    lock,       \* who holds _call_lock
    session,    \* _session: the start of the container it was opened to
    failures,   \* _sandbox_failures
    box,        \* the container
    recreate,   \* recreate_sandbox
    left        \* changing tools that go on although their call was given up

vars == <<lab, call, lock, session, failures, box, recreate, left>>

NoCall == [ tool |-> None, at |-> "idle", session |-> 0, retried |-> FALSE,
            trouble |-> FALSE, result |-> None ]
NoLab == [on |-> FALSE, down |-> FALSE, kind |-> None, permission |-> Pro, team |-> {}]

Init ==
    /\ lab = NoLab
    /\ call = [c \in Calls |-> NoCall]
    /\ lock = Nobody
    /\ session = 0
    /\ failures = [t \in SandboxTools |-> 0]
    /\ box = [state |-> "absent", start |-> 0]
    /\ recreate = "off"
    /\ left = {}

Running(c) == call[c].at \in {"host", "lock", "open", "sent"}
OfAgent(a) == {c \in Calls : c[1] = a}
Busy == {c \in Calls : call[c].at # "idle"}
OfTeam == {c \in Calls : c[1] \in lab.team}

-----------------------------------------------------------------------------
(* The lab *)

\* A thread goes on without its caller, and so does a command that was sent.
GoesOn(c) ==
    IF call[c].at \in {"host", "sent"}
    THEN {call[c].tool} \cap (ChangingTools \ Immediate) ELSE {}

\* Calls that end without an answer; a lock is released.
Dropped(cs) ==
    /\ call' = [c \in Calls |-> IF c \in cs THEN NoCall ELSE call[c]]
    /\ lock' = IF lock \in cs THEN Nobody ELSE lock
    /\ left' = left \cup UNION {GoesOn(c) : c \in cs}

\* _begin of run and of resume
LabBegins ==
    /\ ~lab.on
    /\ lab' = [NoLab EXCEPT !.on = TRUE]
    /\ failures' = [t \in SandboxTools |-> 0]
    /\ UNCHANGED <<call, lock, session, box, recreate, left>>

Idle(a) == \A c \in OfAgent(a) : call[c].at = "idle"

\* Pro or a wave of workers takes its turn; without a sandbox only the Summary.
PhaseBegins(kind, team) ==
    /\ lab.on /\ \A a \in lab.team : Idle(a)
    /\ lab.down => kind = "summary"
    /\ IF kind = "worker" THEN team \subseteq Workers /\ team # {} ELSE team = {ProAgent}
    /\ lab' = [lab EXCEPT !.kind = kind, !.team = team,
                   !.permission = NodePermission(kind, PermissionForWave(Cardinality(team)))]
    /\ UNCHANGED <<call, lock, session, failures, box, recreate, left>>

\* A stop, or the end of the lab.
LabEnds ==
    /\ lab.on
    /\ lab' = NoLab
    /\ Dropped(OfTeam)
    /\ UNCHANGED <<session, failures, box, recreate>>

-----------------------------------------------------------------------------
(* One wave of calls: several that may run beside each other, or one *)

\* Slip: what comes first decides for its neighbours.
FirstIsParallel(tools) == \E s \in DOMAIN tools : Parallelizable(lab.kind, lab.permission, tools[s])

IsWave(tools) ==
    \/ Len(tools) = 1
    \/ \A s \in DOMAIN tools : Parallelizable(lab.kind, lab.permission, tools[s])

Begun(tool) ==
    [NoCall EXCEPT !.tool = tool, !.at = IF tool \in SandboxTools THEN "lock" ELSE "host"]

WaveOfCalls(a, tools) ==
    /\ a \in lab.team /\ Idle(a)
    /\ IsWave(tools)
    /\ Cardinality(Busy) + Len(tools) <= MaxAtOnce
    /\ \A s \in DOMAIN tools : Runs(lab.kind, lab.permission, tools[s])
    /\ call' = [c \in Calls |-> IF c[1] = a /\ c[2] \in DOMAIN tools
                                THEN Begun(tools[c[2]]) ELSE call[c]]
    /\ UNCHANGED <<lab, lock, session, failures, box, recreate, left>>

\* The gate of a worker that is done, or the one that is run again for Pro.
GateCalls(a) ==
    /\ a \in lab.team /\ Idle(a) /\ ~lab.down
    /\ Cardinality(Busy) < MaxAtOnce
    /\ call' = [call EXCEPT ![<<a, 1>>] = Begun(Gate)]
    /\ UNCHANGED <<lab, lock, session, failures, box, recreate, left>>

\* edit_skill: refused while a lab runs, but one may begin meanwhile.
EditorConverts ==
    /\ ~lab.on
    /\ Idle(Editor) /\ Cardinality(Busy) < MaxAtOnce
    /\ call' = [call EXCEPT ![EditorsCall] = Begun("sandbox_convert_to_markdown")]
    /\ UNCHANGED <<lab, lock, session, failures, box, recreate, left>>

\* The answers of the wave are read.  An agent that was told that the sandbox is
\* gone gives up, and with it its wave.
AnswersRead(a) ==
    /\ a \in lab.team
    /\ \A c \in OfAgent(a) : ~Running(c)
    /\ \E c \in OfAgent(a) : call[c].at = "done"
    /\ IF \E c \in OfAgent(a) : call[c].result = "unreachable"
       THEN lab' = [lab EXCEPT !.down = TRUE, !.team = {}] /\ Dropped(OfTeam)
       ELSE Dropped(OfAgent(a)) /\ UNCHANGED lab
    /\ UNCHANGED <<session, failures, box, recreate>>

EditorReads ==
    /\ call[EditorsCall].at = "done"
    /\ Dropped(OfAgent(Editor))
    /\ UNCHANGED <<lab, session, failures, box, recreate>>

-----------------------------------------------------------------------------
(* One call *)

\* The text of a timeout is an answer like others.
Answered(c, result) == [call EXCEPT ![c] = [NoCall EXCEPT !.at = "done", !.result = result]]

\* is_sandbox_unreachable looks for the mark in the text of any tool.
HostEnds(c) ==
    /\ call[c].at = "host"
    /\ \E result \in {"answer"} \cup (IF MarkInFiles THEN {"unreachable"} ELSE {}) :
          call' = Answered(c, result)
    /\ UNCHANGED <<lab, lock, session, failures, box, recreate, left>>

\* call_mcp_tool: the lock, then a session.
TakesLock(c) ==
    /\ call[c].at = "lock" /\ lock = Nobody
    /\ lock' = c
    /\ call' = [call EXCEPT ![c].at = IF session = 0 THEN "open" ELSE "sent",
                            ![c].session = session,
                            ![c].trouble = box.state # "up"]
    /\ UNCHANGED <<lab, session, failures, box, recreate, left>>

\* _open_session
Opens(c) ==
    /\ call[c].at = "open" /\ box.state = "up"
    /\ session' = box.start
    /\ call' = [call EXCEPT ![c].at = "sent", ![c].session = box.start]
    /\ UNCHANGED <<lab, lock, failures, box, recreate, left>>

Counter(tool) == IF tool = Gate THEN "sandbox_execute_bash" ELSE tool

\* call_sandbox: an exception that reached it.  The count goes no further than
\* it is looked at.
Fails(c) ==
    LET t == Counter(call[c].tool)
        n == IF failures[t] < MaxFailures THEN failures[t] + 1 ELSE MaxFailures
    IN  /\ failures' = [failures EXCEPT ![t] = n]
        /\ call' = Answered(c, IF n >= MaxFailures THEN "unreachable" ELSE "tool_error")
        /\ lock' = Nobody
        /\ UNCHANGED <<lab, box, recreate, left>>

OpenFails(c) ==
    /\ call[c].at = "open" /\ box.state # "up"
    /\ Fails(c) /\ UNCHANGED session

Reached(c) == box.state = "up" /\ call[c].session = box.start

Succeeds(c) ==
    /\ call[c].at = "sent" /\ Reached(c)
    /\ failures' = [failures EXCEPT ![Counter(call[c].tool)] = 0]
    /\ call' = Answered(c, "answer")
    /\ lock' = Nobody
    /\ UNCHANGED <<lab, session, box, recreate, left>>

\* Slip: the second attempt finds the session of the first.
RaisesKeepingSession(c) ==
    /\ call[c].at = "sent" /\ ~Reached(c)
    /\ IF call[c].retried
       THEN Fails(c) /\ UNCHANGED session
       ELSE /\ call' = [call EXCEPT ![c].retried = TRUE]
            /\ UNCHANGED <<lab, lock, session, failures, box, recreate, left>>

\* The session is dropped and the call made once more.
Raises(c) ==
    /\ call[c].at = "sent" /\ ~Reached(c)
    /\ IF call[c].retried
       THEN Fails(c) /\ UNCHANGED session
       ELSE /\ session' = 0
            /\ call' = [call EXCEPT ![c].at = "open", ![c].retried = TRUE]
            /\ UNCHANGED <<lab, lock, failures, box, recreate, left>>

\* Slip: a call that is cancelled keeps the lock.
TimesOutHolding(c) ==
    /\ Running(c) /\ c[1] # Editor /\ call[c].tool \notin Immediate
    /\ call' = Answered(c, "answer")
    /\ left' = left \cup GoesOn(c)
    /\ UNCHANGED <<lab, lock, session, failures, box, recreate>>

\* wait_for around the handler and around sandbox_run, the wait for the lock
\* included; an edit has no deadline.
TimesOut(c) ==
    /\ Running(c) /\ c[1] # Editor /\ call[c].tool \notin Immediate
    /\ call' = Answered(c, "answer")
    /\ lock' = IF lock = c THEN Nobody ELSE lock
    /\ left' = left \cup GoesOn(c)
    /\ UNCHANGED <<lab, session, failures, box, recreate>>

LeftEnds(t) ==
    /\ t \in left
    /\ left' = left \ {t}
    /\ UNCHANGED <<lab, call, lock, session, failures, box, recreate>>

-----------------------------------------------------------------------------
(* The container *)

\* Whoever holds the lock now has had trouble.
Troubled == [c \in Calls |-> IF lock = c THEN [call[c] EXCEPT !.trouble = TRUE] ELSE call[c]]

\* It is stopped, or answers no more.
BoxFails(state) ==
    /\ box.state = "up"
    /\ box' = [box EXCEPT !.state = state]
    /\ call' = Troubled
    /\ UNCHANGED <<lab, lock, session, failures, recreate, left>>

BoxRecovers ==
    /\ box.state = "hung"
    /\ box' = [box EXCEPT !.state = "up"]
    /\ UNCHANGED <<lab, call, lock, session, failures, recreate, left>>

\* docker start of a container that exited, docker run where there is none: the
\* sessions of an earlier start are unknown to it.
Started ==
    IF box.state \in {"absent", "exited"} /\ box.start < MaxStarts
    THEN {[state |-> "up", start |-> box.start + 1]} ELSE {}

\* When the server starts, or by hand.
StartedFromOutside ==
    /\ box' \in Started
    /\ UNCHANGED <<lab, call, lock, session, failures, recreate, left>>

\* recreate_sandbox in the thread of done, without the lock: remove, reset, ensure.
\* What docker does not do is logged.
RecreateRemoves ==
    /\ recreate = "off" /\ ~lab.on
    /\ recreate' = "removed"
    /\ \/ box' = [box EXCEPT !.state = "absent"] /\ call' = Troubled
       \/ UNCHANGED <<box, call>>
    /\ UNCHANGED <<lab, lock, session, failures, left>>

RecreateResets ==
    /\ recreate = "removed"
    /\ recreate' = "reset"
    /\ session' = 0
    /\ failures' = [t \in SandboxTools |-> 0]
    /\ UNCHANGED <<lab, call, lock, box, left>>

\* ensure_sandbox: one that runs is waited for, and any of it may fail.
RecreateEnsures ==
    /\ recreate = "reset"
    /\ recreate' = "off"
    /\ box' \in {box} \cup Started
    /\ UNCHANGED <<lab, call, lock, session, failures, left>>

-----------------------------------------------------------------------------
SandboxStep(c) == Opens(c) \/ OpenFails(c) \/ Succeeds(c) \/ Raises(c)

CallStep(c) == TakesLock(c) \/ SandboxStep(c) \/ HostEnds(c) \/ TimesOut(c)

AgentStep(a) ==
    \/ \E n \in 1 .. MaxWave : \E tools \in [1 .. n -> Asked] : WaveOfCalls(a, tools)
    \/ GateCalls(a) \/ AnswersRead(a)

BoxStep ==
    \/ \E state \in {"exited", "hung"} : BoxFails(state)
    \/ BoxRecovers \/ StartedFromOutside
    \/ RecreateRemoves \/ RecreateResets \/ RecreateEnsures

Next ==
    \/ LabBegins \/ LabEnds
    \/ \E kind \in Phases, team \in SUBSET Agents : PhaseBegins(kind, team)
    \/ \E a \in Agents : AgentStep(a)
    \/ EditorConverts \/ EditorReads
    \/ \E c \in Calls : CallStep(c)
    \/ \E t \in ChangingTools : LeftEnds(t)
    \/ BoxStep

Spec == Init /\ [][Next]_vars

\* The deadline of whoever holds the lock passes, the conversion of an edit gets the
\* lock in its turn, and the sandbox answers its request or the request gives up.
HolderTimesOut == \E c \in Calls : lock = c /\ TimesOut(c)

Fairness ==
    /\ WF_vars(HolderTimesOut)
    /\ SF_vars(TakesLock(EditorsCall)) /\ WF_vars(SandboxStep(EditorsCall))

FairSpec == Spec /\ Fairness

-----------------------------------------------------------------------------
(* Properties *)

CallRecords ==
    [ tool : Tools \cup {Gate, None}, at : {"idle", "host", "lock", "open", "sent", "done"},
      session : Nat, retried : BOOLEAN, trouble : BOOLEAN,
      result : {None, "answer", "tool_error", "unreachable"} ]

\* Every variable keeps its type.
TypeOK ==
    /\ lab \in [ on : BOOLEAN, down : BOOLEAN, kind : Kinds \cup {None},
                 permission : Permissions, team : SUBSET Agents ]
    /\ call \in [Calls -> CallRecords]
    /\ lock \in Calls \cup {Nobody}
    /\ session \in Nat
    /\ failures \in [SandboxTools -> 0 .. MaxFailures]
    /\ box \in [state : {"up", "hung", "exited", "absent"}, start : Nat]
    /\ recreate \in {"off", "removed", "reset"}
    /\ left \subseteq ChangingTools

\* A call that changes something runs while no other call of the lab does, of
\* whichever agent (calls.py: writes are a wave of their own; phase.py: several
\* workers have read-only tools).  What its caller gave up on may go on beside it.
WritesRunAlone ==
    \A c, d \in OfTeam :
        c # d /\ Running(c) /\ Running(d) => call[c].tool \notin ChangingTools

\* The session is used by one call at a time, the one that holds the lock.
OneCallAtTheSandbox ==
    \A c \in Calls : call[c].at \in {"open", "sent"} <=> lock = c

\* A call that had a working sandbox from the lock to its end does not fail, nor
\* does it end the lab, whatever session it found: the second attempt heals it.
HealthyBoxAnswers ==
    [][\A c \in Calls : call'[c].result \in {"tool_error", "unreachable"}
                           /\ call[c].result = None => call[c].trouble]_vars

\* The conversion of an edit comes to an end.  It has no deadline itself, and may
\* wait for a lock that the calls of a lab hold one after the other: each of those
\* has one, and gives the lock back when it is cancelled.
EditsEnd == Running(EditorsCall) ~> ~Running(EditorsCall)
=============================================================================
