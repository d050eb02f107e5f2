-------------------------- MODULE ToolCalls_proofs --------------------------
(***************************************************************************)
(* Proofs about the tables of tools, for every phase and permission, and   *)
(* about the calls, for any number of workers, any tools they ask for and  *)
(* any container.                                                          *)
(***************************************************************************)
EXTENDS ToolCalls, FiniteSetTheorems, TLAPS

USE ToolCallsAssumption

-----------------------------------------------------------------------------
(* The tables of tools and phases *)

USE DEF Readonly, Write, Pro

\* A phase can always end: it executes the tool that ends it (phase.py, submit_tool).
THEOREM ExitToolRuns ==
    ASSUME NEW kind \in Kinds, NEW permission \in Permissions
    PROVE  ExitTool(kind) \in Executable(kind, permission)
<1>1. CASE kind \in MainLine
  BY <1>1 DEF MainLine, Executable, Shown, Allowed, ExitTool, ProTools, EverybodysTools
<1>2. CASE kind \in {"remember_judge", "takeover", "worker"}
  <2>1. ExitTool(kind) \in Tools \cap Named(kind)
    BY <1>2 DEF ExitTool, Tools, Named, EverybodysTools, ProTools
  <2>. QED  BY <1>2, <2>1 DEF MainLine, Executable, OwnTools
<1>. QED  BY <1>1, <1>2 DEF Kinds

\* What a phase executes is among what it shows (registry.py, bind).
THEOREM ShownIsEnough ==
    ASSUME NEW kind \in Kinds, NEW permission \in Permissions
    PROVE  Executable(kind, permission) \subseteq Advertised(kind, permission)
BY DEF Executable, Advertised

\* The check of the role in _execute refuses nothing that bind has left, whatever
\* the wave: a tool that a phase executes is one its permission has.
THEOREM RoleIsChecked ==
    ASSUME NEW kind \in Kinds, NEW ofWave \in {Readonly, Write},
           NEW tool \in Executable(kind, NodePermission(kind, ofWave)) \ SchemaTools
    PROVE  Has(NodePermission(kind, ofWave), tool)
<1>1. tool \in Tools
  BY DEF Executable, OwnTools, Shown, Tools
<1>2. CASE kind # "worker"
  BY <1>1, <1>2 DEF NodePermission, Has, Tools
<1>3. CASE kind = "worker"
  <2>1. tool \in OwnTools("worker", ofWave)
    BY <1>3 DEF Executable, NodePermission, MainLine
  <2>2. tool \notin Named("worker")
    BY DEF Named, Extra, ExitTool, SchemaTools
  <2>. QED  BY <1>3, <2>1, <2>2 DEF OwnTools, VisibleRole, NodePermission, MainLine
<1>. QED  BY <1>2, <1>3

\* Workers of a wave of several, which have read-only tools, change nothing.
THEOREM ReadersChangeNothing ==
    ASSUME NEW tool, Runs("worker", Readonly, tool)
    PROVE  tool \notin ChangingTools
BY DEF Runs, Has, EverybodysTools, WritersTools, ProTools, ChangingTools

\* Pro on the main line never has a tool of the workers that writes, and writes
\* acceptance files in Dispatch and Judge only.
THEOREM MainLineWritesNoFile ==
    ASSUME NEW kind \in MainLine, NEW tool \in Executable(kind, Pro)
    PROVE  /\ tool \notin WritersTools
           /\ tool = "write_acceptance" => kind \in {"dispatch", "judge"}
<1>1. tool \in Shown \cap Allowed(kind)
  BY DEF Executable
<1>2. tool \notin WritersTools
  BY <1>1 DEF Shown, EverybodysTools, ProTools, WritersTools
<1>3. CASE kind \in {"spec", "summary"}
  <2>1. "write_acceptance" \notin Allowed(kind)
    BY <1>3 DEF MainLine, Allowed, ReadBase, ExitTool
  <2>. QED  BY <1>1, <1>2, <2>1
<1>. QED  BY <1>2, <1>3 DEF MainLine

\* Calls that may run beside each other change nothing (calls.py).
THEOREM ParallelChangesNothing ==
    ASSUME NEW kind, NEW permission, NEW tool,
           Parallelizable(kind, permission, tool)
    PROVE  tool \notin ChangingTools
BY DEF Parallelizable, Has, EverybodysTools, WritersTools, ProTools, ChangingTools

\* submit_halt is accepted in exactly the phases that the prompt of Pro names, and
\* the loop may force it in those but one: Remember-Judge allows a list of tools
\* that does not name it, though it shows and executes it.
THEOREM HaltIsOffered ==
    ASSUME NEW kind \in Kinds, NEW ofWave \in {Readonly, Write}
    PROVE  /\ "submit_halt" \in Submittable(kind, NodePermission(kind, ofWave))
                  <=> kind \in {"remember_judge", "spec", "dispatch", "judge", "takeover"}
           /\ HaltAllowed(kind)
                  <=> kind \in {"spec", "dispatch", "judge", "takeover"}
<1>1. "submit_halt" \in SchemaTools \cap Tools
  BY DEF SchemaTools, Tools, EverybodysTools
<1>2. ExitTool(kind) # "submit_halt"
  BY DEF ExitTool, Kinds, MainLine
<1>3. "submit_halt" \in Shown /\ "submit_halt" \notin ReadBase
  BY DEF Shown, ReadBase, SchemaTools, EverybodysTools
<1>4. CASE kind \in MainLine
  <2>1. "submit_halt" \in Allowed(kind) <=> kind # "summary"
    BY <1>3, <1>4 DEF Allowed, MainLine, ExitTool
  <2>2. Executable(kind, NodePermission(kind, ofWave)) = Shown \cap Allowed(kind)
    BY <1>4 DEF Executable
  <2>3. HaltAllowed(kind) <=> "submit_halt" \in Allowed(kind)
    BY <1>4 DEF HaltAllowed
  <2>. QED  BY <1>2, <1>3, <1>4, <2>1, <2>2, <2>3 DEF Submittable, MainLine
<1>5. CASE kind \in {"remember_judge", "takeover"}
  <2>1. "submit_halt" \in Named(kind) /\ "submit_halt" \in Extra(kind)
    BY <1>5 DEF Named, Extra
  <2>2. "submit_halt" \in OwnTools(kind, NodePermission(kind, ofWave))
    BY <1>1, <2>1 DEF OwnTools
  <2>3. HaltAllowed(kind) <=> kind = "takeover"
    BY <1>5, <2>1 DEF HaltAllowed, MainLine, Allowed
  <2>. QED  BY <1>5, <2>2, <2>3 DEF Submittable, Executable, MainLine
<1>6. CASE kind = "worker"
  <2>1. "submit_halt" \notin Named(kind) /\ "submit_halt" \notin Extra(kind)
    BY <1>6 DEF Named, Extra, ExitTool
  <2>2. "submit_halt" \notin OwnTools(kind, NodePermission(kind, ofWave))
    BY <1>1, <2>1 DEF OwnTools
  <2>3. ~HaltAllowed(kind)
    BY <1>6, <2>1 DEF HaltAllowed, MainLine
  <2>. QED  BY <1>2, <1>6, <2>2, <2>3 DEF Submittable, Executable, MainLine
<1>. QED  BY <1>4, <1>5, <1>6 DEF Kinds

-----------------------------------------------------------------------------
(* Types and the lock *)

\* Only tools of the sandbox go to the lock and beyond.
AtSandbox ==
    \A c \in Calls : call[c].at \in {"lock", "open", "sent"} => call[c].tool \in SandboxTools

LockInv == TypeOK /\ OneCallAtTheSandbox /\ AtSandbox

LEMMA Constants ==
    /\ Nobody \notin Calls /\ EditorsCall \in Calls
    /\ NoCall \in CallRecords /\ NoCall.at = "idle"
    /\ \A tool \in Tools \cup {Gate} :
          /\ Begun(tool) \in CallRecords
          /\ Begun(tool).at \in {"host", "lock"} /\ Begun(tool).tool = tool
    /\ SandboxTools \subseteq Tools \cup {Gate}
<1>1. Nobody \notin Calls /\ EditorsCall \in Calls
  BY DEF Nobody, EditorsCall, Calls, Agents, Editor, None, ProAgent
<1>2. NoCall \in CallRecords /\ NoCall.at = "idle"
  BY DEF NoCall, CallRecords
<1>3. SandboxTools \subseteq Tools \cup {Gate}
  BY DEF SandboxTools, Tools, EverybodysTools, WritersTools
<1>. QED  BY <1>1, <1>2, <1>3 DEF Begun, NoCall, CallRecords

LEMMA LockInit == Init => LockInv
BY Constants
   DEF Init, LockInv, TypeOK, OneCallAtTheSandbox, AtSandbox, NoLab, Permissions, Pro

\* Ending calls keeps types, and the lock with the calls.
LEMMA DroppedKeeps ==
    ASSUME LockInv, NEW cs \in SUBSET Calls, Dropped(cs)
    PROVE  /\ call' \in [Calls -> CallRecords] /\ lock' \in Calls \cup {Nobody}
           /\ left' \subseteq ChangingTools
           /\ OneCallAtTheSandbox' /\ AtSandbox'
<1>1. \A c \in cs : GoesOn(c) \subseteq ChangingTools
  BY DEF GoesOn
<1>. QED  BY <1>1, Constants DEF Dropped, LockInv, TypeOK, OneCallAtTheSandbox, AtSandbox

\* So does an answer to one call, which is not at the sandbox any more.
LEMMA AnsweredKeeps ==
    ASSUME LockInv, NEW c \in Calls, NEW result \in {"answer", "tool_error", "unreachable"},
           call' = Answered(c, result)
    PROVE  /\ call' \in [Calls -> CallRecords]
           /\ call'[c].at = "done"
           /\ \A d \in Calls \ {c} : call'[d] = call[d]
<1> DEFINE done == [NoCall EXCEPT !.at = "done", !.result = result]
<1>1. done \in CallRecords /\ done.at = "done"
  BY Constants DEF CallRecords
<1>2. call' = [call EXCEPT ![c] = done] /\ call \in [Calls -> CallRecords]
  BY DEF Answered, LockInv, TypeOK
<1>. QED  BY <1>1, <1>2

LEMMA FailsKeeps ==
    ASSUME LockInv, NEW c \in Calls, lock = c, Fails(c)
    PROVE  /\ call' \in [Calls -> CallRecords] /\ failures' \in [SandboxTools -> 0 .. MaxFailures]
           /\ OneCallAtTheSandbox' /\ AtSandbox' /\ lock' = Nobody
<1> DEFINE t == Counter(call[c].tool)
           n == IF failures[t] < MaxFailures THEN failures[t] + 1 ELSE MaxFailures
<1>1. t \in SandboxTools
  BY DEF Counter, SandboxTools, LockInv, OneCallAtTheSandbox, AtSandbox
<1>2. n \in 0 .. MaxFailures
  BY <1>1 DEF LockInv, TypeOK
<1>3. failures' \in [SandboxTools -> 0 .. MaxFailures]
  <2>1. failures' = [failures EXCEPT ![t] = n]
    BY DEF Fails
  <2>. QED  BY <1>1, <1>2, <2>1 DEF LockInv, TypeOK
<1>4. PICK result \in {"tool_error", "unreachable"} : call' = Answered(c, result)
  BY DEF Fails
<1>5. /\ call' \in [Calls -> CallRecords] /\ call'[c].at = "done"
      /\ \A d \in Calls \ {c} : call'[d] = call[d]
  BY <1>4, AnsweredKeeps
<1>6. lock' = Nobody
  BY DEF Fails
<1>7. OneCallAtTheSandbox'
  BY <1>5, <1>6, Constants DEF OneCallAtTheSandbox, LockInv
<1>8. AtSandbox'
  BY <1>5 DEF AtSandbox, LockInv
<1>. QED
  BY <1>3, <1>5, <1>6, <1>7, <1>8

LEMMA LockLab ==
    ASSUME LockInv,
           \/ LabBegins \/ LabEnds
           \/ \E kind \in Phases, team \in SUBSET Agents : PhaseBegins(kind, team)
    PROVE  LockInv'
<1>1. CASE LabBegins
  <2>1. [t \in SandboxTools |-> 0] \in [SandboxTools -> 0 .. MaxFailures]
    OBVIOUS
  <2>. QED
    BY <1>1, <2>1 DEF LabBegins, LockInv, TypeOK, OneCallAtTheSandbox, AtSandbox, NoLab,
                      Permissions, Pro
<1>2. CASE LabEnds
  <2>1. OfTeam \in SUBSET Calls
    BY DEF OfTeam
  <2>2. lab' \in [on : BOOLEAN, down : BOOLEAN, kind : Kinds \cup {None},
                  permission : Permissions, team : SUBSET Agents]
    BY <1>2 DEF LabEnds, NoLab, Permissions, Pro
  <2>. QED
    BY <1>2, <2>1, <2>2, DroppedKeeps DEF LabEnds, LockInv, TypeOK
<1>3. ASSUME NEW kind \in Phases, NEW team \in SUBSET Agents, PhaseBegins(kind, team)
      PROVE  LockInv'
  <2>1. NodePermission(kind, PermissionForWave(Cardinality(team))) \in Permissions
    BY DEF NodePermission, PermissionForWave, Permissions
  <2>2. lab' \in [on : BOOLEAN, down : BOOLEAN, kind : Kinds \cup {None},
                  permission : Permissions, team : SUBSET Agents]
    BY <1>3, <2>1 DEF PhaseBegins, LockInv, TypeOK
  <2>. QED
    BY <1>3, <2>2 DEF PhaseBegins, LockInv, TypeOK, OneCallAtTheSandbox, AtSandbox
<1>. QED  BY <1>1, <1>2, <1>3

LEMMA LockAgents ==
    ASSUME LockInv,
           \/ \E a \in Agents : AgentStep(a)
           \/ EditorConverts \/ EditorReads
    PROVE  LockInv'
<1>1. ASSUME NEW a \in Agents, NEW n \in 1 .. MaxWave, NEW tools \in [1 .. n -> Asked],
             WaveOfCalls(a, tools)
      PROVE  LockInv'
  <2>1. \A s \in 1 .. n : tools[s] \in Tools
    OBVIOUS
  <2>2. DOMAIN tools = 1 .. n
    OBVIOUS
  <2>3. \A c \in Calls : \/ c[1] = a /\ c[2] \in 1 .. n /\ call'[c] = Begun(tools[c[2]])
                         \/ call'[c] = call[c]
    BY <1>1, <2>2 DEF WaveOfCalls
  <2>4. \A c \in Calls : c[1] = a => call[c].at = "idle"
    BY <1>1 DEF WaveOfCalls, Idle, OfAgent
  <2>5. call' \in [Calls -> CallRecords]
    BY <1>1, <2>1, <2>3, Constants DEF WaveOfCalls, LockInv, TypeOK
  <2>6. \A s \in 1 .. n : Begun(tools[s]).at = "lock" => tools[s] \in SandboxTools
    BY <2>1, Constants DEF Begun, NoCall
  <2>7. OneCallAtTheSandbox' /\ AtSandbox'
    BY <1>1, <2>1, <2>3, <2>4, <2>6, Constants
       DEF WaveOfCalls, LockInv, OneCallAtTheSandbox, AtSandbox
  <2>. QED  BY <1>1, <2>5, <2>7 DEF WaveOfCalls, LockInv, TypeOK
<1>2. ASSUME NEW c \in Calls, NEW tool \in SandboxTools, call[c].at = "idle",
             call' = [call EXCEPT ![c] = Begun(tool)],
             UNCHANGED <<lab, lock, session, failures, box, recreate, left>>
      PROVE  LockInv'
  <2>1. tool \in Tools \cup {Gate}
    BY Constants
  <2>2. Begun(tool) \in CallRecords /\ Begun(tool).at \in {"host", "lock"} /\ Begun(tool).tool = tool
    BY <2>1, Constants
  <2>. QED  BY <1>2, <2>2 DEF LockInv, TypeOK, OneCallAtTheSandbox, AtSandbox
<1>3. ASSUME NEW a \in Agents, GateCalls(a) PROVE LockInv'
  <2>1. <<a, 1>> \in Calls /\ call[<<a, 1>>].at = "idle"
    BY <1>3 DEF GateCalls, Idle, OfAgent, Calls
  <2>2. Gate \in SandboxTools
    BY DEF SandboxTools
  <2>. QED  BY <1>2, <1>3, <2>1, <2>2 DEF GateCalls
<1>4. ASSUME NEW a \in Agents, AnswersRead(a) PROVE LockInv'
  <2>1. OfTeam \in SUBSET Calls /\ OfAgent(a) \in SUBSET Calls
    BY DEF OfTeam, OfAgent
  <2>2. PICK cs \in SUBSET Calls : Dropped(cs)
    BY <1>4, <2>1 DEF AnswersRead
  <2>3. lab' \in [on : BOOLEAN, down : BOOLEAN, kind : Kinds \cup {None},
                  permission : Permissions, team : SUBSET Agents]
    BY ZenonT(60), <1>4 DEF AnswersRead, LockInv, TypeOK
  <2>. QED  BY <1>4, <2>2, <2>3, DroppedKeeps DEF AnswersRead, LockInv, TypeOK
<1>5. CASE EditorConverts
  <2>1. call[EditorsCall].at = "idle"
    BY <1>5, Constants DEF EditorConverts, Idle, OfAgent, EditorsCall
  <2>2. "sandbox_convert_to_markdown" \in SandboxTools
    BY DEF SandboxTools
  <2>. QED  BY <1>2, <1>5, <2>1, <2>2, Constants DEF EditorConverts
<1>6. CASE EditorReads
  <2>1. OfAgent(Editor) \in SUBSET Calls
    BY DEF OfAgent
  <2>. QED  BY <1>6, <2>1, DroppedKeeps DEF EditorReads, LockInv, TypeOK
<1>. QED  BY <1>1, <1>3, <1>4, <1>5, <1>6 DEF AgentStep

LEMMA LockCalls ==
    ASSUME LockInv, NEW c \in Calls, CallStep(c)
    PROVE  LockInv'
<1>1. CASE TakesLock(c)
  <2>1. call[c] \in CallRecords /\ box.state \in {"up", "hung", "exited", "absent"}
    BY DEF LockInv, TypeOK
  <2>2. call' \in [Calls -> CallRecords]
    BY <1>1, <2>1 DEF TakesLock, LockInv, TypeOK, CallRecords
  <2>. QED
    BY <1>1, <2>2, Constants DEF TakesLock, LockInv, TypeOK, OneCallAtTheSandbox, AtSandbox
<1>2. CASE Opens(c)
  <2>1. call[c] \in CallRecords /\ box.start \in Nat
    BY DEF LockInv, TypeOK
  <2>2. call' \in [Calls -> CallRecords]
    BY <1>2, <2>1 DEF Opens, LockInv, TypeOK, CallRecords
  <2>. QED
    BY <1>2, <2>2 DEF Opens, LockInv, TypeOK, OneCallAtTheSandbox, AtSandbox
<1>3. CASE Fails(c) /\ UNCHANGED session /\ call[c].at \in {"open", "sent"}
  <2>1. lock = c
    BY <1>3 DEF LockInv, OneCallAtTheSandbox
  <2>. QED  BY <1>3, <2>1, FailsKeeps DEF Fails, LockInv, TypeOK
<1>4. CASE Succeeds(c)
  <2>1. lock = c /\ Counter(call[c].tool) \in SandboxTools
    BY <1>4 DEF Succeeds, LockInv, OneCallAtTheSandbox, AtSandbox, Counter, SandboxTools
  <2>2. failures' \in [SandboxTools -> 0 .. MaxFailures]
    BY <1>4, <2>1 DEF Succeeds, LockInv, TypeOK
  <2>3. call' = Answered(c, "answer")
    BY <1>4 DEF Succeeds
  <2>. QED
    BY <1>4, <2>1, <2>2, <2>3, AnsweredKeeps, Constants
       DEF Succeeds, LockInv, TypeOK, OneCallAtTheSandbox, AtSandbox
<1>5. CASE Raises(c) /\ ~call[c].retried
  <2>1. call[c] \in CallRecords
    BY DEF LockInv, TypeOK
  <2>2. call' \in [Calls -> CallRecords]
    BY <1>5, <2>1 DEF Raises, LockInv, TypeOK, CallRecords
  <2>3. TypeOK'
    BY <1>5, <2>2 DEF Raises, LockInv, TypeOK
  <2>4. /\ call'[c].at = "open" /\ call'[c].tool = call[c].tool
        /\ \A d \in Calls \ {c} : call'[d] = call[d]
    BY <1>5, <2>1 DEF Raises, LockInv, TypeOK, CallRecords
  <2>. QED
    BY <1>5, <2>3, <2>4 DEF Raises, LockInv, OneCallAtTheSandbox, AtSandbox
<1>6. CASE HostEnds(c)
  <2>1. PICK result \in {"answer", "unreachable"} : call' = Answered(c, result)
    BY <1>6 DEF HostEnds
  <2>. QED
    BY <1>6, <2>1, AnsweredKeeps
       DEF HostEnds, LockInv, TypeOK, OneCallAtTheSandbox, AtSandbox
<1>7. CASE TimesOut(c)
  <2>1. call' = Answered(c, "answer")
    BY <1>7 DEF TimesOut
  <2>2. GoesOn(c) \subseteq ChangingTools
    BY DEF GoesOn
  <2>. QED
    BY <1>7, <2>1, <2>2, AnsweredKeeps, Constants
       DEF TimesOut, LockInv, TypeOK, OneCallAtTheSandbox, AtSandbox
<1>. QED
  BY <1>1, <1>2, <1>3, <1>4, <1>5, <1>6, <1>7
     DEF CallStep, SandboxStep, OpenFails, Raises

LEMMA LockBox ==
    ASSUME LockInv, BoxStep \/ \E t \in ChangingTools : LeftEnds(t)
    PROVE  LockInv'
<1>1. Troubled \in [Calls -> CallRecords]
      /\ \A c \in Calls : Troubled[c].at = call[c].at /\ Troubled[c].tool = call[c].tool
  <2>1. \A c \in Calls : call[c] \in CallRecords
    BY DEF LockInv, TypeOK
  <2>2. \A c \in Calls : LET d == [call[c] EXCEPT !.trouble = TRUE] IN
            d \in CallRecords /\ d.at = call[c].at /\ d.tool = call[c].tool
    BY <2>1 DEF CallRecords
  <2>. QED  BY <2>1, <2>2 DEF Troubled
<1>2. \A b \in Started : b \in [state : {"up", "hung", "exited", "absent"}, start : Nat]
  BY DEF Started, LockInv, TypeOK
<1>3. ASSUME NEW state \in {"exited", "hung"}, BoxFails(state) PROVE LockInv'
  BY <1>1, <1>3 DEF BoxFails, LockInv, TypeOK, OneCallAtTheSandbox, AtSandbox
<1>4. CASE BoxRecovers \/ StartedFromOutside
  BY <1>2, <1>4
     DEF BoxRecovers, StartedFromOutside, LockInv, TypeOK, OneCallAtTheSandbox, AtSandbox
<1>5. CASE RecreateRemoves
  BY <1>1, <1>5 DEF RecreateRemoves, LockInv, TypeOK, OneCallAtTheSandbox, AtSandbox
<1>6. CASE RecreateResets
  <2>1. [t \in SandboxTools |-> 0] \in [SandboxTools -> 0 .. MaxFailures]
    OBVIOUS
  <2>. QED
    BY <1>6, <2>1 DEF RecreateResets, LockInv, TypeOK, OneCallAtTheSandbox, AtSandbox
<1>7. CASE RecreateEnsures
  BY <1>2, <1>7 DEF RecreateEnsures, LockInv, TypeOK, OneCallAtTheSandbox, AtSandbox
<1>8. ASSUME NEW t \in ChangingTools, LeftEnds(t) PROVE LockInv'
  BY <1>8 DEF LeftEnds, LockInv, TypeOK, OneCallAtTheSandbox, AtSandbox
<1>. QED  BY <1>3, <1>4, <1>5, <1>6, <1>7, <1>8 DEF BoxStep

LEMMA LockStep == LockInv /\ [Next]_vars => LockInv'
<1>1. LockInv /\ UNCHANGED vars => LockInv'
  BY DEF vars, LockInv, TypeOK, OneCallAtTheSandbox, AtSandbox
<1>. QED  BY <1>1, LockLab, LockAgents, LockCalls, LockBox DEF Next

LEMMA LockHolds == Spec => []LockInv
BY LockInit, LockStep, PTL DEF Spec

\* Every variable keeps its type.
THEOREM TypesHold == Spec => []TypeOK
BY LockHolds, PTL DEF LockInv

\* The session of the process is used by one call at a time, and the lock is held by
\* that call, however calls end (client.py, call_mcp_tool).
THEOREM SessionIsUsedByOne == Spec => []OneCallAtTheSandbox
BY LockHolds, PTL DEF LockInv

-----------------------------------------------------------------------------
(* Who may change things, and beside whom *)

\* Only the team of the lab calls; an agent runs what its phase executes, beside
\* others what may run beside others; a team of several has tools that read.
TeamInv ==
    /\ ~lab.on => lab.team = {}
    /\ \A c \in Calls : c[1] \in Agents \ lab.team => call[c].at = "idle"
    /\ \A c \in OfTeam : Running(c) =>
          call[c].tool = Gate \/ Runs(lab.kind, lab.permission, call[c].tool)
    /\ \A c, d \in OfTeam : c # d /\ c[1] = d[1] /\ Running(c) /\ Running(d) =>
          Parallelizable(lab.kind, lab.permission, call[c].tool)
    /\ \A a, b \in lab.team : a # b => lab.kind = "worker" /\ lab.permission = Readonly

LEMMA TeamInit == Init => TeamInv
BY DEF Init, TeamInv, NoLab, NoCall, OfTeam, Running

LEMMA TeamGives == TypeOK /\ TeamInv => WritesRunAlone
<1> SUFFICES ASSUME TypeOK, TeamInv, NEW c \in OfTeam, NEW d \in OfTeam,
                    c # d, Running(c), Running(d)
             PROVE  call[c].tool \notin ChangingTools
  BY DEF WritesRunAlone
<1>1. CASE c[1] = d[1]
  <2>1. Parallelizable(lab.kind, lab.permission, call[c].tool)
    BY <1>1 DEF TeamInv
  <2>. QED  BY <2>1, ParallelChangesNothing
<1>2. CASE c[1] # d[1]
  <2>1. lab.kind = "worker" /\ lab.permission = Readonly
    BY <1>2 DEF TeamInv, OfTeam
  <2>2. call[c].tool = Gate \/ Runs("worker", Readonly, call[c].tool)
    BY <2>1 DEF TeamInv
  <2>3. Gate \notin ChangingTools
    BY DEF Gate, ChangingTools, WritersTools
  <2>. QED  BY <2>2, <2>3, ReadersChangeNothing
<1>. QED  BY <1>1, <1>2

\* Calls that only go on, or end, change nothing of it.
LEMMA QuietStep ==
    ASSUME TypeOK, TeamInv, lab' = lab,
           \A c \in Calls : c[1] # Editor =>
               /\ call'[c].at \in {"host", "lock", "open", "sent"}
                     => Running(c) /\ call'[c].tool = call[c].tool
               /\ call[c].at = "idle" => call'[c].at = "idle"
    PROVE  TeamInv'
<1>1. Editor \notin Agents
  BY DEF Agents, Editor, ProAgent
<1>2. lab.team \subseteq Agents
  BY DEF TypeOK
<1>3. OfTeam' = OfTeam /\ \A c \in OfTeam : c \in Calls /\ c[1] \in lab.team /\ c[1] # Editor
  BY <1>1, <1>2 DEF OfTeam
<1>4. \A c \in OfTeam : Running(c)' => Running(c) /\ call'[c].tool = call[c].tool
  BY <1>3 DEF Running
<1>. QED  BY <1>1, <1>3, <1>4 DEF TeamInv

\* When every agent is idle, only the size of the team matters.
LEMMA IdleTeam ==
    ASSUME \A c \in Calls : c[1] \in Agents => call'[c].at = "idle",
           lab'.team \subseteq Agents, ~lab'.on => lab'.team = {},
           \A a, b \in lab'.team : a # b => lab'.kind = "worker" /\ lab'.permission = Readonly
    PROVE  TeamInv'
BY DEF TeamInv, OfTeam, Running

LEMMA TeamLab ==
    ASSUME LockInv, TeamInv,
           \/ LabBegins \/ LabEnds
           \/ \E kind \in Phases, team \in SUBSET Agents : PhaseBegins(kind, team)
    PROVE  TeamInv'
<1>1. CASE LabBegins
  BY <1>1, IdleTeam DEF LabBegins, NoLab, TeamInv
<1>2. CASE LabEnds
  <2>1. \A c \in Calls : c[1] \in Agents => call'[c].at = "idle"
    BY <1>2, Constants DEF LabEnds, Dropped, OfTeam, TeamInv
  <2>. QED  BY <1>2, <2>1, IdleTeam DEF LabEnds, NoLab
<1>3. ASSUME NEW kind \in Phases, NEW team \in SUBSET Agents, PhaseBegins(kind, team)
      PROVE  TeamInv'
  <2>1. \A c \in Calls : c[1] \in Agents => call'[c].at = "idle"
    BY <1>3 DEF PhaseBegins, Idle, OfAgent, TeamInv
  <2>2. ASSUME NEW a \in team, NEW b \in team, a # b
        PROVE  kind = "worker" /\ NodePermission(kind, PermissionForWave(Cardinality(team))) = Readonly
    <3>0. IF kind = "worker" THEN team \subseteq Workers /\ team # {} ELSE team = {ProAgent}
      BY <1>3 DEF PhaseBegins
    <3>1. kind = "worker" /\ team \subseteq Workers
      BY <2>2, <3>0
    <3>2. IsFiniteSet(team)
      BY <3>1, FS_Subset
    <3>3. Cardinality(team) # 1
      BY <2>2, <3>2, FS_Singleton
    <3>. QED  BY <3>1, <3>3 DEF NodePermission, PermissionForWave
  <2>3. /\ lab'.team = team /\ lab'.kind = kind /\ lab'.on
        /\ lab'.permission = NodePermission(kind, PermissionForWave(Cardinality(team)))
    BY <1>3 DEF PhaseBegins, LockInv, TypeOK
  <2>. QED  BY <2>1, <2>2, <2>3, IdleTeam
<1>. QED  BY <1>1, <1>2, <1>3

LEMMA TeamAgents ==
    ASSUME LockInv, TeamInv, NEW a \in Agents, AgentStep(a)
    PROVE  TeamInv'
<1>1. ASSUME NEW n \in 1 .. MaxWave, NEW tools \in [1 .. n -> Asked], WaveOfCalls(a, tools)
      PROVE  TeamInv'
  <2>1. /\ DOMAIN tools = 1 .. n /\ n \in Nat /\ Len(tools) = n
        /\ \A s \in 1 .. n : tools[s] \in Tools
    OBVIOUS
  <2>2. lab' = lab /\ OfTeam' = OfTeam
    BY <1>1 DEF WaveOfCalls, OfTeam
  <2>3. \A c \in OfTeam : c[1] # a => call'[c] = call[c]
    BY <1>1 DEF WaveOfCalls, OfTeam
  <2>4. \A c \in OfTeam : c[1] = a /\ Running(c)' =>
            c[2] \in 1 .. n /\ call'[c].tool = tools[c[2]]
    BY <1>1, <2>1, Constants DEF WaveOfCalls, OfTeam, Running, Idle, OfAgent
  <2>5. \A c \in Calls : c[1] \in Agents \ lab.team => call'[c].at = "idle"
    BY <1>1 DEF WaveOfCalls, TeamInv
  <2>6. \A c \in OfTeam : Running(c)' =>
            call'[c].tool = Gate \/ Runs(lab.kind, lab.permission, call'[c].tool)
    <3>1. \A s \in 1 .. n : Runs(lab.kind, lab.permission, tools[s])
      BY <1>1, <2>1 DEF WaveOfCalls
    <3>2. \A c \in OfTeam : c[1] = a /\ Running(c)' =>
              Runs(lab.kind, lab.permission, call'[c].tool)
      BY <2>4, <3>1
    <3>3. \A c \in OfTeam : c[1] # a /\ Running(c)' =>
              call'[c].tool = Gate \/ Runs(lab.kind, lab.permission, call'[c].tool)
      BY <2>3 DEF TeamInv, Running
    <3>. QED  BY <3>2, <3>3
  <2>7. \A c, d \in OfTeam : c # d /\ c[1] = d[1] /\ Running(c)' /\ Running(d)' =>
            Parallelizable(lab.kind, lab.permission, call'[c].tool)
    <3>1. ASSUME NEW c \in OfTeam, NEW d \in OfTeam, c # d, c[1] = a, d[1] = a,
                 Running(c)', Running(d)'
          PROVE  Parallelizable(lab.kind, lab.permission, call'[c].tool)
      <4>1. c[2] \in 1 .. n /\ d[2] \in 1 .. n /\ call'[c].tool = tools[c[2]]
        BY <2>4, <3>1
      <4>2. c[2] # d[2]
        <5>1. c = <<c[1], c[2]>> /\ d = <<d[1], d[2]>>
          BY DEF OfTeam, Calls
        <5>. QED  BY <3>1, <5>1
      <4>3. Len(tools) # 1
        BY <2>1, <4>1, <4>2
      <4>. QED  BY <1>1, <2>1, <4>1, <4>3 DEF WaveOfCalls, IsWave
    <3>2. ASSUME NEW c \in OfTeam, NEW d \in OfTeam, c # d, c[1] = d[1], c[1] # a,
                 Running(c)', Running(d)'
          PROVE  Parallelizable(lab.kind, lab.permission, call'[c].tool)
      BY <2>3, <3>2 DEF TeamInv, Running
    <3>. QED  BY <3>1, <3>2
  <2>. QED  BY <2>2, <2>5, <2>6, <2>7 DEF TeamInv
<1>2. CASE GateCalls(a)
  <2>1. lab' = lab /\ OfTeam' = OfTeam /\ a \in lab.team
    BY <1>2 DEF GateCalls, OfTeam
  <2>2. /\ call'[<<a, 1>>].tool = Gate
        /\ \A c \in Calls : c # <<a, 1>> => call'[c] = call[c]
    <3>1. <<a, 1>> \in Calls
      BY DEF Calls
    <3>. QED  BY <1>2, <3>1, Constants DEF GateCalls, LockInv, TypeOK
  <2>3. \A c \in Calls : c[1] = a => call[c].at = "idle"
    BY <1>2 DEF GateCalls, Idle, OfAgent
  <2>4. \A c \in OfTeam : c # <<a, 1>> /\ Running(c)' => Running(c) /\ c[1] # a
    BY <2>2, <2>3 DEF OfTeam, Running
  <2>. QED  BY <2>1, <2>2, <2>4 DEF TeamInv, OfTeam, Running
<1>3. CASE AnswersRead(a)
  <2>1. CASE Dropped(OfAgent(a)) /\ UNCHANGED lab
    <3>1. \A c \in Calls : call'[c] = call[c] \/ call'[c].at = "idle"
      BY <2>1, Constants DEF Dropped
    <3>. QED  BY <2>1, <3>1, QuietStep DEF LockInv, Running
  <2>2. CASE Dropped(OfTeam) /\ lab' = [lab EXCEPT !.down = TRUE, !.team = {}]
    <3>1. \A c \in Calls : c[1] \in Agents => call'[c].at = "idle"
      BY <2>2, Constants DEF Dropped, OfTeam, TeamInv
    <3>2. lab'.team = {}
      BY <2>2 DEF LockInv, TypeOK
    <3>. QED  BY <3>1, <3>2, IdleTeam
  <2>. QED  BY <1>3, <2>1, <2>2 DEF AnswersRead
<1>. QED  BY <1>1, <1>2, <1>3 DEF AgentStep

LEMMA TeamCalls ==
    ASSUME LockInv, TeamInv, NEW c \in Calls, CallStep(c)
    PROVE  TeamInv'
<1>1. call \in [Calls -> CallRecords] /\ call[c] \in CallRecords /\ box.start \in Nat
  BY DEF LockInv, TypeOK
<1>2. ASSUME NEW result \in {"answer", "tool_error", "unreachable"}, lab' = lab,
             Running(c), call' = Answered(c, result)
      PROVE  TeamInv'
  BY <1>2, AnsweredKeeps, QuietStep DEF LockInv, Running
<1>3. CASE TakesLock(c) \/ Opens(c) \/ (Raises(c) /\ ~call[c].retried)
  <2>1. /\ call'[c].tool = call[c].tool /\ Running(c) /\ lab' = lab
        /\ \A d \in Calls \ {c} : call'[d] = call[d]
    BY <1>1, <1>3 DEF TakesLock, Opens, Raises, Running, CallRecords
  <2>. QED  BY <2>1, QuietStep DEF LockInv, Running
<1>4. CASE Fails(c) /\ Running(c)
  <2>1. PICK result \in {"tool_error", "unreachable"} : call' = Answered(c, result)
    BY <1>4 DEF Fails
  <2>. QED  BY <1>2, <1>4, <2>1 DEF Fails
<1>5. CASE Succeeds(c) \/ TimesOut(c)
  BY <1>2, <1>5 DEF Succeeds, TimesOut, Running
<1>6. CASE HostEnds(c)
  <2>1. PICK result \in {"answer", "unreachable"} : call' = Answered(c, result)
    BY <1>6 DEF HostEnds
  <2>. QED  BY <1>2, <1>6, <2>1 DEF HostEnds, Running
<1>. QED
  BY <1>3, <1>4, <1>5, <1>6 DEF CallStep, SandboxStep, OpenFails, Raises, Running

LEMMA TeamOthers ==
    ASSUME LockInv, TeamInv,
           \/ EditorConverts \/ EditorReads \/ BoxStep
           \/ \E t \in ChangingTools : LeftEnds(t)
           \/ UNCHANGED vars
    PROVE  TeamInv'
<1>1. Editor \notin Agents
  BY DEF Agents, Editor, ProAgent
<1>2. \A c \in Calls : call[c] \in CallRecords
  BY DEF LockInv, TypeOK
<1>3. ASSUME lab' = lab, UNCHANGED call \/ call' = Troubled PROVE TeamInv'
  <2>1. \A c \in Calls : call'[c].at = call[c].at /\ call'[c].tool = call[c].tool
    BY <1>2, <1>3 DEF Troubled, CallRecords
  <2>. QED  BY <1>3, <2>1, QuietStep DEF LockInv, Running
<1>4. CASE EditorConverts \/ EditorReads
  <2>1. \A c \in Calls : c[1] # Editor => call'[c] = call[c]
    BY <1>4, Constants
       DEF EditorConverts, EditorReads, Dropped, OfAgent, EditorsCall, LockInv, TypeOK
  <2>2. lab' = lab
    BY <1>4 DEF EditorConverts, EditorReads
  <2>. QED  BY <2>1, <2>2, QuietStep DEF LockInv, Running
<1>5. CASE BoxStep
  BY <1>3, <1>5 DEF BoxStep, BoxFails, BoxRecovers, StartedFromOutside, RecreateRemoves,
                    RecreateResets, RecreateEnsures
<1>6. CASE \E t \in ChangingTools : LeftEnds(t)
  BY <1>3, <1>6 DEF LeftEnds
<1>. QED  BY <1>3, <1>4, <1>5, <1>6 DEF vars

LEMMA TeamStep == LockInv /\ TeamInv /\ [Next]_vars => TeamInv'
BY TeamLab, TeamAgents, TeamCalls, TeamOthers DEF Next

\* A call that changes something runs beside no other call of the lab, whichever
\* tools the agents ask for and however many workers a wave has (calls.py, waves;
\* scheduler.py, permission_for_wave).
THEOREM WritersRunAlone == Spec => []WritesRunAlone
<1>1. Spec => []TeamInv
  BY LockHolds, TeamInit, TeamStep, PTL DEF Spec
<1>. QED  BY <1>1, TypesHold, TeamGives, PTL

-----------------------------------------------------------------------------
(* What a call has of a sandbox that works *)

\* A call that has had no trouble since it took the lock has a container that is up, and
\* its second attempt the session of this start.  It takes the lock for its first.
Served(r) ==
    /\ r.at = "lock" => ~r.retried
    /\ r.at \in {"open", "sent"} /\ ~r.trouble =>
          /\ box.state = "up"
          /\ r.at = "sent" /\ r.retried => r.session = box.start

HealthInv == \A c \in Calls : Served(call[c])

Failed(c) == call[c].result \in {"tool_error", "unreachable"}

\* What the action property says of a step; a tool of the host fails only by a text that
\* holds the mark.
FailsInTrouble ==
    \A c \in Calls :
        Failed(c)' /\ call[c].result = None /\ (MarkInFiles => call[c].at # "host")
            => call[c].trouble

LEMMA HealthInit == Init => HealthInv
BY DEF Init, HealthInv, Served, NoCall

\* While the container stays as it is: calls that begin, or that are over.
LEMMA HealthOfLab ==
    ASSUME HealthInv, box' = box,
           \A c \in Calls : \/ call'[c] = call[c]
                            \/ /\ call'[c].at \notin {"open", "sent"} /\ ~call'[c].retried
                               /\ call'[c].result = None
    PROVE  HealthInv' /\ FailsInTrouble
<1>1. \A c \in Calls : call'[c] = call[c] => Served(call[c])'
  BY DEF HealthInv, Served
<1>2. \A c \in Calls : call'[c].at \notin {"open", "sent"} /\ ~call'[c].retried
          => Served(call[c])'
  BY DEF Served
<1>3. HealthInv'
  BY <1>1, <1>2 DEF HealthInv
<1>4. FailsInTrouble
  BY DEF FailsInTrouble, Failed, None
<1>. QED  BY <1>3, <1>4

LEMMA HealthLab ==
    ASSUME LockInv, HealthInv,
           \/ LabBegins \/ LabEnds
           \/ \E kind \in Phases, team \in SUBSET Agents : PhaseBegins(kind, team)
           \/ \E a \in Agents : AgentStep(a)
           \/ EditorConverts \/ EditorReads
           \/ \E t \in ChangingTools : LeftEnds(t)
           \/ UNCHANGED vars
    PROVE  HealthInv' /\ FailsInTrouble
<1> DEFINE Fresh(r) == r.at \notin {"open", "sent"} /\ ~r.retried /\ r.result = None
<1>1. Fresh(NoCall) /\ \A tool : Fresh(Begun(tool))
  BY DEF NoCall, Begun
<1>2. ASSUME NEW cs \in SUBSET Calls, Dropped(cs)
      PROVE  \A c \in Calls : call'[c] = call[c] \/ Fresh(call'[c])
  BY <1>1, <1>2 DEF Dropped
<1>3. OfTeam \in SUBSET Calls /\ \A a : OfAgent(a) \in SUBSET Calls
  BY DEF OfTeam, OfAgent
<1>4. CASE UNCHANGED call /\ box' = box
  BY <1>4, HealthOfLab
<1>5. CASE LabEnds \/ EditorReads
  <2>1. PICK cs \in SUBSET Calls : Dropped(cs)
    BY <1>3, <1>5 DEF LabEnds, EditorReads
  <2>. QED  BY <1>2, <1>5, <2>1, HealthOfLab DEF LabEnds, EditorReads
<1>6. ASSUME NEW c \in Calls, NEW tool, call' = [call EXCEPT ![c] = Begun(tool)], box' = box
      PROVE  HealthInv' /\ FailsInTrouble
  <2>1. \A d \in Calls : call'[d] = call[d] \/ call'[d] = Begun(tool)
    BY <1>6 DEF LockInv, TypeOK
  <2>. QED  BY <1>1, <1>6, <2>1, HealthOfLab
<1>7. ASSUME NEW a \in Agents, AgentStep(a) PROVE HealthInv' /\ FailsInTrouble
  <2>1. ASSUME NEW n \in 1 .. MaxWave, NEW tools \in [1 .. n -> Asked], WaveOfCalls(a, tools)
        PROVE  HealthInv' /\ FailsInTrouble
    <3>1. \A c \in Calls : call'[c] = call[c] \/ call'[c] = Begun(tools[c[2]])
      BY <2>1 DEF WaveOfCalls
    <3>. QED  BY <1>1, <2>1, <3>1, HealthOfLab DEF WaveOfCalls
  <2>2. CASE GateCalls(a)
    <3>1. <<a, 1>> \in Calls
      BY DEF Calls
    <3>. QED  BY <1>6, <2>2, <3>1 DEF GateCalls
  <2>3. CASE AnswersRead(a)
    <3>1. PICK cs \in SUBSET Calls : Dropped(cs)
      BY <1>3, <2>3 DEF AnswersRead
    <3>. QED  BY <1>2, <2>3, <3>1, HealthOfLab DEF AnswersRead
  <2>. QED  BY <1>7, <2>1, <2>2, <2>3 DEF AgentStep
<1>8. CASE EditorConverts
  <2>1. EditorsCall \in Calls
    BY DEF EditorsCall, Calls
  <2>. QED  BY <1>6, <1>8, <2>1 DEF EditorConverts
<1>. QED
  BY <1>4, <1>5, <1>7, <1>8 DEF LabBegins, PhaseBegins, LeftEnds, vars

LEMMA HealthBox ==
    ASSUME LockInv, HealthInv, BoxStep
    PROVE  HealthInv' /\ FailsInTrouble
<1>1. \A c \in Calls : call[c] \in CallRecords
  BY DEF LockInv, TypeOK
<1>2. \A c \in Calls : call[c].at \in {"open", "sent"} <=> lock = c
  BY DEF LockInv, OneCallAtTheSandbox
\* Whoever is at the sandbox is in trouble, so the container may become anything.
<1>3. ASSUME call' = Troubled PROVE HealthInv' /\ FailsInTrouble
  <2>1. \A c \in Calls : lock = c => Served(call[c])'
    BY <1>1, <1>2, <1>3 DEF Troubled, Served, CallRecords
  <2>2. \A c \in Calls : lock # c => Served(call[c])'
    BY <1>2, <1>3 DEF Troubled, Served, HealthInv
  <2>3. \A c \in Calls : call'[c].result = call[c].result
    BY <1>1, <1>3 DEF Troubled, CallRecords
  <2>. QED  BY <2>1, <2>2, <2>3 DEF HealthInv, FailsInTrouble, Failed, None
<1>4. ASSUME UNCHANGED call, box.state # "up" \/ box' = box PROVE HealthInv' /\ FailsInTrouble
  <2>1. HealthInv'
    BY <1>4 DEF HealthInv, Served
  <2>. QED  BY <1>4, <2>1 DEF FailsInTrouble, Failed, None
<1>5. \A b \in Started : box.state # "up"
  BY DEF Started
<1>. QED
  BY <1>3, <1>4, <1>5
     DEF BoxStep, BoxFails, BoxRecovers, StartedFromOutside, RecreateRemoves,
         RecreateResets, RecreateEnsures

LEMMA HealthCalls ==
    ASSUME LockInv, HealthInv, NEW c \in Calls, CallStep(c)
    PROVE  HealthInv' /\ FailsInTrouble
<1>1. call \in [Calls -> CallRecords] /\ call[c] \in CallRecords
  BY DEF LockInv, TypeOK
<1>2. Served(call[c])
  BY DEF HealthInv
<1>3. ASSUME \A d \in Calls \ {c} : call'[d] = call[d], box' = box, Served(call[c])',
             \/ call[c].trouble \/ ~Failed(c)' \/ call'[c].result = call[c].result
             \/ MarkInFiles /\ call[c].at = "host"
      PROVE  HealthInv' /\ FailsInTrouble
  <2>1. \A d \in Calls \ {c} : Served(call[d])'
    BY <1>3 DEF HealthInv, Served
  <2>2. HealthInv'
    BY <1>3, <2>1 DEF HealthInv
  <2>3. \A d \in Calls \ {c} : call'[d].result = call[d].result
    BY <1>3
  <2>. QED  BY <1>3, <2>2, <2>3 DEF FailsInTrouble, Failed, None
<1>4. ASSUME NEW result \in {"answer", "tool_error", "unreachable"},
             call' = Answered(c, result), box' = box,
             call[c].trouble \/ result = "answer" \/ (MarkInFiles /\ call[c].at = "host")
      PROVE  HealthInv' /\ FailsInTrouble
  <2>1. call'[c] = [NoCall EXCEPT !.at = "done", !.result = result]
    BY <1>1, <1>4 DEF Answered
  <2>2. Served(call[c])' /\ (result = "answer" => ~Failed(c)')
    BY <2>1 DEF Served, NoCall, Failed
  <2>. QED  BY <1>3, <1>4, <2>2, AnsweredKeeps
<1>5. ASSUME call[c].trouble, Fails(c) PROVE HealthInv' /\ FailsInTrouble
  <2>1. PICK result \in {"tool_error", "unreachable"} : call' = Answered(c, result)
    BY <1>5 DEF Fails
  <2>. QED  BY <1>4, <1>5, <2>1 DEF Fails
<1>6. CASE TakesLock(c)
  <2>1. /\ \A d \in Calls \ {c} : call'[d] = call[d]
        /\ call'[c].retried = call[c].retried /\ call'[c].trouble = (box.state # "up")
        /\ call'[c].result = call[c].result /\ call'[c].at \in {"open", "sent"}
    BY <1>1, <1>6 DEF TakesLock, CallRecords
  <2>2. call[c].at = "lock" /\ box' = box
    BY <1>6 DEF TakesLock
  <2>3. Served(call[c])'
    BY <1>2, <2>1, <2>2 DEF Served
  <2>. QED  BY <1>3, <2>1, <2>2, <2>3
<1>7. CASE Opens(c)
  <2>1. /\ \A d \in Calls \ {c} : call'[d] = call[d]
        /\ call'[c].at = "sent" /\ call'[c].session = box.start
        /\ call'[c].trouble = call[c].trouble /\ call'[c].result = call[c].result
        /\ box' = box /\ box.state = "up"
    BY <1>1, <1>7 DEF Opens, CallRecords
  <2>2. Served(call[c])'
    BY <2>1 DEF Served
  <2>. QED  BY <1>3, <2>1, <2>2
<1>8. CASE OpenFails(c)
  BY <1>2, <1>5, <1>8 DEF OpenFails, Served
<1>9. CASE Raises(c) /\ call[c].retried
  BY <1>2, <1>5, <1>9 DEF Raises, Reached, Served
\* The first attempt: the container is up, whatever session was found.
<1>10. CASE Raises(c) /\ ~call[c].retried
  <2>1. /\ \A d \in Calls \ {c} : call'[d] = call[d]
        /\ call'[c].at = "open"
        /\ call'[c].trouble = call[c].trouble /\ call'[c].result = call[c].result
        /\ box' = box /\ call[c].at = "sent"
    BY <1>1, <1>10 DEF Raises, CallRecords
  <2>2. Served(call[c])'
    BY <1>2, <2>1 DEF Served
  <2>. QED  BY <1>3, <2>1, <2>2
<1>11. CASE Succeeds(c) \/ TimesOut(c)
  BY <1>4, <1>11 DEF Succeeds, TimesOut
<1>12. CASE HostEnds(c)
  <2>1. PICK result \in {"answer"} \cup (IF MarkInFiles THEN {"unreachable"} ELSE {}) :
            call' = Answered(c, result)
    BY <1>12 DEF HostEnds
  <2>. QED  BY <1>4, <1>12, <2>1 DEF HostEnds
<1>. QED
  BY <1>6, <1>7, <1>8, <1>9, <1>10, <1>11, <1>12 DEF CallStep, SandboxStep

LEMMA HealthHolds ==
    /\ Spec => []HealthInv
    /\ Spec => [][FailsInTrouble]_vars
<1>1. LockInv /\ HealthInv /\ [Next]_vars => HealthInv' /\ FailsInTrouble
  BY HealthLab, HealthBox, HealthCalls DEF Next
<1>. QED  BY <1>1, HealthInit, LockHolds, PTL DEF Spec

\* A call of the sandbox that had a working container from the lock to its end does not
\* fail, whatever session it found and whatever goes on beside it (client.py,
\* call_mcp_tool).
THEOREM SecondAttemptsHeal ==
    Spec => [][\A c \in Calls :
                  call'[c].result \in {"tool_error", "unreachable"} /\ call[c].result = None
                    /\ call[c].at # "host" => call[c].trouble]_vars
<1>1. FailsInTrouble =>
        \A c \in Calls :
            call'[c].result \in {"tool_error", "unreachable"} /\ call[c].result = None
              /\ call[c].at # "host" => call[c].trouble
  BY DEF FailsInTrouble, Failed
<1>. QED  BY <1>1, HealthHolds, PTL

\* The same of every call, for tools of the host that return no text with the mark of the
\* unreachable sandbox (sandbox_tools.py, is_sandbox_unreachable).
THEOREM WorkingBoxAnswers == ASSUME MarkInFiles = FALSE PROVE Spec => HealthyBoxAnswers
<1>1. FailsInTrouble =>
        \A c \in Calls : call'[c].result \in {"tool_error", "unreachable"}
                           /\ call[c].result = None => call[c].trouble
  BY DEF FailsInTrouble, Failed
<1>. QED  BY <1>1, HealthHolds, PTL DEF HealthyBoxAnswers
=============================================================================
