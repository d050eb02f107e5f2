------------------------------ MODULE ToolTable ------------------------------
(***************************************************************************)
(* The tools of the agents: which permissions a tool asks for              *)
(* (runtime/loop/handlers.py), which tools a phase shows and which it      *)
(* executes (runtime/phase.py, ToolRegistry.bind), and which calls may run *)
(* beside each other.  A tool is known by its name; its schema and its     *)
(* description are left out.                                               *)
(***************************************************************************)

Readonly == "readonly"
Write == "write"
Pro == "pro"
Permissions == {Readonly, Write, Pro}

-----------------------------------------------------------------------------
(* build_base_specs: the tools by the permissions that have them *)

EverybodysTools ==
    {"read_file", "list_dir", "glob_files", "grep_files", "web_search", "memory_search",
     "memory_grep", "memory_read", "read_profile", "sandbox_convert_to_markdown",
     "submit_halt", "submit_brief"}

WritersTools ==
    {"write_file", "patch_file", "host_bash", "sandbox_execute_bash",
     "sandbox_execute_code", "sandbox_file_operations"}

ProTools ==
    {"notes_read", "memory_forget", "load_skill", "load_skill_reference",
     "use_skill_script", "write_acceptance", "submit_spec", "submit_dispatch",
     "submit_judge", "submit_remember", "submit_summary"}

Tools == EverybodysTools \cup WritersTools \cup ProTools

Has(permission, tool) ==
    \/ tool \in EverybodysTools
    \/ tool \in WritersTools /\ permission \in {Write, Pro}
    \/ tool \in ProTools /\ permission = Pro

\* Those of SCHEMA_TOOLS that an agent may have.
SchemaTools ==
    {"submit_spec", "submit_dispatch", "submit_brief", "submit_judge", "submit_remember",
     "submit_summary", "submit_halt"}

\* Tools whose handler changes something that outlives the call: files, the
\* sandbox, the cards, the skill of the lab.
ChangingTools ==
    WritersTools \cup {"memory_forget", "load_skill", "use_skill_script", "write_acceptance"}

\* Handlers that await nothing: nothing else happens while they run.
Immediate == {"load_skill", "load_skill_reference", "use_skill_script", "write_acceptance"}

-----------------------------------------------------------------------------
(* PHASES *)

MainLine == {"spec", "dispatch", "judge", "summary"}
Kinds == MainLine \cup {"remember_judge", "takeover", "worker"}

ExitTool(kind) ==
    [ spec |-> "submit_spec", dispatch |-> "submit_dispatch", judge |-> "submit_judge",
      summary |-> "submit_summary", remember_judge |-> "submit_remember",
      takeover |-> "submit_brief", worker |-> "submit_brief" ][kind]

\* extra_tools
Extra(kind) == IF kind \in {"remember_judge", "takeover"} THEN {"submit_halt"} ELSE {}

\* PRO_READONLY_TOOLS, shown in every phase of the main line.
Shown ==
    (EverybodysTools \ {"submit_brief"})
    \cup (ProTools \ {"use_skill_script", "submit_remember"})

\* _PRO_RO_BASE
ReadBase == Shown \ (SchemaTools \cup {"write_acceptance"})

\* allow_tools; a phase without such a list allows every tool.
Allowed(kind) ==
    IF kind \in MainLine
    THEN ReadBase \cup {ExitTool(kind)}
         \cup (IF kind \in {"dispatch", "judge"} THEN {"write_acceptance"} ELSE {})
         \cup (IF kind # "summary" THEN {"submit_halt"} ELSE {})
    ELSE IF kind = "remember_judge" THEN {"read_file", "list_dir", "glob_files"}
    ELSE Tools

\* permission: a worker has that of its wave.
NodePermission(kind, ofWave) == IF kind = "worker" THEN ofWave ELSE Pro

\* visible: the role that narrows the tools of an agent of its own.
VisibleRole(kind, permission) ==
    IF kind \in MainLine \cup {"remember_judge"} THEN Readonly ELSE permission

\* halt_allowed: whether the loop may force submit_halt.
HaltAllowed(kind) ==
    IF kind \in MainLine \cup {"remember_judge"}
    THEN "submit_halt" \in Allowed(kind) ELSE "submit_halt" \in Extra(kind)

\* Slip: every wave may write.
WritesInAnyWave(n) == Write

\* permission_for_wave
PermissionForWave(n) == IF n = 1 THEN Write ELSE Readonly

-----------------------------------------------------------------------------
(* ToolRegistry *)

Named(kind) == Extra(kind) \cup {ExitTool(kind)}

\* bind without a list to show: what the role has, and what is named.
OwnTools(kind, permission) ==
    {t \in Tools : /\ Has(VisibleRole(kind, permission), t) \/ t \in Named(kind)
                   /\ t \notin SchemaTools \/ t \in Named(kind)
                   /\ t \in Allowed(kind) \cup Named(kind)}

\* What the phase executes.
Executable(kind, permission) ==
    IF kind \in MainLine THEN Shown \cap Allowed(kind) ELSE OwnTools(kind, permission)

\* openai_tools: what the model sees.
Advertised(kind, permission) ==
    IF kind \in MainLine THEN Shown ELSE Executable(kind, permission)

\* parallelizable
Parallelizable(kind, permission, tool) ==
    /\ tool \in Executable(kind, permission) \ SchemaTools
    /\ Has(Readonly, tool)

\* run_calls accepts the exit tool of the phase, and submit_halt where the
\* phase executes it.
Submittable(kind, permission) ==
    {ExitTool(kind)} \cup ({"submit_halt"} \cap Executable(kind, permission))

\* _execute: whether the call of a tool that is no submit reaches its handler.
Runs(kind, permission, tool) ==
    /\ tool \in Executable(kind, permission) \ SchemaTools
    /\ Has(permission, tool)
=============================================================================
