----------------------------- MODULE CodexHooks -----------------------------
(***************************************************************************)
(* The Codex adapter.  Codex does not enforce "ask": an escalation is a    *)
(* refusal.  Its observation hooks log a harness error and go on.          *)
(***************************************************************************)
EXTENDS ToolCalls

Families == AllFamilies
ToolHooks == {"PreToolUse", "PermissionRequest", "PostToolUse"}

Inputs ==
    {WithCall(h, c) : h \in ToolHooks, c \in Calls(Families)}
    \cup {Detailed(h, d) : h \in {"SubagentStop", "Stop"},
                           d \in {"active", "inactive", "silent"}}
    \cup {Plain(h) : h \in {"SessionStart", "SessionEnd", "SubagentStart",
                            "PreCompact", "PostCompact", "UserPromptSubmit"}}

is_adjudication(hook) ==
    hook \in {"PreToolUse", "PermissionRequest", "UserPromptSubmit"}

-----------------------------------------------------------------------------
Ok == NoOpinion
DenyTool == Says("permissionDecision", "deny")
AllowPermission == Says("decision.behavior", "allow")
DenyPermission == Says("decision.behavior", "deny")
Block == Says("decision", "block")

action_from_tool(call) == Classified(call)

PreToolUse(in, got) ==
    Validated(in.call, Adjudicate(Action(action_from_tool(in.call)), got,
                           Refusing(DenyTool, Ok)))

PermissionRequest(in, got) ==
    Validated(in.call, Adjudicate(Action(action_from_tool(in.call)), got,
                   Refusing(DenyPermission, AllowPermission)))

\* A refusal blocks, a failure of the harness does not.
Advise(event, got) ==
    IF got = << >> THEN Send(event) ELSE Reply(Refuse(got[1], Block, Ok))

PostToolUse(in, got) ==
    Validated(in.call, Advise(Observation(ClassifiedResult(in.call)), got))

UserPromptSubmit(got) ==
    Adjudicate(UserPrompt, got, Refusing(Block, Ok))

SubagentStop(in, got) ==
    IF in.detail = "active" THEN Reply(Ok)
    ELSE Advise(Observation("AssistantPrompt"), got)

\* A stop without a last message has nothing to submit.
Stop(in, got) ==
    IF in.detail \in {"active", "silent"} THEN Reply(Ok)
    ELSE Observe(Observation("AssistantPrompt"), got, Ok)

SessionStart(got) == Observe(Control("Started"), got, Ok)
SessionEnd(got) == Observe(Control("Completed"), got, Ok)
SubagentStart(got) == Observe(Control("Started"), got, Ok)
Compact(got) == Observe(Observation("Thought"), got, Ok)

Handle(in, got) ==
    CASE in.hook = "PreToolUse" -> PreToolUse(in, got)
      [] in.hook = "PermissionRequest" -> PermissionRequest(in, got)
      [] in.hook = "PostToolUse" -> PostToolUse(in, got)
      [] in.hook = "UserPromptSubmit" -> UserPromptSubmit(got)
      [] in.hook = "SubagentStop" -> SubagentStop(in, got)
      [] in.hook = "Stop" -> Stop(in, got)
      [] in.hook = "SessionStart" -> SessionStart(got)
      [] in.hook = "SessionEnd" -> SessionEnd(got)
      [] in.hook = "SubagentStart" -> SubagentStart(got)
      [] in.hook \in {"PreCompact", "PostCompact"} -> Compact(got)

Degraded(in, error) ==
    Arm([PreToolUse |-> DenyTool, PermissionRequest |-> DenyPermission,
         UserPromptSubmit |-> Block], in.hook, Ok)

Enforces(in, error) == is_adjudication(in.hook)

\* What Codex takes for a refusal of each hook (external).
Blocks(in, r) ==
    \/ in.hook = "PreToolUse" /\ r = DenyTool
    \/ in.hook = "PermissionRequest" /\ r = DenyPermission
    \/ in.hook \in {"PostToolUse", "UserPromptSubmit", "SubagentStop"}
       /\ r = Block
Asks(in, r) == FALSE
=============================================================================
