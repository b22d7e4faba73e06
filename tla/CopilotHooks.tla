---------------------------- MODULE CopilotHooks ----------------------------
(***************************************************************************)
(* The Copilot CLI adapter.                                                *)
(***************************************************************************)
EXTENDS ToolCalls

Families == {"shell", "read", "edit", "write", "web", "mcp", "blank"}
ToolHooks == {"PreToolUse", "PermissionRequest", "PostToolUse",
              "PostToolUseFailure"}
StopHooks == {"AgentStop", "SubagentStop"}
QuietHooks == {"ErrorOccurred", "Notification", "PreCompact"}

Inputs ==
    {WithCall(h, c) : h \in ToolHooks, c \in Calls(Families)}
    \cup {Detailed(h, d) : h \in StopHooks \cup {"SessionEnd"},
                           d \in {"complete", "error"}}
    \cup {Plain(h) : h \in QuietHooks \cup
             {"SessionStart", "UserPromptSubmitted", "UserPromptTransformed",
              "SubagentStart"}}

is_adjudication(hook) ==
    hook \in {"PreToolUse", "PermissionRequest", "UserPromptTransformed"}

-----------------------------------------------------------------------------
Ok == NoOpinion
BlockTool == Says("permissionDecision", "deny")
PermissionAllow == Says("behavior", "allow")
PermissionDeny == Says("behavior", "deny")
BlockContinuation == Says("decision", "block")
ReplacePrompt == Says("modifiedTransformedPrompt", "withheld")

action_from_tool(call) ==
    Arm([shell |-> "ShellCommand", read |-> "FileRead", edit |-> "FileEdit",
         write |-> "FileWrite"], call.name,
        IF web_fetch_for(call) # "None" THEN "WebFetch" ELSE "ToolCall")

output_from_tool(call) ==
    Arm([shell |-> "ShellCommandOutput", read |-> "FileOperationResult"],
        call.name,
        IF web_fetch_for(call) # "None" THEN "WebFetchOutput" ELSE "ToolOutput")

StopControl(detail) ==
    Control(IF detail = "complete" THEN "Completed" ELSE "Failed")

\* The decision is logged, a failure of the harness is not swallowed.
Unenforced(event, got) == Adjudicate(event, got, Whatever(Ok))

UserPromptTransformed(got) ==
    Adjudicate(UserPrompt, got, Refusing(ReplacePrompt, Ok))

PreToolUse(in, got) ==
    Adjudicate(Action(action_from_tool(in.call)), got,
        Refusing(BlockTool, Ok))

PermissionRequest(in, got) ==
    Adjudicate(Action(action_from_tool(in.call)), got,
        Refusing(PermissionDeny, PermissionAllow))

PostToolUse(in, got) ==
    Observe(Observation(output_from_tool(in.call)), got, Ok)

PostToolUseFailure(in, got) ==
    IF got = << >> THEN Send(Observation(output_from_tool(in.call)))
    ELSE Reply(Refuse(got[1], BlockContinuation, Ok))

handle_stop_like(in, got) ==
    Adjudicate(StopControl(in.detail), got,
        Refusing(BlockContinuation, Ok))

SubagentStart(got) == Unenforced(Control("Started"), got)

Handle(in, got) ==
    CASE in.hook = "PreToolUse" -> Validated(in.call, PreToolUse(in, got))
      [] in.hook = "PermissionRequest" ->
            Validated(in.call, PermissionRequest(in, got))
      [] in.hook = "PostToolUse" -> Validated(in.call, PostToolUse(in, got))
      [] in.hook = "PostToolUseFailure" ->
            Validated(in.call, PostToolUseFailure(in, got))
      [] in.hook = "UserPromptTransformed" -> UserPromptTransformed(got)
      [] in.hook = "UserPromptSubmitted" -> Unenforced(UserPrompt, got)
      [] in.hook = "SessionStart" -> Unenforced(Control("Started"), got)
      [] in.hook = "SubagentStart" -> SubagentStart(got)
      [] in.hook = "SessionEnd" -> Unenforced(StopControl(in.detail), got)
      [] in.hook \in StopHooks -> handle_stop_like(in, got)
      [] OTHER -> Reply(Ok)

Degraded(in, error) ==
    Arm([PreToolUse |-> BlockTool, PermissionRequest |-> PermissionDeny,
         UserPromptTransformed |-> ReplacePrompt], in.hook, Ok)

Enforces(in, error) == is_adjudication(in.hook)

\* is_deny, by the field Copilot reads on each hook.
Blocks(in, r) ==
    \/ in.hook = "PreToolUse" /\ r = BlockTool
    \/ in.hook = "PermissionRequest" /\ r = PermissionDeny
    \/ in.hook = "UserPromptTransformed" /\ r = ReplacePrompt
    \/ in.hook \in StopHooks \cup {"PostToolUseFailure"} /\ r = BlockContinuation
Asks(in, r) == FALSE
=============================================================================
