---------------------------- MODULE VscodeHooks ----------------------------
(***************************************************************************)
(* The VS Code adapter.  Its tools are known by name, whatever arguments   *)
(* they are given.                                                         *)
(***************************************************************************)
EXTENDS ToolCalls

Families == {"shell", "read", "write", "edit", "delete", "patch", "web",
             "mcp", "blank"}
QuietHooks == {"PreCompact", "SubagentStart", "SubagentStop", "Stop"}

Inputs ==
    {WithCall(h, c) : h \in {"PreToolUse", "PostToolUse"}, c \in Calls(Families)}
    \cup {WithMentions("UserPromptSubmit", n) : n \in 0..2}
    \cup {Plain(h) : h \in QuietHooks \cup {"SessionStart"}}

is_adjudication(hook) ==
    hook \in {"PreToolUse", "UserPromptSubmit", "PostToolUse"}

-----------------------------------------------------------------------------
Allow == NoOpinion
PreToolDeny == Says("permissionDecision", "deny")
PreToolAsk == Says("permissionDecision", "ask")
UserPromptDeny == Says("continue", "false")
PostToolBlock == Says("decision", "block")

FileActions == [edit |-> "FileEdit", patch |-> "FileEdit", write |-> "FileWrite",
                read |-> "FileRead", delete |-> "FileDelete"]

normalize_pre_tool_action(call) ==
    Arm([shell |-> "ShellCommand", web |-> "WebFetch"], call.name,
        Arm(FileActions, call.name, "ToolCall"))

ToolResult(call) ==
    IF call.name \in DOMAIN FileActions THEN "FileOperationResult"
    ELSE Arm([shell |-> "ShellCommandOutput", web |-> "WebFetchOutput"],
             call.name, "ToolOutput")

SessionStart(got) ==
    Adjudicate(Control("Started"), got, Whatever(Allow))

PreToolUse(in, got) ==
    Validated(in.call,
        Adjudicate(Action(normalize_pre_tool_action(in.call)), got,
            [Allow |-> Allow, Deny |-> PreToolDeny, Escalate |-> PreToolAsk]))

PostToolUse(in, got) ==
    Validated(in.call,
        Adjudicate(Observation(ToolResult(in.call)), got,
            Refusing(PostToolBlock, Allow)))

\* Copilot Chat inlines the files a prompt mentions without a tool call.
UserPromptSubmit(in, got) ==
    PromptAfterReads(in.mentions, got, UserPromptDeny, Allow)

Handle(in, got) ==
    CASE in.hook = "SessionStart" -> SessionStart(got)
      [] in.hook = "PreToolUse" -> PreToolUse(in, got)
      [] in.hook = "PostToolUse" -> PostToolUse(in, got)
      [] in.hook = "UserPromptSubmit" -> UserPromptSubmit(in, got)
      [] OTHER -> Reply(Allow)

\* A session start gets a context, which is no verdict.
Degraded(in, error) ==
    Arm([PreToolUse |-> PreToolDeny, UserPromptSubmit |-> UserPromptDeny,
         PostToolUse |-> PostToolBlock], in.hook, Allow)

Enforces(in, error) == is_adjudication(in.hook)

\* What VS Code takes for a refusal of each hook (external).
Blocks(in, r) ==
    \/ r = UserPromptDeny
    \/ in.hook = "PreToolUse" /\ r = PreToolDeny
    \/ in.hook = "PostToolUse" /\ r = PostToolBlock
Asks(in, r) == in.hook = "PreToolUse" /\ r = PreToolAsk
=============================================================================
