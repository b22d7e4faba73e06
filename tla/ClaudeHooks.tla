---------------------------- MODULE ClaudeHooks ----------------------------
(***************************************************************************)
(* The Claude Code adapter: what each hook submits, what it answers, and   *)
(* what it answers when enforcement failed.  The Stop hook's reading of    *)
(* the transcript is ClaudeStop's; here a Stop submits nothing.            *)
(***************************************************************************)
EXTENDS ToolCalls

Families == {"shell", "read", "edit", "write", "search", "notebook", "web",
             "mcp"}

\* HOOK_MATRIX.
FailClosedHooks ==
    {"ConfigChange", "PermissionRequest", "PostToolUse", "PreCompact",
     "PreToolUse", "SubagentStop", "TaskCompleted", "TeammateIdle",
     "UserPromptSubmit"}
DegradeOpenHooks == {"SessionEnd", "SessionStart"}
ObservationOnlyHooks ==
    {"InstructionsLoaded", "Notification", "PostToolUseFailure", "Stop",
     "SubagentStart", "WorktreeRemove"}
is_fail_closed_hook(hook) == hook \in FailClosedHooks

Inputs ==
    {WithCall(h, c) : h \in {"PreToolUse", "PermissionRequest", "PostToolUse"},
                      c \in Calls(Families)}
    \cup {WithMentions("UserPromptSubmit", n) : n \in 0..2}
    \cup {Detailed("SubagentStop", d) : d \in {"active", "inactive"}}
    \cup {Detailed("SessionEnd", d) : d \in {"clear", "prompt_input_exit"}}
    \cup {Detailed("ConfigChange", d) : d \in {"policy_settings", "user"}}
    \cup {Plain(h) : h \in (FailClosedHooks \cup DegradeOpenHooks
                            \cup ObservationOnlyHooks)
                     \ {"PreToolUse", "PermissionRequest", "PostToolUse",
                        "UserPromptSubmit", "SubagentStop", "SessionEnd",
                        "ConfigChange"}}

-----------------------------------------------------------------------------
\* The responses.
Allow == NoOpinion
Stop == Says("continue", "false")
Block == Says("decision", "block")
PreToolDeny == Says("permissionDecision", "deny")
PreToolAsk == Says("permissionDecision", "ask")
PermissionDeny == Says("decision.behavior", "deny")

ToolAction(call) ==
    Arm([shell |-> "ShellCommand", read |-> "FileRead", edit |-> "FileEdit",
         write |-> "FileWrite", search |-> "FileRead", notebook |-> "FileEdit",
         web |-> "WebFetch"], call.name, "ToolCall")

ToolResult(call) ==
    Arm([shell |-> "ShellCommandOutput", web |-> "WebFetchOutput",
         read |-> "FileOperationResult", edit |-> "FileOperationResult",
         write |-> "FileOperationResult"], call.name, "ToolOutput")

PreToolUse(in, got) ==
    Adjudicate(Action(ToolAction(in.call)), got,
        [Allow |-> Allow, Deny |-> PreToolDeny, Escalate |-> PreToolAsk])

PermissionRequest(got) ==
    Adjudicate(Action("ToolCall"), got,
        Refusing(PermissionDeny, Allow))

\* A failed adjudication blocks here already, with the output redacted.
PostToolUse(in, got) ==
    IF got # << >> /\ got[1] \in HookErrors THEN Reply(Block)
    ELSE Adjudicate(Observation(ToolResult(in.call)), got,
             Refusing(Block, Allow))

PostToolUseFailure(got) ==
    Adjudicate(Observation("ToolOutput"), got, Whatever(Allow))

UserPromptSubmit(in, got) == PromptAfterReads(in.mentions, got, Block, Allow)

SessionStart(got) ==
    Adjudicate(Control("Started"), got, Refusing(Stop, Allow))

\* Only an end of the session for good is submitted.
SessionEnd(in, got) ==
    IF in.detail = "prompt_input_exit" THEN Reply(Allow)
    ELSE Adjudicate(Control("Terminated"), got, Whatever(Allow))

Notification(got) ==
    Adjudicate(Observation("SystemPrompt"), got, Whatever(Allow))

SubagentStart(got) ==
    Adjudicate(Control("Started"), got, Whatever(Allow))

\* lifecycle_block_response.
SubagentStop(in, got) ==
    IF in.detail = "active" THEN Reply(Allow)
    ELSE Adjudicate(Control("Completed"), got,
             Refusing(Block, Allow))

TeammateIdle(got) ==
    Adjudicate(Control("Suspended"), got, Refusing(Stop, Allow))

TaskCompleted(got) ==
    Adjudicate(Control("Completed"), got, Refusing(Stop, Allow))

ConfigChange(in, got) ==
    Adjudicate(Observation("SystemPrompt"), got,
        [d \in Decisions |-> IF in.detail = "policy_settings" THEN Allow
                   ELSE Refuse(d, Block, Allow)])

PreCompact(got) ==
    Adjudicate(Observation("SystemPrompt"), got,
        Refusing(Block, Allow))

\* Logged, and never submitted.
InstructionsLoaded == Reply(Allow)
WorktreeRemove == Reply(Allow)

Handle(in, got) ==
    CASE in.hook = "PreToolUse" -> PreToolUse(in, got)
      [] in.hook = "PermissionRequest" -> PermissionRequest(got)
      [] in.hook = "PostToolUse" -> PostToolUse(in, got)
      [] in.hook = "PostToolUseFailure" -> PostToolUseFailure(got)
      [] in.hook = "Notification" -> Notification(got)
      [] in.hook = "UserPromptSubmit" -> UserPromptSubmit(in, got)
      [] in.hook = "SubagentStart" -> SubagentStart(got)
      [] in.hook = "SubagentStop" -> SubagentStop(in, got)
      [] in.hook = "TeammateIdle" -> TeammateIdle(got)
      [] in.hook = "TaskCompleted" -> TaskCompleted(got)
      [] in.hook = "ConfigChange" -> ConfigChange(in, got)
      [] in.hook = "PreCompact" -> PreCompact(got)
      [] in.hook = "SessionStart" -> SessionStart(got)
      [] in.hook = "SessionEnd" -> SessionEnd(in, got)
      [] in.hook = "InstructionsLoaded" -> InstructionsLoaded
      [] in.hook = "WorktreeRemove" -> WorktreeRemove
      \* A Stop with nothing to submit.
      [] in.hook = "Stop" -> Reply(Allow)

-----------------------------------------------------------------------------
BudgetTimeoutDegradesOpen(hook) ==
    hook \in {"SubagentStop", "TaskCompleted", "TeammateIdle"}

fail_closed_response(in, error) ==
    CASE error = "BudgetExceeded" /\ BudgetTimeoutDegradesOpen(in.hook) -> Allow
      [] in.hook = "ConfigChange" /\ in.detail = "policy_settings" -> NoOpinion
      [] in.hook = "PreToolUse" -> PreToolDeny
      [] in.hook = "PermissionRequest" -> PermissionDeny
      [] in.hook \in {"ConfigChange", "PostToolUse", "PreCompact",
                      "SubagentStop", "UserPromptSubmit"} -> Block
      [] in.hook \in {"TaskCompleted", "TeammateIdle"} -> Stop
      [] OTHER -> NoOpinion

\* degraded_hook_response: a session start gets a context, which is no verdict.
Degraded(in, error) == fail_closed_response(in, error)

\* The failures an enforcing hook must answer with a refusal.
Enforces(in, error) ==
    /\ is_fail_closed_hook(in.hook)
    /\ ~(error = "BudgetExceeded" /\ BudgetTimeoutDegradesOpen(in.hook))
    /\ in.detail # "policy_settings"

\* What Claude Code takes for a refusal of each hook (external).
Blocks(in, r) ==
    \/ r = Stop
    \/ in.hook = "PreToolUse" /\ r = PreToolDeny
    \/ in.hook = "PermissionRequest" /\ r = PermissionDeny
    \/ /\ in.hook \in {"ConfigChange", "PostToolUse", "PreCompact",
                       "SubagentStop", "UserPromptSubmit"}
       /\ r = Block
Asks(in, r) == in.hook = "PreToolUse" /\ r = PreToolAsk
=============================================================================
