-------------------------- MODULE AntigravityHooks --------------------------
(***************************************************************************)
(* The Antigravity adapter: one gate, one observation that says nothing    *)
(* about the call, and three hooks answered without the harness.           *)
(***************************************************************************)
EXTENDS ToolCalls

Families == {"shell", "read", "write", "edit", "web", "mcp", "blank"}
UnguardedHooks == {"PreInvocation", "PostInvocation", "Stop"}

Inputs ==
    {WithCall("PreToolUse", c) : c \in Calls(Families)}
    \cup {Plain(h) : h \in UnguardedHooks \cup {"PostToolUse"}}

is_adjudication(hook) == hook = "PreToolUse"

-----------------------------------------------------------------------------
Ok == NoOpinion
AllowTool == Says("decision", "allow")
DenyTool == Says("decision", "deny")
AskTool == Says("decision", "ask")
AllowStop == Says("decision", "stop")

action_for(call) ==
    Arm([shell |-> "ShellCommand", read |-> "FileRead", write |-> "FileWrite",
         edit |-> "FileEdit", web |-> "WebFetch"], call.name, "ToolCall")

PreToolUse(in, got) ==
    Validated(in.call,
        Adjudicate(Action(action_for(in.call)), got,
            [Allow |-> AllowTool, Deny |-> DenyTool, Escalate |-> AskTool]))

PostToolUse(got) ==
    Adjudicate(Observation("ToolOutput"), got, Whatever(Ok))

Handle(in, got) ==
    CASE in.hook = "PreToolUse" -> PreToolUse(in, got)
      [] in.hook = "PostToolUse" -> PostToolUse(got)
      [] in.hook = "Stop" -> Reply(AllowStop)
      [] OTHER -> Reply(Ok)

Degraded(in, error) == IF in.hook = "PreToolUse" THEN DenyTool ELSE Ok

Enforces(in, error) == is_adjudication(in.hook)

Blocks(in, r) == in.hook = "PreToolUse" /\ r = DenyTool
Asks(in, r) == in.hook = "PreToolUse" /\ r = AskTool

\* The others read stdin outside the run loop and its budget.
Guarded(hook) == hook \notin UnguardedHooks
=============================================================================
