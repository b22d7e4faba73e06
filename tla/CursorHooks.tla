---------------------------- MODULE CursorHooks ----------------------------
(***************************************************************************)
(* The Cursor adapter.  A denied hook also ends with exit code 2.          *)
(***************************************************************************)
EXTENDS ToolCalls

Families == {"shell", "read", "write", "edit", "web", "mcp", "blank"}
ToolHooks == {"PreToolUse", "PostToolUse", "PostToolUseFailure"}
ShellHooks == {"BeforeShellExecution", "AfterShellExecution"}
OtherHooks ==
    {"SessionStart", "SessionEnd", "SubagentStart", "SubagentStop",
     "BeforeMCPExecution", "AfterMCPExecution", "BeforeReadFile",
     "AfterFileEdit", "BeforeSubmitPrompt", "AfterAgentResponse",
     "AfterAgentThought", "PreCompact", "Stop", "BeforeTabFileRead",
     "AfterTabFileEdit", "WorkspaceOpen"}

Inputs ==
    {WithCall(h, c) : h \in ToolHooks, c \in Calls(Families)}
    \cup {WithCall(h, [NoCall EXCEPT !.name = n]) :
            h \in ShellHooks, n \in {"shell", "blank"}}
    \cup {Plain(h) : h \in OtherHooks}

is_adjudication(hook) ==
    hook \in {"PreToolUse", "BeforeShellExecution", "BeforeMCPExecution",
              "BeforeReadFile", "BeforeSubmitPrompt", "BeforeTabFileRead",
              "SubagentStart"}

-----------------------------------------------------------------------------
Ok == NoOpinion
Permission(value) == Says("permission", value)
Continue(value) == Says("continue", value)

DenyOrAsk ==
    [Allow |-> Permission("allow"), Deny |-> Permission("deny"),
     Escalate |-> Permission("ask")]
DenyBoth == Refusing(Permission("deny"), Permission("allow"))

ToolAction(call) ==
    Arm([shell |-> "ShellCommand", read |-> "FileRead", write |-> "FileWrite",
         web |-> "WebFetch"], call.name, "ToolCall")
ToolResult(call) ==
    Arm([shell |-> "ShellCommandOutput", read |-> "FileOperationResult",
         write |-> "FileOperationResult", edit |-> "FileOperationResult",
         web |-> "WebFetchOutput"], call.name, "ToolOutput")

BeforeShellExecution(in, got) ==
    Validated(in.call, Adjudicate(Action("ShellCommand"), got, DenyOrAsk))
AfterShellExecution(in, got) ==
    Validated(in.call, Adjudicate(Observation("ShellCommandOutput"), got,
                                  Whatever(Ok)))
BeforeMCPExecution(got) == Adjudicate(Action("ToolCall"), got, DenyOrAsk)
AfterMCPExecution(got) ==
    Adjudicate(Observation("ToolOutput"), got, Whatever(Ok))
BeforeReadFile(got) == Adjudicate(Action("FileRead"), got, DenyBoth)
AfterFileEdit(got) ==
    Adjudicate(Observation("FileOperationResult"), got, Whatever(Ok))

\* An escalated prompt is allowed, with a message.
BeforeSubmitPrompt(got) ==
    Adjudicate(UserPrompt, got,
        [d \in Decisions |-> Continue(IF d = "Deny" THEN "false" ELSE "true")])

AfterAgentResponse(got) ==
    Adjudicate(Observation("SystemPrompt"), got, Whatever(Ok))
SessionStart(got) ==
    Adjudicate(Control("Started"), got,
        [d \in Decisions |-> Continue(Refuse(d, "false", "true"))])
SubagentStart(got) == Adjudicate(Action("ToolCall"), got, DenyBoth)
BeforeTabFileRead(got) == Adjudicate(Action("FileRead"), got, DenyBoth)
AfterTabFileEdit(got) ==
    Adjudicate(Observation("FileOperationResult"), got, Whatever(Ok))
PreToolUse(in, got) ==
    Validated(in.call, Adjudicate(Action(ToolAction(in.call)), got, DenyBoth))
PostToolUse(in, got) ==
    Validated(in.call, Adjudicate(Observation(ToolResult(in.call)), got,
                                  Whatever(Ok)))
PostToolUseFailure(in, got) ==
    Validated(in.call, Adjudicate(Observation("ToolOutput"), got,
                                  Whatever(Ok)))

\* Logged, and never submitted.
SessionEnd == Reply(Ok)
AfterAgentThought == Reply(Ok)
Stop == Reply(Ok)
SubagentStop == Reply(Ok)
PreCompact == Reply(Ok)

Handle(in, got) ==
    CASE in.hook = "BeforeShellExecution" -> BeforeShellExecution(in, got)
      [] in.hook = "AfterShellExecution" -> AfterShellExecution(in, got)
      [] in.hook = "BeforeMCPExecution" -> BeforeMCPExecution(got)
      [] in.hook = "AfterMCPExecution" -> AfterMCPExecution(got)
      [] in.hook = "BeforeReadFile" -> BeforeReadFile(got)
      [] in.hook = "AfterFileEdit" -> AfterFileEdit(got)
      [] in.hook = "BeforeSubmitPrompt" -> BeforeSubmitPrompt(got)
      [] in.hook = "AfterAgentResponse" -> AfterAgentResponse(got)
      [] in.hook = "SessionStart" -> SessionStart(got)
      [] in.hook = "SubagentStart" -> SubagentStart(got)
      [] in.hook = "BeforeTabFileRead" -> BeforeTabFileRead(got)
      [] in.hook = "AfterTabFileEdit" -> AfterTabFileEdit(got)
      [] in.hook = "PreToolUse" -> PreToolUse(in, got)
      [] in.hook = "PostToolUse" -> PostToolUse(in, got)
      [] in.hook = "PostToolUseFailure" -> PostToolUseFailure(in, got)
      [] in.hook = "SessionEnd" -> SessionEnd
      [] in.hook = "AfterAgentThought" -> AfterAgentThought
      [] in.hook = "Stop" -> Stop
      [] in.hook = "SubagentStop" -> SubagentStop
      [] in.hook = "PreCompact" -> PreCompact
      [] in.hook = "WorkspaceOpen" -> Reply(Ok)

\* The refusal in the shape of each gate.
Degraded(in, error) ==
    CASE in.hook \in {"PreToolUse", "BeforeShellExecution",
                      "BeforeMCPExecution", "BeforeReadFile",
                      "BeforeTabFileRead", "SubagentStart"} -> Permission("deny")
      [] in.hook = "BeforeSubmitPrompt" -> Continue("false")
      [] OTHER -> Ok

Enforces(in, error) == is_adjudication(in.hook)

\* is_deny, by the fields Cursor reads.
Blocks(in, r) == r \in {Permission("deny"), Continue("false")}
Asks(in, r) == r = Permission("ask")

\* WorkspaceOpen is answered without the harness, and reads stdin outside the
\* run loop and its budget.
Guarded(hook) == hook # "WorkspaceOpen"
=============================================================================
