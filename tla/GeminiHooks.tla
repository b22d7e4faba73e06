---------------------------- MODULE GeminiHooks ----------------------------
(***************************************************************************)
(* The Gemini CLI adapter.  It has no way to ask the user: an escalation   *)
(* is a refusal on every hook.                                             *)
(***************************************************************************)
EXTENDS ToolCalls

Families == {"shell", "read", "edit", "write", "web", "mcp", "blank"}
QuietHooks == {"SessionEnd", "PreCompress", "Notification"}

Inputs ==
    {WithCall(h, c) : h \in {"BeforeTool", "AfterTool"}, c \in Calls(Families)}
    \cup {Detailed("AfterAgent", d) : d \in {"active", "inactive"}}
    \cup {Plain(h) : h \in QuietHooks \cup
             {"SessionStart", "BeforeAgent", "BeforeModel", "AfterModel",
              "BeforeToolSelection"}}

is_adjudication(hook) ==
    hook \in {"BeforeAgent", "BeforeModel", "AfterModel",
              "BeforeToolSelection", "BeforeTool"}

-----------------------------------------------------------------------------
Ok == NoOpinion
Permit == Says("decision", "allow")
Deny == Says("decision", "deny")
\* A retry is a refusal of the response.
Retry == Deny
Stop == Says("continue", "false")
DisableAllTools == Says("toolConfig.mode", "NONE")
AllowAllTools == Says("toolConfig.mode", "AUTO")

FileActions == [read |-> "FileRead", edit |-> "FileEdit", write |-> "FileWrite"]

action_for(call) ==
    Arm([shell |-> "ShellCommand", web |-> "WebFetch"], call.name,
        Arm(FileActions, call.name, "ToolCall"))

ToolResult(call) ==
    IF call.name \in DOMAIN FileActions THEN "FileOperationResult"
    ELSE Arm([shell |-> "ShellCommandOutput", web |-> "WebFetchOutput"],
             call.name, "ToolOutput")

SessionStart(got) ==
    Adjudicate(Control("Started"), got, Refusing(Stop, Ok))

BeforeAgent(got) ==
    Adjudicate(UserPrompt, got, Refusing(Deny, Permit))

\* The second pass over a response the first one sent back is not judged.
AfterAgent(in, got) ==
    IF in.detail = "active" THEN Reply(Ok)
    ELSE Adjudicate(Observation("SystemPrompt"), got,
             Refusing(Retry, Ok))

BeforeModel(got) ==
    Adjudicate(Observation("SystemPrompt"), got, Refusing(Deny, Ok))

AfterModel(got) ==
    Adjudicate(Observation("AssistantPrompt"), got,
        Refusing(Deny, Ok))

BeforeToolSelection(got) ==
    Adjudicate(Observation("SystemPrompt"), got,
        Refusing(DisableAllTools, AllowAllTools))

BeforeTool(in, got) ==
    Validated(in.call, Adjudicate(Action(action_for(in.call)), got,
                           Refusing(Deny, Permit)))

AfterTool(in, got) ==
    Validated(in.call, Adjudicate(Observation(ToolResult(in.call)), got,
                           Refusing(Deny, Ok)))

\* Logged, and never submitted.
SessionEnd == Reply(Ok)

Handle(in, got) ==
    CASE in.hook = "SessionStart" -> SessionStart(got)
      [] in.hook = "BeforeAgent" -> BeforeAgent(got)
      [] in.hook = "AfterAgent" -> AfterAgent(in, got)
      [] in.hook = "BeforeModel" -> BeforeModel(got)
      [] in.hook = "AfterModel" -> AfterModel(got)
      [] in.hook = "BeforeToolSelection" -> BeforeToolSelection(got)
      [] in.hook = "BeforeTool" -> BeforeTool(in, got)
      [] in.hook = "AfterTool" -> AfterTool(in, got)
      [] in.hook = "SessionEnd" -> SessionEnd
      [] in.hook \in QuietHooks -> Reply(Ok)

Degraded(in, error) ==
    CASE in.hook \in {"BeforeAgent", "BeforeModel", "AfterModel",
                      "BeforeTool"} -> Deny
      [] in.hook = "BeforeToolSelection" -> DisableAllTools
      [] OTHER -> Ok

Enforces(in, error) == is_adjudication(in.hook)

\* What Gemini CLI takes for a refusal (external).
Blocks(in, r) ==
    \/ r \in {Deny, Stop}
    \/ in.hook = "BeforeToolSelection" /\ r = DisableAllTools
Asks(in, r) == FALSE
=============================================================================
