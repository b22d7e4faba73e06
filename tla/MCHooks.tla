------------------------------ MODULE MCHooks ------------------------------
EXTENDS HookRunner

Claude == INSTANCE ClaudeHooks
Cursor == INSTANCE CursorHooks
Vscode == INSTANCE VscodeHooks
Gemini == INSTANCE GeminiHooks
Codex == INSTANCE CodexHooks
Copilot == INSTANCE CopilotHooks
Hermes == INSTANCE HermesHooks
Openhands == INSTANCE OpenhandsHooks
Antigravity == INSTANCE AntigravityHooks
Opencode == INSTANCE OpencodeHooks

Of(agent, inputs) ==
    {[agent |-> agent, hook |-> i.hook, call |-> i.call, detail |-> i.detail,
      mentions |-> i.mentions] : i \in inputs}

MCInputs ==
    UNION {Of("claude", Claude!Inputs), Of("cursor", Cursor!Inputs),
           Of("vscode", Vscode!Inputs), Of("gemini", Gemini!Inputs),
           Of("codex", Codex!Inputs), Of("copilot", Copilot!Inputs),
           Of("hermes", Hermes!Inputs), Of("openhands", Openhands!Inputs),
           Of("antigravity", Antigravity!Inputs),
           Of("opencode", Opencode!Inputs)}

MCHandle(in, got) ==
    CASE in.agent = "claude" -> Claude!Handle(in, got)
      [] in.agent = "cursor" -> Cursor!Handle(in, got)
      [] in.agent = "vscode" -> Vscode!Handle(in, got)
      [] in.agent = "gemini" -> Gemini!Handle(in, got)
      [] in.agent = "codex" -> Codex!Handle(in, got)
      [] in.agent = "copilot" -> Copilot!Handle(in, got)
      [] in.agent = "hermes" -> Hermes!Handle(in, got)
      [] in.agent = "openhands" -> Openhands!Handle(in, got)
      [] in.agent = "antigravity" -> Antigravity!Handle(in, got)
      [] in.agent = "opencode" -> Opencode!Handle(in, got)

MCDegraded(in, e) ==
    CASE in.agent = "claude" -> Claude!Degraded(in, e)
      [] in.agent = "cursor" -> Cursor!Degraded(in, e)
      [] in.agent = "vscode" -> Vscode!Degraded(in, e)
      [] in.agent = "gemini" -> Gemini!Degraded(in, e)
      [] in.agent = "codex" -> Codex!Degraded(in, e)
      [] in.agent = "copilot" -> Copilot!Degraded(in, e)
      [] in.agent = "hermes" -> Hermes!Degraded(in, e)
      [] in.agent = "openhands" -> Openhands!Degraded(in, e)
      [] in.agent = "antigravity" -> Antigravity!Degraded(in, e)
      [] in.agent = "opencode" -> Opencode!Degraded(in, e)

MCEnforces(in, e) ==
    CASE in.agent = "claude" -> Claude!Enforces(in, e)
      [] in.agent = "cursor" -> Cursor!Enforces(in, e)
      [] in.agent = "vscode" -> Vscode!Enforces(in, e)
      [] in.agent = "gemini" -> Gemini!Enforces(in, e)
      [] in.agent = "codex" -> Codex!Enforces(in, e)
      [] in.agent = "copilot" -> Copilot!Enforces(in, e)
      [] in.agent = "hermes" -> Hermes!Enforces(in, e)
      [] in.agent = "openhands" -> Openhands!Enforces(in, e)
      [] in.agent = "antigravity" -> Antigravity!Enforces(in, e)
      [] in.agent = "opencode" -> Opencode!Enforces(in, e)

MCBlocks(in, r) ==
    CASE in.agent = "claude" -> Claude!Blocks(in, r)
      [] in.agent = "cursor" -> Cursor!Blocks(in, r)
      [] in.agent = "vscode" -> Vscode!Blocks(in, r)
      [] in.agent = "gemini" -> Gemini!Blocks(in, r)
      [] in.agent = "codex" -> Codex!Blocks(in, r)
      [] in.agent = "copilot" -> Copilot!Blocks(in, r)
      [] in.agent = "hermes" -> Hermes!Blocks(in, r)
      [] in.agent = "openhands" -> Openhands!Blocks(in, r)
      [] in.agent = "antigravity" -> Antigravity!Blocks(in, r)
      [] in.agent = "opencode" -> Opencode!Blocks(in, r)

MCAsks(in, r) ==
    CASE in.agent = "claude" -> Claude!Asks(in, r)
      [] in.agent = "cursor" -> Cursor!Asks(in, r)
      [] in.agent = "vscode" -> Vscode!Asks(in, r)
      [] in.agent = "antigravity" -> Antigravity!Asks(in, r)
      [] OTHER -> FALSE

MCGuarded(in) ==
    CASE in.agent = "cursor" -> Cursor!Guarded(in.hook)
      [] in.agent = "antigravity" -> Antigravity!Guarded(in.hook)
      [] OTHER -> TRUE

MCUnread(in) == [in EXCEPT !.detail = "unread"]

-----------------------------------------------------------------------------
\* Two hooks that fail closed let some of what they see pass: Cursor has no way
\* to ask at a prompt, so an escalated one goes on with a message
\* (hooks/README.md:225-228), and a stop that was sent back once is allowed.
MCGating(in) ==
    /\ in.detail # "active"
    /\ \A e \in HookErrors : MCEnforces(in, e)
    /\ ~(in.agent = "cursor" /\ in.hook = "BeforeSubmitPrompt")

\* A prompt's reads, and then the prompt itself.
MCMostCalls(in) == in.mentions + 1

\* On the hosts that classify a call the same way before and after it, the
\* result is judged as the result of what was let through.
PreHook ==
    [vscode |-> [PostToolUse |-> "PreToolUse"],
     gemini |-> [AfterTool |-> "BeforeTool"],
     codex |-> [PostToolUse |-> "PreToolUse"],
     hermes |-> [PostToolCall |-> "PreToolCall",
                 TransformToolResult |-> "PreToolCall"],
     openhands |-> [PostToolUse |-> "PreToolUse"],
     opencode |-> [ToolExecuteAfter |-> "ToolExecuteBefore"]]

ResultMatchesAction ==
    /\ input.agent \in DOMAIN PreHook
    /\ input.hook \in DOMAIN PreHook[input.agent]
    /\ input.detail = "plain"
    => LET before == [input EXCEPT !.hook = PreHook[input.agent][input.hook]]
       IN  \A i \in DOMAIN ledger :
              ledger[i].event.kind =
                  Claude!ResultOf(Handler(before, << >>).event.kind)
=============================================================================
