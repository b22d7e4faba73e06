------------------------------ MODULE HookInputs ------------------------------
(***************************************************************************)
(* What the hooks read from stdin: the JSON of nine agents, turned by serde *)
(* into the structs of <agent>/src/types.rs and then validated.  An agent  *)
(* that is updated renames, drops and adds fields; most fields of these     *)
(* structs have a default, so what is missing is easily taken for empty.   *)
(*                                                                         *)
(* A struct is the names of its fields by how they are read, and a document *)
(* gives a value to the names it spells: one of the right type ("good"), an *)
(* empty string, null, a string no version knows, or a value of another    *)
(* type.  A field of a nested struct is named by its path.  The arguments   *)
(* of a tool are free JSON, and have their own reading at the end.          *)
(***************************************************************************)
EXTENDS Naturals, FiniteSets, Sequences, TLC

LOCAL INSTANCE SequencesExt
LOCAL INSTANCE FiniteSetsExt

Values == {"good", "blank", "unheard", "null", "other"}

\* required: without a default.  texts, options (texts that may be null), typed
\* (numbers, flags, lists), numbers (that may be null), enums and free (any
\* JSON): by type.  also: further spellings.  checked: not empty, says validate().
Nothing ==
    [required |-> {}, texts |-> {}, options |-> {}, typed |-> {}, numbers |-> {},
     enums |-> {}, free |-> {}, checked |-> {}, also |-> << >>]
Struct(fields) == fields @@ Nothing

\* serde(flatten).
With(common, fields) ==
    LET s == Struct(fields)
    IN  [k \in DOMAIN Nothing |->
            IF k = "also" THEN s.also @@ common.also ELSE s[k] \cup common[k]]

Fields(s) == s.texts \cup s.options \cup s.typed \cup s.numbers \cup s.enums \cup s.free
Names(s, f) == {f} \cup (IF f \in DOMAIN s.also THEN s.also[f] ELSE {})

-----------------------------------------------------------------------------
(***************************************************************************)
(* Claude Code.                                                            *)
(***************************************************************************)
ClaudeCommon ==
    Struct([required |-> {"session_id", "transcript_path"},
            texts |-> {"session_id", "transcript_path", "cwd", "hook_event_name"},
            enums |-> {"permission_mode"}])

ClaudeTool ==
    With(ClaudeCommon, [required |-> {"tool_name", "tool_input"},
                        texts |-> {"tool_name", "tool_use_id"}, free |-> {"tool_input"}])

ClaudeTools ==
    [PreToolUse |-> ClaudeTool,
     PermissionRequest |-> ClaudeTool,
     PostToolUse |-> With(ClaudeTool, [required |-> {"tool_response"},
                                       free |-> {"tool_response"}])]

ClaudeTurns ==
    [Notification |->
        With([ClaudeCommon EXCEPT !.required = {"session_id", "message"}],
             [texts |-> {"message"}, enums |-> {"notification_type"}]),
     UserPromptSubmit |-> With(ClaudeCommon, [required |-> {"prompt"}, texts |-> {"prompt"}]),
     Stop |-> With(ClaudeCommon, [typed |-> {"stop_hook_active"},
                                  options |-> {"last_assistant_message"}]),
     PostToolUseFailure |-> With(ClaudeTool, [texts |-> {"error"}])]

ClaudeAgents ==
    [SubagentStart |-> With(ClaudeCommon, [required |-> {"agent_id", "agent_type"},
                                           texts |-> {"agent_id", "agent_type"}]),
     SubagentStop |-> With(ClaudeCommon,
        [typed |-> {"stop_hook_active"},
         texts |-> {"agent_id", "agent_type", "agent_transcript_path"}]),
     TeammateIdle |-> With(ClaudeCommon, [required |-> {"teammate_name", "team_name"},
                                          texts |-> {"teammate_name", "team_name"}]),
     TaskCompleted |-> With(ClaudeCommon,
        [required |-> {"task_id", "task_subject"}, texts |-> {"task_id", "task_subject"},
         options |-> {"task_description", "teammate_name", "team_name"}])]

ClaudeSessions ==
    [PreCompact |-> With(ClaudeCommon, [enums |-> {"trigger"}, texts |-> {"custom_instructions"}]),
     SessionStart |-> With(ClaudeCommon, [enums |-> {"source"}, options |-> {"model"}]),
     SessionEnd |-> With(ClaudeCommon, [enums |-> {"reason"}]),
     ConfigChange |-> With(ClaudeCommon, [enums |-> {"config_type"}, texts |-> {"file_path"},
                                          also |-> [config_type |-> {"source"}]]),
     InstructionsLoaded |-> With(ClaudeCommon,
        [texts |-> {"file_path", "memory_type", "load_reason"}]),
     WorktreeRemove |-> With(ClaudeCommon, [texts |-> {"worktree_path"}])]

-----------------------------------------------------------------------------
(***************************************************************************)
(* Cursor.                                                                 *)
(***************************************************************************)
CursorCommon ==
    Struct([texts |-> {"conversation_id", "generation_id", "model", "hook_event_name",
                       "cursor_version"},
            options |-> {"model_id", "user_email", "transcript_path"},
            typed |-> {"model_params", "workspace_roots"}])

CursorSessions ==
    [SessionStart |-> With(CursorCommon,
        [texts |-> {"session_id"}, typed |-> {"is_background_agent"},
         enums |-> {"composer_mode"}, also |-> [composer_mode |-> {"mode"}]]),
     SessionEnd |-> With(CursorCommon,
        [enums |-> {"reason"}, typed |-> {"duration_ms", "is_background_agent"},
         options |-> {"final_status", "error_message"}])]

CursorExecution ==
    [BeforeShellExecution |-> With(CursorCommon,
        [texts |-> {"command", "cwd"}, typed |-> {"sandbox"}, numbers |-> {"timeout"},
         checked |-> {"command"}]),
     BeforeMCPExecution |-> With(CursorCommon,
        [texts |-> {"tool_name", "tool_input"}, options |-> {"url", "command"},
         checked |-> {"tool_name"}]),
     AfterShellExecution |-> With(CursorCommon,
        [texts |-> {"command", "output"}, typed |-> {"duration", "sandbox"},
         checked |-> {"command"}]),
     AfterMCPExecution |-> With(CursorCommon,
        [texts |-> {"tool_name", "tool_input", "result_json"}, typed |-> {"duration"},
         checked |-> {"tool_name"}])]

CursorFiles ==
    [BeforeReadFile |-> With(CursorCommon,
        [texts |-> {"file_path", "content"}, typed |-> {"attachments"},
         checked |-> {"file_path"}]),
     AfterFileEdit |-> With(CursorCommon,
        [texts |-> {"file_path"}, typed |-> {"edits"}, checked |-> {"file_path"}]),
     BeforeSubmitPrompt |-> With(CursorCommon, [texts |-> {"prompt"}, typed |-> {"attachments"}]),
     AfterAgentResponse |-> With(CursorCommon, [texts |-> {"text"}]),
     AfterAgentThought |-> With(CursorCommon, [texts |-> {"text"}, numbers |-> {"duration_ms"}]),
     Stop |-> With(CursorCommon, [enums |-> {"status"}, typed |-> {"loop_count"}])]

CursorSubagents ==
    [SubagentStart |-> With(CursorCommon,
        [texts |-> {"subagent_id", "task", "parent_conversation_id", "tool_call_id",
                    "subagent_model"},
         enums |-> {"subagent_type"}, typed |-> {"is_parallel_worker"},
         options |-> {"git_branch"}, also |-> [task |-> {"prompt"}]]),
     SubagentStop |-> With(CursorCommon,
        [enums |-> {"subagent_type", "status"}, texts |-> {"task", "description", "summary"},
         typed |-> {"duration_ms", "message_count", "tool_call_count", "loop_count",
                    "modified_files"},
         options |-> {"agent_transcript_path"},
         also |-> [summary |-> {"result"}, duration_ms |-> {"duration"}]])]

CursorTabs ==
    [PreCompact |-> With(CursorCommon,
        [enums |-> {"trigger"},
         typed |-> {"context_usage_percent", "context_tokens", "context_window_size",
                    "message_count", "messages_to_compact", "is_first_compaction"}]),
     BeforeTabFileRead |-> With(CursorCommon,
        [texts |-> {"file_path", "content"}, checked |-> {"file_path"}]),
     AfterTabFileEdit |-> With(CursorCommon,
        [texts |-> {"file_path"}, typed |-> {"edits"}, checked |-> {"file_path"}]),
     WorkspaceOpen |-> CursorCommon]

CursorTool ==
    With(CursorCommon, [texts |-> {"tool_name", "tool_use_id"}, free |-> {"tool_input"},
                        checked |-> {"tool_name"}])
CursorTools ==
    [PreToolUse |-> With(CursorTool, [texts |-> {"cwd"}, options |-> {"agent_message"}]),
     PostToolUse |-> With(CursorTool, [texts |-> {"cwd"}, free |-> {"tool_output"},
                                       typed |-> {"duration"}]),
     PostToolUseFailure |-> With(CursorTool,
        [texts |-> {"error_message"}, options |-> {"failure_type"},
         typed |-> {"is_interrupt", "duration"}])]

-----------------------------------------------------------------------------
(***************************************************************************)
(* Gemini, Codex and VS Code.                                              *)
(***************************************************************************)
GeminiCommon ==
    Struct([texts |-> {"session_id", "cwd", "hook_event_name"},
            options |-> {"transcript_path", "timestamp"}])

GeminiTurns ==
    [SessionStart |-> With(GeminiCommon, [enums |-> {"source"}]),
     SessionEnd |-> With(GeminiCommon, [enums |-> {"reason"}]),
     BeforeAgent |-> With(GeminiCommon, [texts |-> {"prompt"}]),
     AfterAgent |-> With(GeminiCommon, [texts |-> {"prompt", "prompt_response"},
                                        typed |-> {"stop_hook_active"}]),
     BeforeModel |-> With(GeminiCommon, [free |-> {"llm_request"}]),
     AfterModel |-> With(GeminiCommon, [free |-> {"llm_request", "llm_response"}]),
     BeforeToolSelection |-> With(GeminiCommon, [free |-> {"llm_request"}])]

GeminiTool ==
    With(GeminiCommon,
        [texts |-> {"tool_name"}, free |-> {"tool_input"}, checked |-> {"tool_name"},
         options |-> {"mcp_context.server_name", "mcp_context.server_url"}])
GeminiTools ==
    [BeforeTool |-> GeminiTool,
     AfterTool |-> With(GeminiTool, [free |-> {"tool_response"}]),
     PreCompress |-> With(GeminiCommon, [enums |-> {"trigger"}]),
     Notification |-> With(GeminiCommon, [texts |-> {"notification_type", "message"},
                                          free |-> {"details"}])]

CodexCommon ==
    Struct([texts |-> {"session_id", "cwd", "hook_event_name", "model"},
            options |-> {"transcript_path"}, enums |-> {"permission_mode"}])
CodexTurn == With(CodexCommon, [texts |-> {"turn_id"}])
CodexTool ==
    With(CodexTurn, [texts |-> {"tool_name"}, free |-> {"tool_input"}, checked |-> {"tool_name"}])

CodexSessions ==
    [SessionStart |-> With(CodexCommon, [enums |-> {"source"}]),
     SessionEnd |-> With(CodexCommon, [texts |-> {"reason"}]),
     SubagentStart |-> With(CodexTurn, [texts |-> {"agent_id", "agent_type"}]),
     PermissionRequest |-> CodexTool,
     PreCompact |-> With(CodexTurn, [texts |-> {"trigger"}]),
     PostCompact |-> With(CodexTurn, [texts |-> {"trigger"}]),
     SubagentStop |-> With(CodexTurn,
        [texts |-> {"agent_id", "agent_type"}, typed |-> {"stop_hook_active"},
         options |-> {"agent_transcript_path", "last_assistant_message"}])]
CodexTools ==
    [PreToolUse |-> With(CodexTool, [texts |-> {"tool_use_id"}]),
     PostToolUse |-> With(CodexTool, [texts |-> {"tool_use_id"}, free |-> {"tool_response"}]),
     UserPromptSubmit |-> With(CodexTurn, [texts |-> {"prompt"}]),
     Stop |-> With(CodexTurn, [typed |-> {"stop_hook_active"},
                               options |-> {"last_assistant_message"}])]

VscodeCommon ==
    Struct([texts |-> {"cwd"}, free |-> {"timestamp"},
            options |-> {"session_id", "hook_event_name", "transcript_path"},
            also |-> [session_id |-> {"sessionId"}, hook_event_name |-> {"hookEventName"},
                      transcript_path |-> {"transcriptPath"}]])
VscodeTool ==
    With(VscodeCommon,
        [texts |-> {"tool_name", "tool_use_id"}, free |-> {"tool_input"},
         checked |-> {"tool_name"},
         also |-> [tool_name |-> {"toolName"}, tool_input |-> {"toolInput"},
                   tool_use_id |-> {"toolUseId"}]])
VscodeAgent ==
    With(VscodeCommon, [texts |-> {"agent_id", "agent_type"},
                        also |-> [agent_id |-> {"agentId"}, agent_type |-> {"agentType"}]])
VscodeStop ==
    [typed |-> {"stop_hook_active"}, also |-> [stop_hook_active |-> {"stopHookActive"}]]

VscodeEvents ==
    [SessionStart |-> With(VscodeCommon, [enums |-> {"source"}]),
     UserPromptSubmit |-> With(VscodeCommon, [texts |-> {"prompt"}]),
     PreToolUse |-> VscodeTool,
     PostToolUse |-> With(VscodeTool, [free |-> {"tool_response"},
                                       also |-> [tool_response |-> {"toolResponse"}]]),
     PreCompact |-> With(VscodeCommon, [enums |-> {"trigger"}]),
     SubagentStart |-> VscodeAgent,
     SubagentStop |-> With(VscodeAgent, VscodeStop),
     Stop |-> With(VscodeCommon, VscodeStop)]

-----------------------------------------------------------------------------
(***************************************************************************)
(* Copilot, OpenHands, Hermes and Antigravity.  Copilot's tool inputs and  *)
(* results, and its times, are read from whatever is there.                *)
(***************************************************************************)
CopilotCommon ==
    Struct([free |-> {"timestamp", "matcher"}, texts |-> {"cwd"},
            options |-> {"session_id", "transcript_path"},
            also |-> [cwd |-> {"Cwd"}, session_id |-> {"sessionId", "SessionId"},
                      transcript_path |-> {"transcriptPath"}, matcher |-> {"Matcher"}]])
CopilotTool ==
    With(CopilotCommon,
        [texts |-> {"tool_name"}, free |-> {"tool_args"}, checked |-> {"tool_name"},
         also |-> [tool_name |-> {"toolName", "ToolName"},
                   tool_args |-> {"toolArgs", "toolInput", "tool_input", "ToolArgs",
                                  "ToolInput"}]])
CopilotEnd ==
    With(CopilotCommon, [options |-> {"reason"}, also |-> [reason |-> {"Reason"}]])

CopilotPrompts ==
    [SessionStart |-> With(CopilotCommon,
        [enums |-> {"source"}, options |-> {"initial_prompt"},
         also |-> [initial_prompt |-> {"initialPrompt", "prompt"}]]),
     SessionEnd |-> With(CopilotCommon, [options |-> {"reason"}]),
     UserPromptSubmitted |-> With(CopilotCommon, [texts |-> {"prompt"},
                                                  also |-> [prompt |-> {"Prompt"}]]),
     UserPromptTransformed |-> With(CopilotCommon,
        [texts |-> {"prompt", "transformed_prompt"},
         also |-> [prompt |-> {"Prompt"},
                   transformed_prompt |-> {"transformedPrompt", "TransformedPrompt"}]])]
CopilotTools ==
    [PreToolUse |-> CopilotTool,
     PermissionRequest |-> CopilotTool,
     PostToolUse |-> With(CopilotTool,
        [free |-> {"tool_result"}, typed |-> {"duration"},
         also |-> [tool_result |-> {"toolResult", "ToolResult"}]]),
     PostToolUseFailure |-> With(CopilotTool,
        [free |-> {"tool_error"}, numbers |-> {"exit_code"},
         also |-> [tool_error |-> {"toolError", "error"}, exit_code |-> {"exitCode"}]])]
CopilotNotices ==
    [ErrorOccurred |-> With(CopilotCommon,
        [free |-> {"error"}, options |-> {"error_code"},
         also |-> [error |-> {"Error"}, error_code |-> {"errorCode", "ErrorCode"}]]),
     Notification |-> With(CopilotCommon,
        [options |-> {"message", "notification_type"},
         also |-> [message |-> {"Message"}, notification_type |-> {"notificationType"}]]),
     PreCompact |-> CopilotEnd,
     AgentStop |-> CopilotEnd,
     SubagentStop |-> CopilotEnd,
     SubagentStart |-> With(CopilotCommon,
        [options |-> {"subagent_id", "task"},
         also |-> [subagent_id |-> {"subagentId"}, task |-> {"Task", "prompt"}]])]

OpenhandsCommon ==
    Struct([texts |-> {"event_type", "session_id", "working_dir"}, options |-> {"model"},
            typed |-> {"metadata"},
            also |-> [event_type |-> {"hook_event_name", "eventType"},
                      working_dir |-> {"cwd", "workspace_root"}]])
OpenhandsTool ==
    With(OpenhandsCommon,
        [texts |-> {"tool_name", "tool_call_id"}, free |-> {"tool_input"},
         checked |-> {"tool_name"},
         also |-> [tool_call_id |-> {"tool_use_id", "call_id", "toolCallId"}]])
OpenhandsEvents ==
    [SessionStart |-> OpenhandsCommon,
     PreToolUse |-> OpenhandsTool,
     PostToolUse |-> With(OpenhandsTool, [free |-> {"tool_response"}]),
     UserPromptSubmit |-> With(OpenhandsCommon,
        [texts |-> {"message"}, also |-> [message |-> {"prompt", "user_message"}]]),
     Stop |-> With(OpenhandsCommon, [options |-> {"reason", "message"},
                                     also |-> [message |-> {"last_assistant_message"}]]),
     SessionEnd |-> With(OpenhandsCommon, [options |-> {"reason"}])]

\* One struct for all of Hermes' hooks; the tool hooks want a name.
HermesEvent ==
    Struct([texts |-> {"hook_event_name", "session_id", "cwd"}, options |-> {"tool_name"},
            free |-> {"tool_input"}])
HermesTool == With(HermesEvent, [checked |-> {"tool_name"}])
HermesEvents ==
    [PreToolCall |-> HermesTool, PostToolCall |-> HermesTool, PreLlmCall |-> HermesEvent]

AntigravityCommon ==
    Struct([texts |-> {"conversationId"}, typed |-> {"workspacePaths"},
            options |-> {"transcriptPath", "artifactDirectoryPath"}])
AntigravityEvents ==
    [PreToolUse |-> With(AntigravityCommon,
        [texts |-> {"toolCall.name"}, free |-> {"toolCall.args"}, typed |-> {"stepIdx"},
         checked |-> {"conversationId", "toolCall.name"}]),
     PostToolUse |-> With(AntigravityCommon, [typed |-> {"stepIdx"}, options |-> {"error"},
                                              checked |-> {"conversationId"}]),
     PreInvocation |-> With(AntigravityCommon, [typed |-> {"invocationNum", "initialNumSteps"}]),
     PostInvocation |-> With(AntigravityCommon, [typed |-> {"invocationNum", "initialNumSteps"}]),
     Stop |-> With(AntigravityCommon, [typed |-> {"executionNum", "fullyIdle"},
                                       texts |-> {"terminationReason"}, options |-> {"error"}])]

Structs ==
    [claude |-> ClaudeTools @@ ClaudeTurns @@ ClaudeAgents @@ ClaudeSessions,
     cursor |-> CursorSessions @@ CursorExecution @@ CursorFiles @@ CursorSubagents
                @@ CursorTabs @@ CursorTools,
     gemini |-> GeminiTurns @@ GeminiTools,
     codex |-> CodexSessions @@ CodexTools,
     vscode |-> VscodeEvents,
     copilot |-> CopilotPrompts @@ CopilotTools @@ CopilotNotices,
     openhands |-> OpenhandsEvents, hermes |-> HermesEvents,
     antigravity |-> AntigravityEvents]

-----------------------------------------------------------------------------
(***************************************************************************)
(* Reading.                                                                *)
(***************************************************************************)
Given(s, f, doc) == {n \in Names(s, f) : n \in DOMAIN doc}
At(names, doc) == doc[CHOOSE n \in names : TRUE]

\* An unknown string is a value of every enum: serde(other).  A field that is
\* spelled twice is a duplicate.
Misread(s, f, doc) ==
    LET given == Given(s, f, doc)
        value == At(given, doc)
    IN  \/ given = {} /\ f \in s.required
        \/ Cardinality(given) > 1
        \/ /\ Cardinality(given) = 1
           /\ \/ f \in s.texts \cup s.enums /\ value \in {"null", "other"}
              \/ f \in s.options /\ value = "other"
              \/ f \in s.typed /\ value # "good"
              \/ f \in s.numbers /\ value \notin {"good", "null"}

\* Mutant: what is missing is as good as empty.
MissingIsEmpty(s, f, doc) == Given(s, f, doc) # {} /\ At(Given(s, f, doc), doc) = "blank"

\* validate(): the default of a text is the empty one, of an option none.
Empty(s, f, doc) ==
    Given(s, f, doc) = {} \/ At(Given(s, f, doc), doc) \in {"blank", "null"}

Reads(s, doc) ==
    /\ \A f \in Fields(s) : ~Misread(s, f, doc)
    /\ \A f \in s.checked : ~Empty(s, f, doc)

-----------------------------------------------------------------------------
(***************************************************************************)
(* A tool call becomes an action: a command, a file that is read or edited, *)
(* a URL that is fetched.  Its text is looked for in the arguments under    *)
(* some names, in their order.  Lists of arguments (an argv, `paths`,       *)
(* `urls`) are left out.                                                    *)
(***************************************************************************)
FILE_PATH_KEYS ==
    <<"filePath", "file_path", "absolutePath", "absolute_path", "AbsolutePath", "targetFile",
      "target_file", "TargetFile", "notebook_path", "notebookPath", "path", "Path", "file", "uri">>
URL_KEYS == <<"url", "Url", "URL", "uri", "href", "link">>

Keys(shell, read, edit, web) == [shell |-> shell, read |-> read, edit |-> edit, web |-> web]
ArgumentKeys ==
    LET notebook == <<"file_path", "path", "notebook_path">>
        file == <<"path", "file">>
        any == <<"command", "cmd", "input">>
    IN  [claude |-> Keys(<<"command">>, notebook, notebook, <<"url">>),
         cursor |-> Keys(<<"command">>, <<"file_path">>, <<"file_path">>, <<"url">>),
         gemini |-> Keys(<<"command">>, FILE_PATH_KEYS, FILE_PATH_KEYS, <<"url", "prompt">>),
         vscode |-> Keys(<<"command", "commandLine">>, FILE_PATH_KEYS,
                         <<"filePath", "file_path", "path">>, <<"url">>),
         antigravity |-> Keys(<<"CommandLine">>, <<"AbsolutePath">>, <<"TargetFile">>, <<"Url">>),
         copilot |-> Keys(<<"command", "script">>, file, file, URL_KEYS),
         codex |-> Keys(<<"command", "cmd", "script">>, FILE_PATH_KEYS, FILE_PATH_KEYS, URL_KEYS),
         openhands |-> Keys(any, FILE_PATH_KEYS, FILE_PATH_KEYS, URL_KEYS),
         hermes |-> Keys(any, FILE_PATH_KEYS, FILE_PATH_KEYS, URL_KEYS)]

\* string_arg: the first that is a string, be it an empty one.
StringArg(keys, args) ==
    LET found == {i \in DOMAIN keys : keys[i] \in DOMAIN args /\ args[keys[i]] \in {"good", "blank"}}
    IN  IF found = {} THEN "none" ELSE args[keys[Min(found)]]

\* unwrap_or(""): the action is of an empty text.  Elsewhere the command is the
\* arguments as JSON, or the call stays a tool call with its arguments.
Defaulted(agent) ==
    CASE agent \in {"claude", "cursor", "gemini", "vscode", "antigravity"} ->
            {"shell", "read", "edit", "web"}
      [] agent = "copilot" -> {"shell", "read", "edit"}
      [] agent = "codex" -> {"shell"}
      [] OTHER -> {}

\* file_operation_for, of three agents, wants a path that is not empty.
Judged(agent, kind, args) ==
    LET text == StringArg(ArgumentKeys[agent][kind], args)
        classified == agent \in {"codex", "openhands", "hermes"} /\ kind \in {"read", "edit"}
    IN  IF classified THEN IF text = "good" THEN "good" ELSE "whole"
        ELSE IF text # "none" THEN text
        ELSE IF kind \in Defaulted(agent) THEN "blank" ELSE "whole"

-----------------------------------------------------------------------------
(***************************************************************************)
(* Properties.                                                             *)
(***************************************************************************)
\* What names the tool, the command or the file of a gate.  (Prompts may be
\* empty, says cursor/src/types.rs:758; Cursor's SubagentStart and Gemini's
\* model hooks judge what is there.)
Subject ==
    [claude |-> [PreToolUse |-> "tool_name", PermissionRequest |-> "tool_name",
                 UserPromptSubmit |-> "prompt"],
     cursor |-> [BeforeShellExecution |-> "command", BeforeMCPExecution |-> "tool_name",
                 BeforeReadFile |-> "file_path", BeforeTabFileRead |-> "file_path",
                 PreToolUse |-> "tool_name"],
     gemini |-> [BeforeTool |-> "tool_name"],
     codex |-> [PreToolUse |-> "tool_name", PermissionRequest |-> "tool_name"],
     vscode |-> [PreToolUse |-> "tool_name"],
     copilot |-> [PreToolUse |-> "tool_name", PermissionRequest |-> "tool_name"],
     openhands |-> [PreToolUse |-> "tool_name"],
     hermes |-> [PreToolCall |-> "tool_name"],
     antigravity |-> [PreToolUse |-> "toolCall.name"]]

\* A document of an updated agent: names added, optional ones gone, one new
\* spelling each, strings never heard of where the struct has an enum.
Tolerable(s, doc) ==
    \A f \in Fields(s) :
        /\ f \in s.required \cup s.checked => Given(s, f, doc) # {}
        /\ Cardinality(Given(s, f, doc)) <= 1
        /\ \A n \in Given(s, f, doc) :
            doc[n] = "good" \/ (f \in s.enums /\ doc[n] = "unheard")

\* A gate refuses the document that does not name the tool to be judged (for
\* Cursor's gates on commands and files: the command, the file), by a string
\* under a name this version knows; and no hook refuses what only grew or
\* shrank around what it needs (cursor/src/types.rs:7).  What the tool is given
\* is not asked for here: see JudgedAsGiven.
ReadOrRefused(agent, hook, doc) ==
    LET s == Structs[agent][hook]
    IN  /\ hook \in DOMAIN Subject[agent] =>
            LET names == Given(s, Subject[agent][hook], doc)
            IN  Reads(s, doc) => \E n \in names : doc[n] \in {"good", "blank", "unheard"}
        /\ Tolerable(s, doc) => Reads(s, doc)

\* A command, path or URL that the arguments give under a name this version
\* knows is what is judged, whatever else is there; arguments that give none
\* are judged whole.
\*
\* With an exception for most agents: where Claude Code, Cursor, Gemini, VS Code
\* and Antigravity find no command, path or URL, Copilot no command or path and
\* Codex no command, the gate neither refuses nor judges the arguments but takes
\* an empty text for it (claude/src/hooks.rs:252-348), which the rules on
\* commands, paths and URLs pass by (core/src/tool.rs:57).
TakesEmpty == {"claude", "cursor", "gemini", "vscode", "antigravity"} \X {"shell", "read", "edit", "web"}
              \cup {"copilot"} \X {"shell", "read", "edit"} \cup {<<"codex", "shell">>}
JudgedAsGiven(agent, kind, args) ==
    LET known == ToSet(ArgumentKeys[agent][kind]) \cap DOMAIN args
        judged == Judged(agent, kind, args)
    IN  /\ (\E k \in known : args[k] = "good") /\ (\A k \in known : args[k] # "blank")
            => judged = "good"
        /\ (\A k \in known : args[k] \notin {"good", "blank"})
            => judged = IF <<agent, kind>> \in TakesEmpty THEN "blank" ELSE "whole"
=============================================================================
