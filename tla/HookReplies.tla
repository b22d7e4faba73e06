------------------------------ MODULE HookReplies ------------------------------
(***************************************************************************)
(* What the hooks print on stdout: the replies that the constructors of    *)
(* <agent>/src/response.rs build, the JSON serde makes of them, and what    *)
(* the agent takes from that JSON.  An agent ignores a key it does not know *)
(* and goes ahead, so a refusal under a wrong name, or at a wrong place, is *)
(* no refusal.                                                             *)
(*                                                                         *)
(* A reply is its fields that are set, those of hookSpecificOutput apart;  *)
(* "why" is the reason and "what" any other content.                       *)
(***************************************************************************)
EXTENDS Naturals, Sequences, TLC

Reply(top, specific) == [top |-> top, specific |-> specific]
Top(fields) == Reply(fields, << >>)
Specific(event, fields) == Reply(<< >>, ("hook_event_name" :> event) @@ fields)

-----------------------------------------------------------------------------
(***************************************************************************)
(* Claude Code.                                                            *)
(***************************************************************************)
ClaudeReply(top, specific) ==
    Reply(top @@ [continue_execution |-> "true", suppress_output |-> "false"], specific)
ClaudeSpecific(event, fields) == ClaudeReply(<< >>, Specific(event, fields).specific)
ClaudeBlock == [decision |-> "block", reason |-> "why"]

ClaudeToolReplies ==
    LET PreTool(d) ==
            ClaudeSpecific("PreToolUse", [permission_decision |-> d,
                                          permission_decision_reason |-> "why"])
    IN  [pre_tool_deny |-> PreTool("deny"), pre_tool_ask |-> PreTool("ask")]

ClaudePermissionReplies ==
    LET Denied == [behavior |-> "deny", message |-> "why"]
    IN  [permission_deny |-> ClaudeSpecific("PermissionRequest", Denied),
         permission_deny_and_interrupt |->
            ClaudeSpecific("PermissionRequest", Denied @@ [interrupt |-> "true"])]

ClaudePostToolReplies ==
    LET PostTool(fields) == Specific("PostToolUse", fields).specific
    IN  [post_tool_block |-> ClaudeReply(ClaudeBlock, PostTool(<< >>)),
         post_tool_block_with_redacted_output |->
            ClaudeReply(ClaudeBlock, PostTool([updated_tool_output |-> "what"])),
         post_tool_with_context |->
            ClaudeReply(<< >>, PostTool([additional_context |-> "what"])),
         post_tool_failure_with_context |->
            ClaudeSpecific("PostToolUseFailure", [additional_context |-> "what"])]

ClaudeContextReplies ==
    LET Context(event) == ClaudeSpecific(event, [additional_context |-> "what"])
    IN  [prompt_block |->
            ClaudeReply(ClaudeBlock, Specific("UserPromptSubmit", << >>).specific),
         prompt_with_context |-> Context("UserPromptSubmit"),
         session_start_with_context |-> Context("SessionStart"),
         session_start_with_env |-> ClaudeSpecific("SessionStart", [env |-> "what"]),
         subagent_start_with_context |-> Context("SubagentStart")]

ClaudeTurnReplies ==
    [allow |-> ClaudeReply(<< >>, << >>),
     stop |-> ClaudeReply([continue_execution |-> "false", stop_reason |-> "why"], << >>),
     block |-> ClaudeReply(ClaudeBlock, << >>),
     stop_block |-> ClaudeReply(ClaudeBlock, << >>),
     subagent_stop_block |-> ClaudeReply(ClaudeBlock, << >>),
     with_suppress_output |-> ClaudeReply([suppress_output |-> "true"], << >>),
     with_system_message |-> ClaudeReply([system_message |-> "what"], << >>)]

-----------------------------------------------------------------------------
(***************************************************************************)
(* Cursor.                                                                 *)
(***************************************************************************)
CursorDeny(fields) == Top([permission |-> "deny"] @@ fields)

CursorExecutionReplies ==
    [allow_execution |-> Top([permission |-> "allow"]),
     deny_execution |-> CursorDeny([user_message |-> "why"]),
     deny_execution_with_agent_message |->
        CursorDeny([user_message |-> "why", agent_message |-> "why"]),
     ask_execution |-> Top([permission |-> "ask", user_message |-> "why"])]
CursorTabReplies ==
    [allow_tab_read |-> Top([permission |-> "allow"]), deny_tab_read |-> CursorDeny(<< >>)]
CursorPromptReplies ==
    [allow_prompt |-> Top([continue_execution |-> "true"]),
     block_prompt |-> Top([continue_execution |-> "false", user_message |-> "why"])]
CursorSessionReplies ==
    [session_start_ok |-> Top([continue_execution |-> "true"]),
     session_start_block |-> Top([continue_execution |-> "false", user_message |-> "why"])]
CursorToolReplies ==
    [allow_tool_use |-> Top([permission |-> "allow", updated_input |-> "what"]),
     deny_tool_use |-> CursorDeny([user_message |-> "why", agent_message |-> "why"])]
CursorSubagentReplies ==
    [subagent_start_allow |-> Top([permission |-> "allow"]),
     subagent_start_deny |-> CursorDeny([user_message |-> "why"])]
CursorStopReplies ==
    [stop_done |-> Top(<< >>), stop_with_followup |-> Top([followup_message |-> "what"])]
CursorReplies ==
    CursorExecutionReplies @@ CursorTabReplies @@ CursorPromptReplies
    @@ CursorSessionReplies @@ CursorToolReplies @@ CursorSubagentReplies
    @@ CursorStopReplies
    @@ [ok |-> Top(<< >>), pre_compact_ok |-> Top(<< >>), workspace_open_ok |-> Top(<< >>),
        allow_read_file |-> CursorExecutionReplies.allow_execution,
        deny_read_file |-> CursorExecutionReplies.deny_execution]

-----------------------------------------------------------------------------
(***************************************************************************)
(* Gemini.                                                                 *)
(***************************************************************************)
GeminiOutput(fields) == Reply(<< >>, fields)

GeminiDecisions ==
    [allow |-> Top([decision |-> "allow"]),
     deny |-> Top([decision |-> "deny", reason |-> "why"]),
     deny_with_message |->
        Top([decision |-> "deny", reason |-> "why", system_message |-> "why"]),
     ok |-> Top(<< >>),
     with_system_message |-> Top([system_message |-> "what"])]
\* hookSpecificOutput.toolConfig.  The reason of disable_all_tools has no place.
GeminiToolConfigs ==
    [allow_all_tools |-> GeminiOutput([mode |-> "AUTO"]),
     disable_all_tools |-> GeminiOutput([mode |-> "NONE"]),
     allow_tools |-> GeminiOutput([mode |-> "AUTO", allowed_function_names |-> "what"])]
GeminiOverrides ==
    [allow_with_modified_input |->
        Reply([decision |-> "allow"], [tool_input |-> "what"]),
     retry |-> Top([decision |-> "deny", reason |-> "why"]),
     clear_context |-> GeminiOutput([clear_context |-> "true"]),
     with_llm_request_override |-> GeminiOutput([llm_request |-> "what"]),
     mock_llm_response |-> GeminiOutput([llm_response |-> "what"]),
     replace_llm_response |-> GeminiOutput([llm_response |-> "what"]),
     stop |-> Top([continue_execution |-> "false", stop_reason |-> "why"])]

\* The builders that add one field to a reply.
GeminiAdds ==
    {Top([system_message |-> "what"]), Top([suppress_output |-> "true"]),
     Top([continue_execution |-> "true"]), Top([stop_reason |-> "what"]),
     GeminiOutput([additional_context |-> "what"]), GeminiOutput([llm_request |-> "what"]),
     GeminiOutput([llm_response |-> "what"]), GeminiOutput([clear_context |-> "true"])}
Added(r, add) == Reply(add.top @@ r.top, add.specific @@ r.specific)

-----------------------------------------------------------------------------
(***************************************************************************)
(* VS Code, Codex, Copilot, Hermes and Antigravity.                        *)
(***************************************************************************)
VscodeReplies ==
    LET PreTool(d) == Specific("PreToolUse", [permission_decision |-> d,
                                              permission_decision_reason |-> "why"])
        Context(event) == Specific(event, [additional_context |-> "what"])
        Block == Top([decision |-> "block", reason |-> "why"])
    IN  [allow |-> Top(<< >>),
         session_start_context |-> Context("SessionStart"),
         user_prompt_deny |-> Top([continue_execution |-> "false", stop_reason |-> "why"]),
         user_prompt_context |-> Top([system_message |-> "what"]),
         pre_tool_deny |-> PreTool("deny"),
         pre_tool_ask |-> PreTool("ask"),
         post_tool_block |-> Block,
         post_tool_with_context |-> Context("PostToolUse"),
         subagent_start_context |-> Context("SubagentStart"),
         subagent_stop_block |-> Block,
         stop_block |-> Specific("Stop", [decision |-> "block", reason |-> "why"])]

CodexToolReplies ==
    LET PreTool(d) == Specific("PreToolUse", [permission_decision |-> d,
                                              permission_decision_reason |-> "why"])
    IN  [deny_tool |-> PreTool("deny"), ask_tool |-> PreTool("ask")]
CodexPermissionReplies ==
    [allow_permission |-> Specific("PermissionRequest", [behavior |-> "allow"]),
     deny_permission |->
        Specific("PermissionRequest", [behavior |-> "deny", message |-> "why"])]
CodexReplies ==
    LET Block == Top([decision |-> "block", reason |-> "why"])
    IN  CodexToolReplies @@ CodexPermissionReplies
        @@ [ok |-> Top(<< >>), block_prompt |-> Block, block_post_tool |-> Block,
            continue_subagent |-> Block]

CopilotReplies ==
    [ok |-> Top(<< >>),
     block_tool |-> Top([permission_decision |-> "deny", permission_decision_reason |-> "why"]),
     allow_tool_with_modified_args |->
        Top([permission_decision |-> "allow", modified_args |-> "what"]),
     permission_allow |-> Top([behavior |-> "allow", message |-> "what"]),
     permission_deny |-> Top([behavior |-> "deny", message |-> "why", interrupt |-> "true"]),
     block_continuation |-> Top([decision |-> "block", reason |-> "why"]),
     additional_context |-> Top([additional_context |-> "what"]),
     replace_transformed_prompt |-> Top([modified_transformed_prompt |-> "why"])]

HermesReplies ==
    [ok |-> Top(<< >>),
     block |-> Top([action |-> "block", message |-> "why"]),
     context |-> Top([context |-> "what"]),
     continue_turn |-> Top([action |-> "continue", message |-> "why"])]

AntigravityReplies ==
    [ok |-> Top(<< >>),
     allow_tool |-> Top([decision |-> "allow"]),
     deny_tool |-> Top([decision |-> "deny", reason |-> "why"]),
     ask_tool |-> Top([decision |-> "ask", reason |-> "why"]),
     allow_stop |-> Top([decision |-> "stop"]),
     continue_loop |-> Top([decision |-> "continue", reason |-> "why"])]

Replies ==
    [claude |-> ClaudeToolReplies @@ ClaudePermissionReplies @@ ClaudePostToolReplies
                @@ ClaudeContextReplies @@ ClaudeTurnReplies,
     cursor |-> CursorReplies,
     gemini |-> GeminiDecisions @@ GeminiToolConfigs @@ GeminiOverrides,
     vscode |-> VscodeReplies, codex |-> CodexReplies, copilot |-> CopilotReplies,
     hermes |-> HermesReplies, antigravity |-> AntigravityReplies]

\* is_deny (Hermes: is_enforcing), which decides the process's exit code.
IsDeny(agent, r) ==
    LET Says(part, f, values) == f \in DOMAIN part /\ part[f] \in values
        Continues(part) == Says(part, "continue_execution", {"false"})
    IN  CASE agent = "cursor" -> Says(r.top, "permission", {"deny"}) \/ Continues(r.top)
          [] agent = "gemini" ->
                \/ Says(r.top, "decision", {"deny", "block"})
                \/ Continues(r.top)
                \/ Says(r.specific, "mode", {"NONE"})
          [] agent = "vscode" ->
                \/ Continues(r.top)
                \/ Says(r.top, "decision", {"block"})
                \/ Says(r.specific, "permission_decision", {"deny"})
                \/ Says(r.specific, "decision", {"block"})
          [] agent = "copilot" ->
                \/ Says(r.top, "permission_decision", {"deny"})
                \/ Says(r.top, "behavior", {"deny"})
                \/ Says(r.top, "decision", {"block"})
                \/ "modified_transformed_prompt" \in DOMAIN r.top
          [] agent = "hermes" -> Says(r.top, "action", {"block", "continue"})
          [] agent = "antigravity" -> Says(r.top, "decision", {"deny"})
AgentsWithIsDeny == {"cursor", "gemini", "vscode", "copilot", "hermes", "antigravity"}

-----------------------------------------------------------------------------
(***************************************************************************)
(* The JSON.  serde leaves out what is None, and from Claude's replies a   *)
(* continue that is true and a suppressOutput that is false.               *)
(***************************************************************************)
Camel ==
    [continue_execution |-> "continue", stop_reason |-> "stopReason",
     system_message |-> "systemMessage", suppress_output |-> "suppressOutput",
     permission_decision |-> "permissionDecision",
     permission_decision_reason |-> "permissionDecisionReason",
     modified_transformed_prompt |-> "modifiedTransformedPrompt",
     additional_context |-> "additionalContext",
     updated_tool_output |-> "updatedToolOutput", modified_args |-> "modifiedArgs",
     updated_input |-> "updatedInput", tool_input |-> "toolInput",
     clear_context |-> "clearContext", llm_request |-> "llmRequest",
     llm_response |-> "llmResponse", allowed_function_names |-> "allowedFunctionNames",
     hook_event_name |-> "hookEventName"]
Snake == [continue_execution |-> "continue"]

Named(agent, f) ==
    LET names == IF agent \in {"cursor", "hermes"} THEN Snake ELSE Camel
    IN  IF f \in DOMAIN names THEN names[f] ELSE f

Left(agent, f, value) ==
    /\ agent = "claude"
    /\ <<f, value>> \in {<<"continue_execution", "true">>, <<"suppress_output", "false">>}

Json(agent, r) ==
    LET Written(part) ==
            LET kept == {f \in DOMAIN part : ~Left(agent, f, part[f])}
            IN  [n \in {Named(agent, f) : f \in kept} |->
                    part[CHOOSE f \in kept : Named(agent, f) = n]]
    IN  [top |-> Written(r.top), specific |-> Written(r.specific)]

-----------------------------------------------------------------------------
(***************************************************************************)
(* What the agents' documentation says of the JSON they read: a value at a *)
(* key refuses the action, asks the user or goes on with the turn, and      *)
(* another key tells why.                                                  *)
(***************************************************************************)
Clause(at, key, value, means, told) ==
    [at |-> at, key |-> key, value |-> value, means |-> means, told |-> told]

Stops == Clause("top", "continue", "false", "refused", {"stopReason"})
Blocks == Clause("top", "decision", "block", "refused", {"reason"})
Permissions(at) ==
    {Clause(at, "permissionDecision", "deny", "refused", {"permissionDecisionReason"}),
     Clause(at, "permissionDecision", "ask", "asked", {"permissionDecisionReason"}),
     Clause(at, "behavior", "deny", "refused", {"message"})}

Contract ==
    [claude |-> {Stops, Blocks} \cup Permissions("specific"),
     vscode |-> {Stops, Blocks, Clause("specific", "decision", "block", "refused", {"reason"})}
                \cup Permissions("specific"),
     codex |-> {Blocks} \cup Permissions("specific"),
     copilot |-> {Blocks, Clause("top", "modifiedTransformedPrompt", "why", "refused",
                                 {"modifiedTransformedPrompt"})} \cup Permissions("top"),
     cursor |->
        {Clause("top", "continue", "false", "refused", {"user_message"}),
         Clause("top", "permission", "deny", "refused", {"user_message", "agent_message"}),
         Clause("top", "permission", "ask", "asked", {"user_message"})},
     gemini |->
        {Stops, Blocks, Clause("top", "decision", "deny", "refused", {"reason"}),
         Clause("specific", "mode", "NONE", "refused", {})},
     hermes |-> {Clause("top", "action", "block", "refused", {"message"}),
                 Clause("top", "action", "continue", "refused", {"message"})},
     antigravity |->
        {Clause("top", "decision", "deny", "refused", {"reason"}),
         Clause("top", "decision", "ask", "asked", {"reason"}),
         Clause("top", "decision", "continue", "again", {"reason"})}]

Heeded(agent, json) ==
    {c \in Contract[agent] : c.key \in DOMAIN json[c.at] /\ json[c.at][c.key] = c.value}
Heard(agent, json) ==
    LET means == {c.means : c \in Heeded(agent, json)}
    IN  IF "refused" \in means THEN "refused"
        ELSE IF means = {} THEN "proceed" ELSE CHOOSE m \in means : TRUE
Told(agent, json) ==
    \E c \in Heeded(agent, json) : \E k \in c.told :
        k \in DOMAIN json[c.at] /\ json[c.at][k] = "why"

-----------------------------------------------------------------------------
(***************************************************************************)
(* The output of a tool that Claude has already run, when a policy blocks   *)
(* it: its shape stays, what it says goes.                                 *)
(***************************************************************************)
Preserved == {"type", "media_type"}
Neutral ==
    [string |-> "withheld", integer |-> "0", float |-> "0.0", bool |-> "false",
     null |-> "null"]

KeepsValue(key, v) == key \in Preserved /\ v.kind = "string"

RECURSIVE redact_tool_output(_)
redact_tool_output(v) ==
    CASE v.kind = "list" ->
            [v EXCEPT !.of = [i \in DOMAIN v.of |-> redact_tool_output(v.of[i])]]
      [] v.kind = "object" ->
            [v EXCEPT !.of = [k \in DOMAIN v.of |->
                IF KeepsValue(k, v.of[k]) THEN v.of[k] ELSE redact_tool_output(v.of[k])]]
      [] OTHER -> [v EXCEPT !.of = Neutral[v.kind]]

-----------------------------------------------------------------------------
(***************************************************************************)
(* Properties.                                                             *)
(***************************************************************************)
Meant(name) ==
    CASE name \in {"pre_tool_deny", "permission_deny", "permission_deny_and_interrupt",
                   "post_tool_block", "post_tool_block_with_redacted_output", "prompt_block",
                   "stop", "block", "stop_block", "subagent_stop_block", "deny_execution",
                   "deny_execution_with_agent_message", "deny_tab_read", "block_prompt",
                   "session_start_block", "deny_tool_use", "subagent_start_deny",
                   "deny_read_file", "deny", "deny_with_message", "disable_all_tools", "retry",
                   "user_prompt_deny", "deny_tool", "deny_permission", "block_post_tool",
                   "continue_subagent", "block_tool", "block_continuation",
                   "replace_transformed_prompt", "continue_turn"} -> "refused"
      [] name \in {"pre_tool_ask", "ask_execution", "ask_tool"} -> "asked"
      [] name = "continue_loop" -> "again"
      [] OTHER -> "proceed"

\* Their responses have no place for a reason (cursor/src/response.rs:95,
\* gemini/src/response.rs:233).
Silent == {"deny_tab_read", "disable_all_tools"}

\* An agent takes from the JSON of a reply what the constructor's name says, is
\* told why when it is refused or asked, and the exit code says the same; adding
\* a field to one of Gemini's replies leaves what it says.
ReplyIsHeeded(agent, name) ==
    LET r == Replies[agent][name]
        json == Json(agent, r)
    IN  /\ Heard(agent, json) = Meant(name)
        /\ Meant(name) # "proceed" /\ name \notin Silent => Told(agent, json)
        /\ agent \in AgentsWithIsDeny => (IsDeny(agent, r) <=> Meant(name) = "refused")
        /\ agent = "gemini" => \A add \in GeminiAdds :
                "continue_execution" \notin DOMAIN add.top =>
                    Heard(agent, Json(agent, Added(r, add))) = Heard(agent, json)

RECURSIVE SameShape(_, _), Scalars(_, _)
SameShape(v, w) ==
    /\ v.kind = w.kind
    /\ v.kind \in {"list", "object"} =>
        /\ DOMAIN v.of = DOMAIN w.of
        /\ \A k \in DOMAIN v.of : SameShape(v.of[k], w.of[k])
\* <<the key of the object it is directly in, kind, value>>
Scalars(v, key) ==
    CASE v.kind = "list" -> UNION {Scalars(v.of[i], "item") : i \in DOMAIN v.of}
      [] v.kind = "object" -> UNION {Scalars(v.of[k], k) : k \in DOMAIN v.of}
      [] OTHER -> {<<key, v.kind, v.of>>}

\* A blocked output keeps its shape and its tags, and nothing else of what the
\* tool returned is left in it (claude/src/response.rs:206-224).
OutputIsWithheld(v) ==
    LET shown == redact_tool_output(v)
        Tag(s) == s[1] \in Preserved /\ s[2] = "string"
    IN  /\ SameShape(v, shown)
        /\ \A s \in Scalars(shown, "") : Tag(s) \/ s[3] = Neutral[s[2]]
        /\ {s \in Scalars(v, "") : Tag(s)} = {s \in Scalars(shown, "") : Tag(s)}
=============================================================================
