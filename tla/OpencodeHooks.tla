--------------------------- MODULE OpencodeHooks ---------------------------
(***************************************************************************)
(* The opencode adapter: the hook command, the request handler behind it,  *)
(* and the plugin that runs the command.  The handler answers a failed     *)
(* adjudication itself; a denied hook ends with exit code 2; and the       *)
(* plugin acts on the answer of two of its five hooks only.                *)
(***************************************************************************)
EXTENDS ToolCalls

Families == AllFamilies \ {"blank"}

\* The event command carries any other kind, or none.
EventKinds == {"session.created", "session.updated", "session.deleted",
               "session.idle", "session.error", "file.edited", "missing"}

Inputs ==
    {WithCall(h, c) : h \in {"ToolExecuteBefore", "ToolExecuteAfter"},
                      c \in Calls(Families)}
    \cup {Input("ToolExecuteAfter", c, "error", 0) : c \in Calls(Families)}
    \cup {Plain("ChatMessage"), Plain("PermissionAsk")}
    \cup {Detailed("Event", k) : k \in EventKinds}

is_adjudication(hook) == hook \in {"ToolExecuteBefore", "PermissionAsk"}

-----------------------------------------------------------------------------
Ok == NoOpinion
Deny == Says("decision", "deny")

action_from_tool_payload(call) == Classified(call)
observation_from_tool_payload(in) ==
    IF in.detail = "error" THEN "ToolOutput" ELSE ClassifiedResult(in.call)

map_request_to_event(in) ==
    CASE in.hook = "ToolExecuteBefore" ->
            Action(action_from_tool_payload(in.call))
      [] in.hook = "ToolExecuteAfter" ->
            Observation(observation_from_tool_payload(in))
      [] in.hook = "PermissionAsk" -> Action("ToolCall")
      [] in.hook = "ChatMessage" -> UserPrompt
      [] in.detail = "session.created" -> Control("Started")
      [] in.detail = "session.deleted" -> Control("Completed")
      [] in.detail = "session.error" -> Control("Failed")
      [] OTHER -> Observation("Thought")

handle_sidecar_request(in, got) ==
    IF got = << >> THEN Send(map_request_to_event(in))
    ELSE IF got[1] \in HookErrors
    THEN Reply(IF is_adjudication(in.hook) THEN Deny ELSE Ok)
    ELSE Reply(Refuse(got[1], Deny, Ok))

Handle(in, got) ==
    IF in.hook = "Event" /\ in.detail = "missing" THEN Fail("Message")
    ELSE handle_sidecar_request(in, got)

Degraded(in, error) == IF is_adjudication(in.hook) THEN Deny ELSE Ok

Enforces(in, error) == is_adjudication(in.hook)

\* The plugin throws, or sets the status, on these two.
Blocks(in, r) == is_adjudication(in.hook) /\ r = Deny
Asks(in, r) == FALSE
=============================================================================
