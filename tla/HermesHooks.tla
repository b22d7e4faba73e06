---------------------------- MODULE HermesHooks ----------------------------
(***************************************************************************)
(* The Hermes adapter.  One event type serves every hook; the session it   *)
(* names decides the agent, so it is parsed before the connection.         *)
(***************************************************************************)
EXTENDS ToolCalls

Families == AllFamilies
ToolHooks == {"PreToolCall", "PostToolCall", "TransformToolResult"}
TextHooks == {"PreLlmCall", "PostLlmCall", "TransformLlmOutput",
              "PreGatewayDispatch"}
LifecycleHooks == {"OnSessionStart", "OnSessionEnd", "OnSessionFinalize",
                   "OnSessionReset", "SubagentStart", "SubagentStop"}
ApprovalHooks == {"PreApprovalRequest", "PostApprovalResponse"}

Inputs ==
    {WithCall(h, c) : h \in ToolHooks, c \in Calls(Families)}
    \cup {Detailed(h, d) : h \in TextHooks, d \in {"text", "empty"}}
    \cup {Plain(h) : h \in LifecycleHooks \cup ApprovalHooks \cup
             {"TransformTerminalOutput", "PreVerify"}}

is_adjudication(hook) == hook \in {"PreToolCall", "PreVerify"}

-----------------------------------------------------------------------------
Ok == NoOpinion
Block == Says("action", "block")
ContinueTurn == Says("action", "continue")
Context == Says("context", "policy")

PreToolCall(in, got) ==
    Validated(in.call, Adjudicate(Action(Classified(in.call)), got,
                           Refusing(Block, Ok)))

record_tool_observation(in, got) ==
    Validated(in.call, Observe(Observation(ClassifiedResult(in.call)), got, Ok))

\* The only trace of a refused prompt is a note to the model.
PreLlmCall(got) ==
    IF got = << >> THEN Send(UserPrompt)
    ELSE Reply(Refuse(got[1], Context, Ok))

PreVerify(got) ==
    Adjudicate(Observation("Thought"), got,
        Refusing(ContinueTurn, Ok))

PreGatewayDispatch(got) == Observe(UserPrompt, got, Ok)

TransformTerminalOutput(got) ==
    Observe(Observation("ShellCommandOutput"), got, Ok)

Handle(in, got) ==
    CASE in.hook = "PreToolCall" -> PreToolCall(in, got)
      [] in.hook \in {"PostToolCall", "TransformToolResult"} ->
            record_tool_observation(in, got)
      [] in.hook \in TextHooks /\ in.detail = "empty" -> Reply(Ok)
      [] in.hook = "PreLlmCall" /\ in.detail = "text" -> PreLlmCall(got)
      [] in.hook = "PreGatewayDispatch" /\ in.detail = "text" ->
            PreGatewayDispatch(got)
      [] in.hook \in {"PostLlmCall", "TransformLlmOutput"}
         /\ in.detail = "text" ->
            Observe(Observation("AssistantPrompt"), got, Ok)
      [] in.hook = "TransformTerminalOutput" ->
            TransformTerminalOutput(got)
      [] in.hook = "PreVerify" -> PreVerify(got)
      [] in.hook \in LifecycleHooks \cup ApprovalHooks ->
            Observe(Observation("Thought"), got, Ok)

Degraded(in, error) ==
    Arm([PreToolCall |-> Block, PreVerify |-> ContinueTurn], in.hook, Ok)

Enforces(in, error) == is_adjudication(in.hook)

\* is_enforcing, by the action Hermes acts on at each hook.
Blocks(in, r) ==
    \/ in.hook = "PreToolCall" /\ r = Block
    \/ in.hook = "PreVerify" /\ r = ContinueTurn
Asks(in, r) == FALSE
=============================================================================
