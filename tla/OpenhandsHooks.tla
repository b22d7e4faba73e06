--------------------------- MODULE OpenhandsHooks ---------------------------
(***************************************************************************)
(* The OpenHands adapter.  A denied hook also ends with exit code 2.       *)
(***************************************************************************)
EXTENDS ToolCalls

Families == AllFamilies

Inputs ==
    {WithCall(h, c) : h \in {"PreToolUse", "PostToolUse"}, c \in Calls(Families)}
    \cup {Plain(h) : h \in {"SessionStart", "UserPromptSubmit", "Stop",
                            "SessionEnd"}}

is_adjudication(hook) == hook \in {"PreToolUse", "UserPromptSubmit", "Stop"}

-----------------------------------------------------------------------------
Ok == NoOpinion
Deny == Says("decision", "deny")

blocking_response == Refusing(Deny, Ok)

PreToolUse(in, got) ==
    Validated(in.call,
        Adjudicate(Action(Classified(in.call)), got, blocking_response))

PostToolUse(in, got) ==
    Validated(in.call, Observe(Observation(ClassifiedResult(in.call)), got, Ok))

SessionStart(got) == Observe(Control("Started"), got, Ok)

Handle(in, got) ==
    CASE in.hook = "PreToolUse" -> PreToolUse(in, got)
      [] in.hook = "PostToolUse" -> PostToolUse(in, got)
      [] in.hook = "UserPromptSubmit" ->
            Adjudicate(UserPrompt, got, blocking_response)
      [] in.hook = "Stop" ->
            Adjudicate(Control("Completed"), got, blocking_response)
      [] in.hook = "SessionStart" -> SessionStart(got)
      [] in.hook = "SessionEnd" -> Observe(Control("Completed"), got, Ok)

Degraded(in, error) == IF is_adjudication(in.hook) THEN Deny ELSE Ok

Enforces(in, error) == is_adjudication(in.hook)

Blocks(in, r) == r = Deny
Asks(in, r) == FALSE
=============================================================================
