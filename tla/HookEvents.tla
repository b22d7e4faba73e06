----------------------------- MODULE HookEvents -----------------------------
(***************************************************************************)
(* What the ten hook adapters share: the input of one hook process, the    *)
(* harness's answers, the events an adapter submits, and the three things  *)
(* a handler can do next, written as a function of the answers it has got  *)
(* so far.                                                                 *)
(***************************************************************************)
EXTENDS Naturals, Sequences

Decisions == {"Allow", "Deny", "Escalate"}
Refusals == {"Deny", "Escalate"}
HookErrors == {"Config", "Unreachable", "ServiceTimeout", "ServerRejected",
               "ServiceUnavailable", "BudgetExceeded", "Panicked", "Message"}
Answers == Decisions \cup HookErrors

\* A HarnessClientError as the hook reports it.
FromClientError(e) ==
    CASE e = "Config" -> "Config"
      [] e = "Unavailable" -> "Unreachable"
      [] e = "Timeout" -> "ServiceTimeout"
      [] e = "Decode" -> "ServiceUnavailable"
      [] OTHER -> "ServerRejected"

ClientErrors == {"Unavailable", "Server", "InvalidArgument", "NotFound",
                 "AlreadyExists", "Decode"}

-----------------------------------------------------------------------------
\* The JSON a hook reads: its event, the tool call if it has one, a variant
\* of its other fields, and the files its prompt mentions.
NoCall == [name |-> "none", op |-> "none", path |-> FALSE, url |-> FALSE]

Input(hook, call, detail, mentions) ==
    [hook |-> hook, call |-> call, detail |-> detail, mentions |-> mentions]
Plain(hook) == Input(hook, NoCall, "plain", 0)
Detailed(hook, detail) == Input(hook, NoCall, detail, 0)
WithCall(hook, call) == Input(hook, call, "plain", 0)
WithMentions(hook, n) == Input(hook, NoCall, "plain", n)

\* The events, by what the policies tell apart.
Action(kind) == [type |-> "Action", kind |-> kind, actor |-> "agent"]
Observation(kind) == [type |-> "Observation", kind |-> kind, actor |-> "agent"]
Control(kind) == [type |-> "Control", kind |-> kind, actor |-> "agent"]
UserPrompt == [type |-> "Observation", kind |-> "UserPrompt",
               actor |-> "human"]

Actions == {"ShellCommand", "FileRead", "FileWrite", "FileEdit", "FileDelete",
            "WebFetch", "ToolCall"}
Observations == {"ShellCommandOutput", "FileOperationResult", "WebFetchOutput",
                 "ToolOutput", "UserPrompt", "SystemPrompt", "AssistantPrompt",
                 "Thought"}
Controls == {"Started", "Completed", "Failed", "Suspended", "Terminated"}

Events ==
    {Action(k) : k \in Actions} \cup {Observation(k) : k \in Observations}
        \cup {Control(k) : k \in Controls} \cup {UserPrompt}

\* The verdict in a response, and the JSON field the host reads it from.
Says(field, value) == [field |-> field, value |-> value]
NoOpinion == Says("none", "none")

-----------------------------------------------------------------------------
Send(event) == [do |-> "send", event |-> event, response |-> NoOpinion]
Reply(response) ==
    [do |-> "reply", event |-> Control("none"), response |-> response]
Fail(error) ==
    [do |-> "fail", event |-> Control("none"), response |-> Says("error", error)]

\* self.harness.adjudicate(event).await? and a match on the decision.
Adjudicate(event, got, answer) ==
    IF got = << >> THEN Send(event)
    ELSE IF got[1] \in HookErrors THEN Fail(got[1])
    ELSE Reply(answer[got[1]])

\* An adjudication whose failure is logged and whose decision binds nothing.
Observe(event, got, response) ==
    IF got = << >> THEN Send(event) ELSE Reply(response)

\* Deny and Escalate mapped to the same response; an error allows.
Refuse(d, blocked, allowed) == IF d \in Refusals THEN blocked ELSE allowed
Refusing(blocked, allowed) ==
    [d \in Decisions |-> Refuse(d, blocked, allowed)]
Whatever(response) == [d \in Decisions |-> response]

\* A prompt that mentions files: one read for each, in turn.  The first that
\* is not allowed blocks the prompt, which is then not submitted itself.
PromptAfterReads(n, got, blocked, allowed) ==
    LET reads == SubSeq(got, 1, IF Len(got) < n THEN Len(got) ELSE n)
        bad == {i \in DOMAIN reads : reads[i] # "Allow"}
    IN  IF bad # {}
        THEN LET answer == reads[CHOOSE i \in bad : \A j \in bad : i <= j]
             IN  IF answer \in Refusals THEN Reply(blocked) ELSE Fail(answer)
        ELSE IF Len(got) < n THEN Send(Action("FileRead"))
        ELSE Adjudicate(UserPrompt, SubSeq(got, n + 1, Len(got)),
                 Refusing(blocked, allowed))

\* A row of a match on tool names with a catch-all arm.
Arm(arms, name, otherwise) ==
    IF name \in DOMAIN arms THEN arms[name] ELSE otherwise
=============================================================================
