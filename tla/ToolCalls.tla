----------------------------- MODULE ToolCalls -----------------------------
(***************************************************************************)
(* The shared classifier of tool calls (hooks/core tool.rs), for hosts     *)
(* that ship a bare tool name and input.  A call is the family its folded  *)
(* name falls into, the command a multiplexed editor was given, and which  *)
(* of the recognised arguments are present.                                *)
(***************************************************************************)
EXTENDS HookEvents

\* op is the command of a multiplexed editor.  For a patch it says whether a
\* diff body is present.
EditorCommands == {"view", "create", "delete", "str_replace", "none"}

file_op_for(call) ==
    CASE call.name = "editor" ->
            Arm([view |-> "FileRead", create |-> "FileWrite",
                 delete |-> "FileDelete"], call.op, "FileEdit")
      [] call.name \in {"read", "write", "edit", "delete", "patch"} ->
            [read |-> "FileRead", write |-> "FileWrite", edit |-> "FileEdit",
             delete |-> "FileDelete", patch |-> "FileEdit"][call.name]
      [] OTHER -> "None"

\* A file operation needs a path, and a patch a path or a body.
file_operation_for(call) ==
    IF call.path \/ (call.name = "patch" /\ call.op = "body")
    THEN file_op_for(call) ELSE "None"

web_fetch_for(call) ==
    IF call.name = "web" /\ call.url THEN "WebFetch" ELSE "None"

\* The action of a call on a host whose tools are not known in advance, and
\* the observation of its result.
Classified(call) ==
    IF call.name = "shell" THEN "ShellCommand"
    ELSE IF file_operation_for(call) # "None" THEN file_operation_for(call)
    ELSE IF web_fetch_for(call) # "None" THEN "WebFetch"
    ELSE "ToolCall"

\* Mutant: the result is classified by the tool's name alone.
ClassifiedByName(call) ==
    IF call.name = "shell" THEN "ShellCommandOutput"
    ELSE IF file_op_for(call) # "None" THEN "FileOperationResult"
    ELSE IF call.name = "web" THEN "WebFetchOutput"
    ELSE "ToolOutput"

ClassifiedResult(call) ==
    IF call.name = "shell" THEN "ShellCommandOutput"
    ELSE IF file_operation_for(call) # "None" THEN "FileOperationResult"
    ELSE IF web_fetch_for(call) # "None" THEN "WebFetchOutput"
    ELSE "ToolOutput"

\* The kind of result the policies on an action's outcome look at.
ResultOf(action) ==
    Arm([ShellCommand |-> "ShellCommandOutput", WebFetch |-> "WebFetchOutput",
         ToolCall |-> "ToolOutput"], action, "FileOperationResult")

\* The calls a host can make: a family with its arguments, present or not.
Calls(families) ==
    {c \in [name : families, op : EditorCommands \cup {"body"},
            path : BOOLEAN, url : BOOLEAN] :
        /\ c.op \in EditorCommands \ {"none"} => c.name = "editor"
        /\ c.op = "body" => c.name = "patch"
        /\ c.url => c.name = "web"
        /\ c.path => c.name \notin {"shell", "web", "blank"}}

AllFamilies == {"shell", "read", "write", "edit", "delete", "patch", "editor",
                "search", "notebook", "web", "mcp", "blank"}

\* event.validate() of the tool events refuses a blank tool name.
Validated(call, next) ==
    IF call.name = "blank" THEN Fail("Message") ELSE next
=============================================================================
