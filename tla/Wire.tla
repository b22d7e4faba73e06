-------------------------------- MODULE Wire --------------------------------
(***************************************************************************)
(* The wire form of events, verdicts and the console's rows (schema/src):  *)
(* what the hooks, the harness and the console's clients send each other.  *)
(*                                                                         *)
(* A message is the record of its fields, and a field the way it is coded; *)
(* Encode and Decode are the two conversions of any of them.  An optional  *)
(* field, and a message inside a message, is a sequence of at most one     *)
(* element, since both may be missing on the wire.  Texts and floats, that *)
(* pass as they are, are one or two values each.                           *)
(*                                                                         *)
(* Integers are scaled: an i32 ends at 3, a u32 at 7, and a double holds   *)
(* every integer up to 8, beyond it the even ones.                         *)
(***************************************************************************)
EXTENDS Integers, Sequences

I32_MAX == 3
U32_MAX == 7
MAX_EXACT_INT == 8

-----------------------------------------------------------------------------
(***************************************************************************)
(* Codecs.                                                                 *)
(***************************************************************************)
Text == [as |-> "is", of |-> {"text"}]
Flag == [as |-> "is", of |-> BOOLEAN]
Count == [as |-> "count"]
Json == [as |-> "json"]
Object == [as |-> "object"]
Time == [as |-> "time"]
Shown == [as |-> "shown"]       \* a time that is read to be shown
RunName == [as |-> "run"]       \* an id that travels as a resource name
Blank == [as |-> "blank"]       \* an option that the wire spells as empty
Enum(names) == [as |-> "enum", names |-> names]
Lenient(names) == [as |-> "lenient", names |-> names] \* unknown is the first
Msg(fields) == [as |-> "message", fields |-> fields]
Sub(c) == [as |-> "required", of |-> c]
Opt(c) == [as |-> "optional", of |-> c]
All(c) == [as |-> "repeated", of |-> c]
OneOf(kinds) == [as |-> "one of", kinds |-> kinds]

\* enum_conv: the names in the order of their numbers, 0 is unspecified.
ActorType == Enum(<<"Human", "Agent", "System", "Policy">>)
FileOpType == Enum(<<"Read", "Write", "Edit", "Delete">>)
PromptRole == Enum(<<"User", "System", "Assistant">>)
Decision == Enum(<<"Allow", "Deny", "Escalate">>)
Mode == Enum(<<"Monitor", "Govern", "Steer">>)
SignalFocus == Enum(<<"Environment", "Agent", "Governance">>)
SignalSeverity == Enum(<<"Info", "Low", "Medium", "High", "Critical">>)
SignalCategory == Enum(<<
    "InputIssues", "InfrastructureFailure", "TaskDesign", "StaticKnowledge",
    "LowLevelIncoherence", "HighLevelIncoherence", "SelfCorrection",
    "RefusalBehaviour", "ToolMisuse", "EvaluationAwareness",
    "PolicyViolation", "PrivilegeEscalation", "DataExfiltration",
    "DestructiveOperation", "CredentialExposure">>)
MessageType == Enum(<<"ToolCall", "ToolResult", "UserInput", "Reasoning",
    "Lifecycle", "Adjudication", "StateCapture">>)
AgentIntent == Enum(<<"Investigate", "Plan", "Implement", "Verify", "Debug",
    "Communicate", "Lifecycle", "Govern">>)
TranscriptOutcome == Enum(<<"Success", "Partial", "Failure", "Interrupted",
    "InProgress">>)

-----------------------------------------------------------------------------
(***************************************************************************)
(* Messages of the harness (trajectory.rs, event.rs).                      *)
(***************************************************************************)
Agent == Msg([id |-> Text, provider |-> Text, platform |-> Text])
Actor == Msg([id |-> Text, actor_type |-> ActorType])
Causality == Msg([correlation_id |-> Text, causation_id |-> Opt(Text),
                  parent_id |-> Opt(Text)])

ToolCall == Msg([call_id |-> Text, tool |-> Text, arguments |-> Object])
ShellCommand == Msg([call_id |-> Text, command |-> Text, working_dir |-> Opt(Text)])
WebFetch == Msg([call_id |-> Text, url |-> Text, prompt |-> Text])
FileOperation == Msg([call_id |-> Text, operation |-> FileOpType, path |-> Text,
                      content |-> Opt(Text), old_content |-> Opt(Text)])
Action == OneOf([tool_call |-> ToolCall, shell_command |-> ShellCommand,
                 web_fetch |-> WebFetch, file_operation |-> FileOperation])

Prompt == Msg([content |-> Text, role |-> PromptRole])
Thought == Msg([thought |-> Text])
ToolOutput == Msg([call_id |-> Text, success |-> Flag, output |-> Json,
                   error |-> Opt(Text)])
ShellCommandOutput == Msg([call_id |-> Text, exit_code |-> Text, stdout |-> Text,
                           stderr |-> Text])
WebFetchOutput == Msg([call_id |-> Text, url |-> Text, code |-> Text,
                       result |-> Text])
FileOperationResult == Msg([call_id |-> Text, success |-> Flag, path |-> Opt(Text),
                            content |-> Opt(Text), error |-> Opt(Text)])
Observation == OneOf([prompt |-> Prompt, thought |-> Thought,
                      tool_output |-> ToolOutput,
                      shell_command_output |-> ShellCommandOutput,
                      web_fetch_output |-> WebFetchOutput,
                      file_operation_result |-> FileOperationResult])

Started == Msg([agent |-> Sub(Agent), task |-> Opt(Text)])
Completed == Msg([summary |-> Opt(Text)])
Failed == Msg([reason |-> Text])
Terminated == Msg([reason |-> Text, terminated_by |-> Text])
Suspended == Msg([reason |-> Text])
Resumed == Msg([resumed_by |-> Text])

Steering == Msg([instructions |-> All(Text), explanation |-> Text])
PolicyMetadata == Msg([policy_id |-> Opt(Text), description |-> Opt(Text),
                       escalate |-> Flag, escalate_arg |-> Opt(Text),
                       metadata |-> Text])
SignatureGuardrailMatch == Msg([rule |-> Text, namespace |-> Opt(Text),
                                metadata |-> Text])
SignatureGuardrailResult == Msg([triggered |-> Flag, severity |-> Opt(Text),
                                 categories |-> All(Text),
                                 matches |-> All(SignatureGuardrailMatch)])
IfcGuardrailResult == Msg([label |-> Text, fallback_reason |-> Opt(Text)])
GuardrailResults == Msg([signature |-> Opt(SignatureGuardrailResult),
                         ifc |-> Opt(IfcGuardrailResult)])
Adjudicated == Msg([decision |-> Decision, mode |-> Mode, reason |-> Text,
                    metadata |-> All(PolicyMetadata),
                    guardrails |-> Opt(GuardrailResults),
                    steering |-> Opt(Steering)])

Signal == Msg([focus |-> SignalFocus, category |-> SignalCategory,
               severity |-> SignalSeverity, description |-> Text,
               evidence_indices |-> All(Count)])
EventScanResult == Msg([explanation |-> Text, message_type |-> MessageType,
                        intent |-> AgentIntent, description |-> Text,
                        key_entities |-> All(Text), is_side_effecting |-> Flag,
                        signals |-> All(Signal), confidence |-> Text,
                        embedding |-> Blank])
TranscriptPhase == Msg([name |-> Text, description |-> Text,
                        event_indices |-> All(Count)])
TranscriptDigest == Msg([trajectory_id |-> Text, title |-> Text, summary |-> Text,
                         interim |-> Flag, phases |-> All(TranscriptPhase),
                         files_modified |-> All(Text), tools_used |-> All(Text),
                         total_events |-> Count, side_effecting_count |-> Count])
TranscriptScanResult == Msg([explanation |-> Text, outcome |-> TranscriptOutcome,
                             outcome_description |-> Text,
                             aggregate_severity |-> SignalSeverity,
                             signals |-> All(Signal), adjudication_summary |-> Text,
                             behavioral_notes |-> All(Text), confidence |-> Text])
ScanOf(result) == Msg([source_event_id |-> Text, result |-> Sub(result)])
Scanned == OneOf([message |-> ScanOf(EventScanResult),
                  transcript_digest |-> ScanOf(TranscriptDigest),
                  transcript_scan |-> ScanOf(TranscriptScanResult)])

Control == OneOf([started |-> Started, completed |-> Completed, failed |-> Failed,
                  terminated |-> Terminated, suspended |-> Suspended,
                  resumed |-> Resumed, adjudicated |-> Adjudicated,
                  scanned |-> Scanned])

Snapshot == Msg([snapshot_id |-> Text, working_dir |-> Text,
                 open_files |-> All(Text), git_branch |-> Opt(Text),
                 variables |-> All(Json)])
State == OneOf([snapshot |-> Snapshot])

TrajectoryEvent == OneOf([action |-> Action, observation |-> Observation,
                          control |-> Control, state |-> State])
Event == Msg([event_id |-> Text, trajectory_id |-> Text, agent |-> Sub(Agent),
              event_time |-> Sub(Time), actor |-> Sub(Actor),
              causality |-> Sub(Causality), event |-> Sub(TrajectoryEvent)])

-----------------------------------------------------------------------------
(***************************************************************************)
(* Rows of the console, as the server codes them (console.rs, sparkline.rs)*)
(* and as the MCP server reads them back (mcp/src/console.rs).             *)
(***************************************************************************)
AgentStatus == Lenient(<<"Unspecified", "Healthy", "Degraded", "Offline">>)
Verdict == Lenient(<<"none", "Allow", "Deny", "Escalate">>)
Category == Lenient(<<"Unspecified", "Action", "Observation", "Control", "State">>)
CellKind == Lenient(<<"Unspecified", "PromptUser", "PromptModel", "Thought",
    "Tool", "Shell", "Web", "File", "Control", "State">>)

SparklineCell == Msg([kind |-> CellKind, duration_ms |-> Text, policy_hit |-> Blank,
                      decision |-> Verdict])
TrajectorySparkline == Msg([trajectory |-> RunName, cells |-> All(SparklineCell),
                            decision |-> Verdict, truncated |-> Flag])
AgentSummary == Msg([name |-> Text, display_name |-> Text, provider |-> Text,
                     platform |-> Text, status |-> AgentStatus, health_score |-> Text,
                     last_seen |-> Opt(Shown), runs_today |-> Text, deny_rate |-> Text,
                     sparkline |-> Opt(TrajectorySparkline)])
TranscriptScan == ScanOf(TranscriptScanResult)
TrajectorySummary == Msg([name |-> Text, agent |-> Text, started_at |-> Opt(Shown),
                          duration_ms |-> Text, decision |-> Verdict,
                          event_count |-> Text, policy_hits |-> All(Text),
                          score |-> Text, summary |-> Opt(Text), status |-> Text,
                          update_time |-> Opt(Shown), digest |-> Opt(TranscriptDigest),
                          scan |-> Opt(TranscriptScan)])
ConsoleEvent == Msg([name |-> Text, trajectory |-> Text, event_id |-> Text,
                     agent |-> Text, timestamp |-> Opt(Shown), category |-> Category,
                     payload |-> Sub(TrajectoryEvent), actor |-> Text,
                     correlation_id |-> Text, causation_id |-> Blank,
                     parent_id |-> Blank])
EventDetail == Msg([event |-> Sub(ConsoleEvent), adjudication |-> Opt(Adjudicated),
                    summary |-> Opt(EventScanResult)])

Messages ==
    [event |-> Event, agent_summary |-> AgentSummary,
     trajectory_summary |-> TrajectorySummary, event_detail |-> EventDetail]

-----------------------------------------------------------------------------
(***************************************************************************)
(* Scalars.                                                                *)
(***************************************************************************)
U32ToI32(n) == IF n > I32_MAX THEN I32_MAX ELSE n
I32ToU32(n) == IF n < 0 THEN 0 ELSE n

\* The double that stands for an integer: ties go to the even mantissa.
AsF64(n) ==
    CASE n <= MAX_EXACT_INT \/ n % 2 = 0 -> n
      [] (n - 1) % 4 = 0 -> n - 1
      [] OTHER -> n + 1

\* A number is an integer or a float; a float may have a fraction.
RECURSIVE JsonToProto(_), ProtoToJson(_)
JsonToProto(v) ==
    CASE v.json = "number" -> [json |-> "number", value |-> AsF64(v.value),
                               fraction |-> v.fraction]
      [] v.json = "list" -> [json |-> "list", items |-> [i \in DOMAIN v.items |->
                                                            JsonToProto(v.items[i])]]
      [] v.json = "object" -> [json |-> "object", map |-> [k \in DOMAIN v.map |->
                                                            JsonToProto(v.map[k])]]
      [] OTHER -> v
ProtoToJson(v) ==
    CASE v.json = "number" ->
            [json |-> "number", value |-> v.value, fraction |-> v.fraction,
             float |-> v.fraction \/ v.value > MAX_EXACT_INT]
      [] v.json = "list" -> [json |-> "list", items |-> [i \in DOMAIN v.items |->
                                                            ProtoToJson(v.items[i])]]
      [] v.json = "object" -> [json |-> "object", map |-> [k \in DOMAIN v.map |->
                                                            ProtoToJson(v.map[k])]]
      [] OTHER -> v

-----------------------------------------------------------------------------
(***************************************************************************)
(* Resource names: a collection and an id, which may hold a slash.         *)
(***************************************************************************)
Name(collection, id) == [collection |-> collection, id |-> id]
TrajectoryIdFromName(name) ==
    IF name.collection = "trajectories" /\ name.id \notin {"", "a/b"} THEN name.id ELSE name

-----------------------------------------------------------------------------
(***************************************************************************)
(* The conversions.                                                        *)
(***************************************************************************)
Null == [json |-> "null"]
IndexOf(name, names) == CHOOSE i \in DOMAIN names : names[i] = name

RECURSIVE Encode(_, _)
Encode(c, v) ==
    CASE c.as = "enum" -> IndexOf(v, c.names)
      [] c.as = "lenient" -> IndexOf(v, c.names) - 1
      [] c.as = "count" -> U32ToI32(v)
      [] c.as = "json" -> <<JsonToProto(v)>>
      [] c.as = "object" -> IF v.json = "object" THEN <<JsonToProto(v)>> ELSE << >>
      [] c.as = "blank" -> IF v = << >> THEN "" ELSE v[1]
      [] c.as = "run" -> Name("trajectories", v)
      [] c.as = "required" -> <<Encode(c.of, v)>>
      [] c.as \in {"optional", "repeated"} -> [i \in DOMAIN v |-> Encode(c.of, v[i])]
      [] c.as = "one of" -> <<[kind |-> v.kind, value |-> Encode(c.kinds[v.kind], v.value)]>>
      [] c.as = "message" -> [f \in DOMAIN c.fields |-> Encode(c.fields[f], v[f])]
      [] OTHER -> v

Got(v) == [ok |-> TRUE, value |-> v]
Rejected == [ok |-> FALSE]
IfAll(parts) ==
    IF \A f \in DOMAIN parts : parts[f].ok
    THEN Got([f \in DOMAIN parts |-> parts[f].value]) ELSE Rejected

\* Mutant: a value that a later version sends is read as the first.
DecodeEnumLeniently(raw, names) ==
    Got(names[IF raw \in DOMAIN names THEN raw ELSE 1])

DecodeEnum(raw, names) ==
    IF raw \in DOMAIN names THEN Got(names[raw]) ELSE Rejected

RECURSIVE Decode(_, _)
Decode(c, w) ==
    CASE c.as = "enum" -> DecodeEnum(w, c.names)
      [] c.as = "lenient" -> Got(c.names[IF w + 1 \in DOMAIN c.names THEN w + 1 ELSE 1])
      [] c.as = "count" -> Got(I32ToU32(w))
      [] c.as \in {"json", "object"} -> Got(IF w = << >> THEN Null ELSE ProtoToJson(w[1]))
      [] c.as = "blank" -> Got(IF w = "" THEN << >> ELSE <<w>>)
      [] c.as = "run" -> Got(TrajectoryIdFromName(w))
      [] c.as = "time" -> IF w = "out of range" THEN Rejected ELSE Got(w)
      [] c.as = "shown" -> Got(IF w = "out of range" THEN "" ELSE w)
      [] c.as = "required" -> IF w = << >> THEN Rejected ELSE Decode(c.of, w[1])
      [] c.as \in {"optional", "repeated"} ->
            IfAll([i \in DOMAIN w |-> Decode(c.of, w[i])])
      [] c.as = "one of" ->
            IF w = << >> THEN Rejected
            ELSE LET got == Decode(c.kinds[w[1].kind], w[1].value)
                 IN  IF got.ok THEN Got([kind |-> w[1].kind, value |-> got.value]) ELSE Rejected
      [] c.as = "message" ->
            IfAll([f \in DOMAIN c.fields |-> Decode(c.fields[f], w[f])])
      [] OTHER -> Got(w)

\* The verdict that answers an event travels as an event of the policy engine.
AdjudicationResponse(verdict) ==
    [event_id |-> "text", trajectory_id |-> "text",
     agent |-> [id |-> "text", provider |-> "", platform |-> ""],
     event_time |-> "now", actor |-> [id |-> "text", actor_type |-> "Policy"],
     causality |-> [correlation_id |-> "text", causation_id |-> <<"text">>,
                    parent_id |-> << >>],
     event |-> [kind |-> "control", value |-> [kind |-> "adjudicated", value |-> verdict]]]

DecodeVerdict(w) ==
    IF \/ w.event = << >>
       \/ w.event[1] = << >>
       \/ w.event[1][1].kind # "control"
       \/ w.event[1][1].value = << >>
       \/ w.event[1][1].value[1].kind # "adjudicated"
    THEN Rejected
    ELSE Decode(Adjudicated, w.event[1][1].value[1].value)

-----------------------------------------------------------------------------
(***************************************************************************)
(* Inputs: a message with each of its fields varied in turn, and its wire  *)
(* form with one part of it damaged or left out.                           *)
(***************************************************************************)
Number(n, fraction, float) ==
    [json |-> "number", value |-> n, fraction |-> fraction, float |-> float]
JsonValues ==
    LET numbers == {Number(n, FALSE, FALSE) : n \in {2, 8, 9, 11, 12}}
                   \cup {Number(2, TRUE, TRUE), Number(2, FALSE, TRUE)}
    IN  {Null} \cup numbers
        \cup {[json |-> "list", items |-> <<n, Null>>] : n \in numbers}
        \cup {[json |-> "object", map |-> [k |-> n]] : n \in numbers}

RECURSIVE Base(_)
Base(c) ==
    CASE c.as = "is" -> CHOOSE v \in c.of : TRUE
      [] c.as \in {"enum", "lenient"} -> c.names[1]
      [] c.as = "count" -> 1
      [] c.as = "run" -> "a"
      [] c.as \in {"json", "object"} -> Null
      [] c.as \in {"time", "shown"} -> "then"
      [] c.as \in {"blank", "optional", "repeated"} -> << >>
      [] c.as = "required" -> Base(c.of)
      [] c.as = "one of" ->
            LET kind == CHOOSE k \in DOMAIN c.kinds : TRUE
            IN  [kind |-> kind, value |-> Base(c.kinds[kind])]
      [] c.as = "message" -> [f \in DOMAIN c.fields |-> Base(c.fields[f])]

RECURSIVE Values(_)
Values(c) ==
    CASE c.as = "is" -> c.of
      [] c.as \in {"enum", "lenient"} -> {c.names[i] : i \in DOMAIN c.names}
      [] c.as = "count" -> {0, I32_MAX, I32_MAX + 1, U32_MAX}
      [] c.as \in {"json", "object"} -> JsonValues
      [] c.as \in {"time", "shown"} -> {"then"}
      [] c.as = "run" -> {"a", "b"}
      [] c.as = "blank" -> {<< >>, <<"">>, <<"text">>}
      [] c.as \in {"optional", "repeated"} -> {<< >>} \cup {<<v>> : v \in Values(c.of)}
      [] c.as = "required" -> Values(c.of)
      [] c.as = "one of" ->
            UNION {{[kind |-> k, value |-> v] : v \in Values(c.kinds[k])} : k \in DOMAIN c.kinds}
      [] c.as = "message" ->
            UNION {{[Base(c) EXCEPT ![f] = v] : v \in Values(c.fields[f])} : f \in DOMAIN c.fields}

RECURSIVE Damaged(_, _)
Damaged(c, w) ==
    CASE c.as = "enum" -> {0, Len(c.names) + 1}
      [] c.as = "time" -> {"out of range"}
      [] c.as = "required" -> {<< >>} \cup {<<d>> : d \in Damaged(c.of, w[1])}
      [] c.as \in {"optional", "repeated"} ->
            UNION {{[w EXCEPT ![i] = d] : d \in Damaged(c.of, w[i])} : i \in DOMAIN w}
      [] c.as = "one of" ->
            {<< >>} \cup {<<[w[1] EXCEPT !.value = d]>> :
                           d \in Damaged(c.kinds[w[1].kind], w[1].value)}
      [] c.as = "message" ->
            UNION {{[w EXCEPT ![f] = d] : d \in Damaged(c.fields[f], w[f])} : f \in DOMAIN c.fields}
      [] OTHER -> {}

-----------------------------------------------------------------------------
(***************************************************************************)
(* Properties.                                                             *)
(***************************************************************************)
RECURSIVE KeptJson(_)
KeptJson(v) ==
    CASE v.json = "number" /\ ~v.fraction ->
            Number(AsF64(v.value), FALSE, AsF64(v.value) > MAX_EXACT_INT)
      [] v.json = "list" -> [v EXCEPT !.items = [i \in DOMAIN @ |-> KeptJson(@[i])]]
      [] v.json = "object" -> [v EXCEPT !.map = [k \in DOMAIN @ |-> KeptJson(@[k])]]
      [] OTHER -> v

\* What the wire keeps of a value.  Lost are the exact value of an integer past
\* 2^53, that a whole number was a float, arguments that are no object, a count
\* past i32 and the difference between an empty and an absent id or embedding.
RECURSIVE Kept(_, _)
Kept(c, v) ==
    CASE c.as = "count" -> U32ToI32(v)
      [] c.as = "json" -> KeptJson(v)
      [] c.as = "object" -> IF v.json = "object" THEN KeptJson(v) ELSE Null
      [] c.as = "blank" -> IF v = <<"">> THEN << >> ELSE v
      [] c.as = "required" -> Kept(c.of, v)
      [] c.as \in {"optional", "repeated"} -> [i \in DOMAIN v |-> Kept(c.of, v[i])]
      [] c.as = "one of" -> [v EXCEPT !.value = Kept(c.kinds[v.kind], @)]
      [] c.as = "message" -> [f \in DOMAIN c.fields |-> Kept(c.fields[f], v[f])]
      [] OTHER -> v

\* A message means the same on the other side, up to the losses above, and a
\* second hop, through the console, loses nothing more.  One that leaves out a
\* part the receiver needs, or carries a value of a version it does not know,
\* is refused whole: no event and no verdict is made up from it
\* (trajectory.rs:120, decode.rs:37, event.rs:87).
WireKeepsMeaning(c, v) ==
    LET kept == Kept(c, v)
    IN  /\ Decode(c, Encode(c, v)) = Got(kept)
        /\ Decode(c, Encode(c, kept)) = Got(kept)
        /\ \A w \in Damaged(c, Encode(c, v)) : ~Decode(c, w).ok

\* The verdict that reaches the hook is the one the engine gave.
VerdictArrives(v) ==
    LET w == Encode(Event, AdjudicationResponse(v))
    IN  /\ DecodeVerdict(w) = Got(Kept(Adjudicated, v))
        /\ \A d \in Damaged(Adjudicated, Encode(Adjudicated, v)) :
               ~DecodeVerdict([w EXCEPT !.event[1][1].value[1].value = d]).ok
=============================================================================
