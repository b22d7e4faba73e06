# Specifications of the coding-agent hook harness

TLA+ models of the harness behind the coding-agent hooks: hooks running inside
an agent (Claude Code, Codex, Cursor, ...) send each event to one harness
process, which labels it, asks Cedar for a decision, records both in two
ledgers, and scans finished runs in the background.  The console and the TUI
read the ledgers and tail them live; an MCP server helps to write policies; an
installer puts the hooks into the settings of ten agents.

## The system

| Component | State | Operations | What makes it correct | Module |
|---|---|---|---|---|
| Cedar policy engine (`crates/policy/cedar`) | none of its own; drives the entity store and the ledgers | `adjudicate_event`: count the step, classify, upsert File or Message, raise the run's label, authorize, persist event and verdict | labels and counts survive concurrent adjudications; refused bodies are not stored; every answer is recorded | Engine |
| Classifiers (`guardrails`) | none | one call of a model per template, all under one budget | all of the findings or none | Guardrails |
| Shell parser (`policy/cedar/shell_parse.rs`) | none | a command to programs, flags and arguments | every program that would run is among the facts | ShellParse |
| Entity store (`storage/turso/entity.rs`) | Cedar entities, `update_lock` | `get`, `upsert`, `update_entity` | a read-modify-write is atomic within a process; the lock is always given back | Engine |
| JSONL ledger (`storage/file.rs`) | one file per run | append | agrees with the Turso ledger | Engine |
| Turso ledger (`storage/turso`) | events, agents, three scan tables | insert, delete, register, ordered, filtered and paged reads | pages walk the list; the scan shown is the last; no event without its agent | Console, Scans, RunFolds |
| Event tail (`storage/turso/stream.rs`) | cursor, channel | poll, send, receive, drop | nothing is skipped | EventTail |
| Roster tail, run feed (`stream.rs`, `tui/state.rs`) | fingerprints; rows and strips | poll, list, read strips, reload | a caught-up feed shows each run as it is | Feed |
| Transcript screen (`tui/model.rs`) | rows, parked verdicts, cursor, folds | stream, reload, fall back to a page, move | the streamed tree is the page's tree | Transcript |
| Scan dispatcher (`harness/scan.rs`) | semaphore, detached tasks | dispatch, run, store the result, append its record | permits are conserved; the hook's call never waits; table before ledger | Scans |
| gRPC service and client (`harness/rpc.rs`, `client.rs`) | in-flight calls | `adjudicates`, timeouts | the engine first, then dispatch; an error is never an Allow | Scans, HookRunner |
| Wire (`crates/schema`) | none | encode, decode | a message means the same on the other side or is refused | Wire |
| Hook runner (`hooks/core`) | one process per event | read, connect, adjudicate within a budget, answer the agent | exactly one answer, fail closed | HookRunner, HookGate |
| Hook adapters (`hooks/<agent>`) | none; the opencode plugin and sidecar | payload to events, decision or failure to reply | a Deny reaches the host in the shape it heeds; the result is judged as its action | \*Hooks, HookInputs, HookReplies, Mentions, SizeLimits |
| Claude Code transcript reader (`hooks/claude/hooks.rs`) | two cursor files | Stop: read the turn, adjudicate in batches, move the cursor | no line lost, none twice | ClaudeStop |
| Hook installers (`hooks/*/install.rs`) | the agents' settings files | install, uninstall, verify | the user's text is recoverable; other tools' hooks stay, with stated exceptions; ours runs once | Installers, HookFiles, HookCommands |
| MCP server (`crates/mcp`) | schema, policies, entities, a lock each | load, add, remove, authorize, lint, list | a report is true of what is loaded | CedarServer, PolicyLint, SizeLimits |
| Settings and policy files (`crates/settings`, `types/policy.rs`) | two files, a directory of policies | find, read, merge, validate, compile | what is served is what the files say | Settings |

Engine, RPC, scans and console share the Turso store; everything else is
connected by calls.  Hooks of one session are separate processes and run at the
same time, so the engine has several adjudications of one run in flight; tasks
and handlers can be dropped at every await, and the process can die between any
two writes.  Those interleavings, drops and partial failures are what the
models are about; `PROJECT.json` lists them under `hazards` with their lines.

## Modules

### Engine

`Engine` models `CedarPolicyHarness::adjudicate_event` and what it calls.  A
handler is one element of `Events`; `pc[e]` is the await point it stands at, and
there is one action for each stretch of code between two awaits.

| Point | Action | Code |
|---|---|---|
| agent | `EnsureAgentEntity` | the agent's entity, then the split of control events from evaluated ones |
| count, countPut | `CountRead`, `CountWrite` | the first `update_entity` of `build_request` |
| classify | `Classify` | the two model calls, each under a timeout |
| putEntity | `PutEntity` | upsert of the operation's File or the prompt's Message |
| mark, markPut | `MarkKeep`, `MarkRead`, `MarkWrite` | `mark_trajectory_label` |
| putResult | `PutResult` | upsert of the File a result names |
| authorize | `Authorize` | Cedar's response and `adjudicated_from_response` |
| jsonl, turso | `PersistJsonl`, `PersistTurso` | `persist` of the event, redacted unless it was allowed |
| reset | `ResetTrajectory` | the fresh row of a Started event |
| reread, jsonlV, tursoV | `RereadTrajectory`, `PersistVerdict...` | the Adjudicated record |

`EvaluateFails`, `PersistFails` and `Drop` are the error returns and the dropped
future; a restart of the process is the drop of every handler, since the store
and the ledgers persist.  A whole Trajectory row is read and written, so a stale
copy overwrites what happened in between unless `update_lock` prevents it.

Data is reduced to what decides: a label is a level 0..3, a classification is a
free choice among `Labels` and Public (the classifier fails open by design), a
ledger entry is `none`, `full` or `redacted`.  The label rules of the shipped
policies are translated; every other rule reads content, so Cedar's response is
any response in which the label rules that apply have fired.  A policy
evaluation error makes the decision a Deny.

`marked`, `counted` and `prior` are history variables: no guard reads them.

`AtomicTrajectories` is what `update_entity` promises, without lock or copies:
a row's count goes up by one, or its label goes up, in one step.  `Engine` is
shown to implement it with `rows <- entity`, when no run is started again.

### EventTail

`EventTail` models `spawn_trajectory_event_stream`: a poll of the rows past the
cursor, in timestamp order, sent one at a time into a bounded channel; writers
that insert and delete rows at any moment; a subscriber that reads, is slow, or
leaves.  An event's timestamp is chosen freely in `Times`, since it is taken by
the hook's process before the call and the row id when it is inserted.  The
cursor moves before the send in the code and together with it here: nothing
reads the cursor between the two.

### Scans

`Scans` models one agent's run from `adjudicates` to the scan tables: each call
registers the agent, inserts the event, and dispatches; a task holds a permit
while it loads the transcript, asks the model, writes the table, registers the
agent again and inserts its Scanned record.  `delete_trajectory` is its four
statements, `delete_agent` one transaction, and both race with the tasks.  The
engine's own work is not repeated: its insert is the two statements of
`insert_event`.  A terminal event's task makes a digest and then a behavioral
scan; a Codex turn end makes an interim digest; every event takes a message
scan.

### Hooks: HookEvents, ToolCalls, HookRunner, HookGate and the ten adapters

A hook is a process that the host starts for one input.  `HookRunner` is the
process (`runner.rs`, the client's timeout, the panic handler, the write of the
answer) together with the host that waits: `budget`, `RpcTimeout` and
`HostDeadline` are timers that run against each other, and the host's counts
from before the process began.  `Patient` says that the host outwaits the hook.  The adapter is a parameter: `Handler(input,
answers)` is the next step of its handler, to submit events, to reply or to
fail, as a function of the harness's answers so far.

Each `<Agent>Hooks` module defines its agent's `Inputs`, `Handle` (what each hook
submits, in which order, and the reply to each decision), `Degraded` (the reply
to each kind of failure), `Enforces` (for which failures its README and code say
that it refuses) and `Blocks` and `Asks` (what the host makes of a reply).
`AdapterAssumption` and `GatingAssumption` of `HookRunner` say what the run loop
takes on trust of them: how many calls a handler makes at most, which replies it
gives, and that a gate's reply to its harness's answers refuses what they refuse.
`MCHooks` puts the ten adapters in, and TLC evaluates both assumptions for them.
`ToolCalls` is the shared classifier `core/tool.rs`, over families of names and
the arguments that are present.  `OpencodeHooks` holds the plugin and the request
handler behind it as well.  `HookGate` is the abstract specification, a gate: the host
waits, decisions are recorded, and it goes ahead only on Allow.  `HookRunner`
instantiates it.  A host that is not patient may abandon the gate and go ahead on
nothing (`Abandon`): with the shipped budget that is the promise.

### ClaudeStop

The Stop hook of Claude Code reads the transcript from a stored cursor (or a
retry cursor left by a failed Stop), waits for lines the host has not flushed
yet, falls back to the payload's reply, sends thoughts and replies in batches,
and stores a cursor.  Actions are the stretches between the reads and writes of
the three files and the calls; the host appends lines at any moment, a batch
may fail after the harness recorded it, and the hook may be killed anywhere.

### RunFolds, Transcript, Feed

`RunFolds` translates the folds over a run's events: status, decision, details,
rollup, activity strip and the tree of the transcript screen.  `Transcript` puts
the tree to work: rows are inserted in an order that is not that of their
stamps, and are streamed to a screen that parks verdicts whose event has not
come, while the reader moves, folds, reloads or falls back to a page.  A scan is
two steps, its result into `event_scan_results` and its record into the ledger,
and the second may never come (`emit_scanned` only logs a failure): a page then
shows a scan that the stream does not bring.  Each event has at most one verdict
and one scan, since it is adjudicated once and dispatched to the scanner once.  `Feed` is
the roster tail (fingerprints, then rollups), the list call, the batches of
strips and the terminal's event loop, which takes all of their answers from one
channel, in any order.

### Installers, HookFiles, HookCommands

`HookFiles` is what each agent's installer splices into a settings document and
takes out of it; `Installers` is the order of reads, backups, writes and
deletes, with edits of the user and moves of the binary between runs.  At any
step the process may die (`Dies`), or a copy, write or delete may fail
(`TaskFails`): that ends the run, or, for Claude Code's reconciliations and for
Codex's flag and marketplace, is a warning, after which the run goes on and
reports; either way a file that was truncated stays so.  `HookCommands` is how the
binary is found, quoted for a shell, and recognised later.

### CedarServer, PolicyLint

`CedarServer` has one action per stretch of a tool call between two locks; two
callers interleave.  The tools that take no lock (a text validated or a schema
drafted on its own, the doctrine read, a question to the console) are calls too,
and change nothing here.  Cedar's parser, validator and evaluator are external: a
schema is its types and actions, a policy the actions and entities it needs.
`PolicyLint` is the report on a candidate: annotations, schema checks, lints.

### Console

`Console` is the store as the console reads it: events, agents, lists with
filters, orders and page tokens, a walk over the pages while others write; the
grammar of filters and orders; the scan tables as single reads and lists show
them.  It extends `RunFolds` for the rollups.

### Pure parts

`Wire` (a message as a record of field codecs, and one `Encode` and `Decode` for
all), `ShellParse`, `Settings`, `Guardrails`, `HookInputs` (serde's treatment of
every hook struct of nine agents), `HookReplies` (every reply constructor, its
JSON, what the agent takes from it, and the redaction of outputs), `SizeLimits`
(the cutting of events, prompts and lists), `Mentions`.  Each ends with one
property that compares the translation with a definition of its purpose.
`MCServices` holds their inputs as initial states, and `CedarServer` and
`Console` as two parts with steps.

`MCHooks` and `MCServices` give values to the parameters of what they put
together.  The other modules are run as they are: what their cfg files name as a
bound, a set of shapes or a symmetry is at the end of the module itself.

## Runs

Every bound is a constant of the cfg or a definition of the MC module.
CHECK_DEADLOCK is off in all runs: events, writes and inputs are finitely many,
and when all are done a model stops.

| Run | Bounds | Shows |
|---|---|---|
| engine | 2 events of any kind, 1 run, 1 file, labels 1 and 3, 1 fault | `HighWaterMark`, `NoStepLost`, `RefusedBodyNotStored`, `LedgersAgree`, `AnsweredIsRecorded`, `LabelFallsOnlyOnStarted`, `EgressSeesHighWaterMark` |
| engine_fair | 2 events, 2 runs, 1 fault, no Started | `AtomicUpdates` (refinement), `EveryCallEnds` |
| engine_restart | 2 events, one of them Started | `LabelNeverFalls` is violated: see below |
| event_tail | 3 events, 3 times, channel of 1 | `NoRowSkipped`, `EveryRowDelivered` |
| scans | 2 events, 2 permits, 1 delete, 1 fault, results that a delete took | `PermitsConserved`, `RecordWasStored`, `TranscriptCoversTrigger` |
| scans_fair | 2 events, 1 permit, 1 fault | `ScansNeverHoldRpc`, `ScansEnd` |
| hooks | every input of the ten adapters; budget 1 or 2, timeout 1, host deadline 2, a start of at most 1 | `FailClosed`, `ResultMatchesAction`, `GateImplemented` (refinement of `HookGate`), `HookAnswers` |
| claude_stop | 3 turns, 2 texts, batches of 2, 2 faults | `NoTailLost`, `OnceWithoutFaults` |
| transcript | 3 rows, 1 call id, 2 times, 1 stored scan | `VerdictsReachTheirRows`, `SameTreeAsPage` |
| feed | 2 runs of 1 agent, 2 writes, 1 failed call or reload | `FeedIsCurrent`, `StripsAreCurrent` |
| installers | 10 agents, one wired event and one that is not, every shape of document, 3 operations, 1 death or failed write | `SettingsRecoverable`, `OthersKept`, `HookOnce`, `ReportIsTrue` |
| services | MCP: 2 callers, 5 calls; console: 3 writes, 3 half days, pages of 1 and 2; the rest one input per initial state | one property for each part |

The properties of `services`, each the conjunction of what its modules state:

| Property | Of | Says |
|---|---|---|
| `CedarAnswersAreTrue` | CedarServer | what was reported as added stays until it is removed; a decision that warns of nothing follows from the policies that were loaded when it was made |
| `ConsoleShowsTheStore` | Console | a walk over quiet pages is the list; a walk over growing pages misses nothing it began with; every actor is on the roster; list and page show the scan written last; a filter narrows by all that it says |
| `WireKeepsMeaning` | Wire | decoding undoes encoding up to the losses named there; a damaged message is refused whole |
| `CommandsSeen` | ShellParse | every program spelled in a command, through wrappers, nested shells and eval, is among the facts, or the parse is marked as incomplete; a script that is an expansion is the exception, see below |
| `ReportIsRight` | PolicyLint | a candidate is refused only for a fault that it has, and one that is accepted has none of those the lints look for; the forms that they pass over are named |
| `ServesWhatIsConfigured` | Settings | the nearest file that sets a key decides, a broken file or asset stops the start; every policy of the directory is in force under an id of its own |
| `WholeOrOpen` | Guardrails | a classifier answers with all of its findings, or with none |
| `HooksKeepTheContract` | HookInputs, HookReplies, Mentions | a gate refuses a document that names no tool; a tool call is judged by the command, path or URL it gives (where it gives none, most adapters judge an empty one, see below); a reply is one the agent heeds; a redacted output keeps none of its text; the files a prompt names are read |
| `SizesHold` | SizeLimits | what is cut fits, and no cut was deeper than needed |
| `CommandIsOurs` | HookCommands | an installer recognises what it wrote |

Two adjudications are enough to lose an update, since one stale copy needs one
other writer; that no larger number adds anything is what the theorems say.
Three rows are the least in which a batch can end below its highest id and be
followed by another; a channel of one is full after each send.  Two events give
up to four tasks for two permits, hence both a skipped scan and two tasks that
overlap.  `MaxFaults` is one where a single fault at any point is the question;
a Stop takes two, because the retry of a failure may itself fail, and three
turns, because the third is the first that can skip what the first failed to
send.  In `hooks` a budget of 1 may end before the host's deadline even after a slow
start, and a budget of 2 ends no earlier than it, as the shipped 30 s against the
installers' 30 s: each of the three timers can be first, and the run has inputs
with a patient host and with one that gives up on a gate.  Three operations of an installer are install, a
change, and the install or uninstall that meets it.  Three writes of the console
are what it takes to push an entry from a page that was read to one that was not,
and back.

Fairness: the tokio runtime polls whatever can make progress and its mutex is
first come, first served, so `WF` of a handler's steps is justified.  Weak
fairness is enough because a waiter's guard is the lock being free, and the
models run finitely many events.  The event tail's task and its reader are
fair until the reader leaves; faults, deletes and a reader leaving never are.
`scans_fair` gives the scan tasks no fairness; `ScansEnd` takes theirs as its
premise (a model call has a timeout), `ScansNeverHoldRpc` does without.
`HookAnswers` takes as fair only time, the two timers and the write of the
answer: stdin, the connection and the harness may hang for ever.

### Where code and documents disagree

`engine_restart` is the one with a run; the others were met on the way.

| Where | What the document says | What the code does |
|---|---|---|
| engine_restart | the run's label is a running maximum (base.cedarschema:59) | a Started event in mid-run, as sent for a subagent, replaces the row |
| transform.rs:363 | confidential content is not written to a public file | the write first relabels the file with the new content's label, so the rule compares a label with itself; a delete relabels its file by the path |
| stream.rs:94-96 | the tail never re-emits, and its task stops as soon as the receiver is dropped | the cursor follows timestamp order and falls back below rows already sent; only a send notices, and a quiet run never sends |
| trajectory.rs:123-126 | reads ignore enrichment without events | reads select by run alone; a task that finishes after a delete leaves a digest that is shown when the run has a row again |
| agent.rs:52 | an agent with events is never missed | `delete_agent` falls between the registration and the insert |
| hooks/README.md | Codex PreToolUse "Block + Ask" | an escalated call is denied |
| hooks/README.md | a run can be terminated only at VS Code's prompt gate | Gemini's and Claude's SessionStart answer a Deny with a stop |
| hooks/README.md | Gemini AfterTool "Steer only" | it answers deny; AfterAgent and AfterTool refuse on Deny and let go on a failure |
| claude/hooks.rs:1410 | a refused stop is not refused again | a SubagentStop is, for as long as the harness is away |
| claude/hooks.rs:1195 | each reply is recorded once | a reply taken from the payload is recorded again when the late transcript holds it |
| runner.rs:24-26 | the hook answers before its host gives up | the budget is 30 s, as is the host's deadline, which began earlier: the host may kill a gate unanswered and let the action pass (`Abandon`) |
| core/install.rs:213 | "Hooks that belong to other tools must be preserved." | Cursor's and Gemini's installers replace the whole `hooks` member; OpenHands' drops a rule that the user extended with a second command |
| core/mention.rs:51-54 | a following "@" begins a new mention | a boundary is required before "@", so glued mentions are one |
| command.rs:113 | every installer recognises its own entries | a Windows path with an apostrophe and no space is written bare and read as an open quote; a link to a file of another name is not recognised |
| core/tool.rs:57-59, :272-274 | a path that is read from the wrong key comes back empty and satisfies no condition; without a URL the caller should fall back to a tool call | where the arguments hold no command, path or URL under a name they know, Claude's, Cursor's, Gemini's, VS Code's and Antigravity's adapters judge an empty one (claude/hooks.rs:252-348), as do Copilot's for commands and paths and Codex' for commands |
| shell_parse.rs:162, :184 | `ok` is a complete parse, `has_dynamic_command` an expansion that is run as a command | `eval "$CMD"` and `bash -c "$CMD"` are complete and not dynamic; the next literal word, if any, is reported as the program |
| guardrails/policy | codes are of the closed set (transform.rs:22-25) | the model's code is passed on as it is |
| query.rs:10-13 | "a typo must narrow nothing silently" | of two clauses for one key the later one silently decides |
| scan.rs:380-385 | the record attaches a scan to its event | where it fails or is cut off, only the page of the console shows the scan, never the live transcript |
| model.rs:918-920 | scanner records never become rows | digest and transcript-scan records do in the live transcript |
| types/policy.rs:46, control.rs:157-161 | Monitor evaluates and always allows; a record never claims less enforcement than happened | policies are loaded in Monitor mode, no code reads the mode, a Deny is enforced, and every verdict is recorded as Monitor |
| state.rs:401-411 | a strip is rebuilt when its run changed | a late verdict with an older stamp leaves the revision as it was, so the strip hides it; a strip of a deleted run is asked for without end |

Smaller ones: classifying a result and its action differ for some tools of
Claude Code, Copilot, Antigravity and Cursor (`ResultMatchesAction` covers the six
adapters that share one classifier); opencode's plugin ignores a Deny at
`chat.message`; a field that is sent under two spellings fails the whole event;
Cursor's Tab-read refusal and Gemini's `disable_all_tools` carry no reason;
`remove_entity` takes a name as written where `add_entity` qualifies it, and
`clear_state` clears its three locks one after the other; a baseline row larger than
the budget can never be shown; `base_url` is ignored by four providers; list and
page differ for a run whose newest scan does not decode; the lints pass over
literals that no command line gives, as `RM:-r` among the arguments of programs,
`rm:foo` or `git:--force=x` among the flags (lint.rs:10-14 says they are no
completeness check).  Where a property would be false
for one of these, it names the exception in its comment.

## Theorems

`EngineProofs` proves, for any sets of events, runs and files and any bound on
faults:

- `TypeCorrect`: the type invariant, by one step per action.
- `TrajectoriesSafe`: `TrajectoryInv`.  `HighWaterMark` and `NoStepLost` are not
  inductive: a write-back could lower a row.  The strengthening says who holds
  the lock (`LockInv`) and that a copy about to be written back is at or above
  the stored row (`CopyInv`).  It is "at or above", not "equal", because a
  Started event replaces the row without the lock.  The lemma
  `CopyAboveHistory` turns the pair into the two properties;
  `HighWaterMarkHolds` and `NoStepLostHolds` are corollaries.
- `LedgersSafe`: `LedgerInv`, which says what each ledger holds at each point of
  an adjudication, with `RefusedBodyNotStored`, `LedgersAgree` and
  `AnsweredIsRecorded`; one lemma (`Bystander`) disposes of the events that a
  step does not touch.
- `LabelFallsOnlyOnStartedHolds`, `EgressSeesHighWaterMarkHolds`: the action
  properties, from those invariants.
- `AtomicUpdatesHold`: the refinement, assuming that `Kinds` has no Started
  event.  Its lemma `CopiesExact` needs that: a held copy then equals its row.

`EventTailProofs` proves, for any events, timestamps and capacity:

- `TypeCorrect`, and `NoRowSkippedHolds`: the tail misses no row, although its
  cursor moves backwards.  The invariant (`TailInv`) says that not only the
  cursor but the id of every row still in the batch bounds rows that are sent or
  pending (`CoverInv`), because the cursor will become each of those ids in turn;
  and that a row inserted later is above all of them (`IdInv`).

`ScansProofs` proves, for any number of events, permits, deletes and faults:

- `PermitsConservedHolds`: a task takes a permit when it is spawned and gives it
  back however it ends.  `SpawnInv` says that the dispatch alone spawns a task, so
  no event has its task twice.
- `RecordWasStoredHolds`: a task that is writing its record has stored the result
  (`RecordInv`), and no table is ahead of the ledger by an event (`SourceInv`);
  rows leave both by a delete alone, which adds them to the history `swept`.
- `TranscriptCoversTriggerHolds`: the ledger holds the event from the return of
  the engine to the load of each task it triggered, while nobody deletes
  (`CoverInv`).

`HookRunnerProofs` proves, for every adapter that keeps `AdapterAssumption` and
`GatingAssumption`, and for any budget, timeout and time to start:

- `TypeCorrect`, with `RunInv`: a handler hears answers only to what it sent.
- `FailClosedHolds`: once there is a response, it refuses wherever the adapter is
  to refuse (`RefusalInv`), whichever of the failures came first.
- `GateImplementedHolds`: the run loop implements `HookGate`, for any budgets and
  any deadline.  `LedgerInv` is the heart of it: until a call fails, the decisions
  on record are those that the handler heard and the one on its way.  `TimeInv`
  keeps a gate of a patient host from being killed before it has answered; a kill
  by another host is the gate's `Abandon` (`KillImplementsAbandon`).
- `ResultMatchesActionHolds`, for the inputs and handlers of the adapters
  themselves (`MCHooks`): every record of the ledger is of an event that the
  handler submits for its input (`SubmittedInv`), and the two classifiers of an
  adapter, before and after the call, take the same branch for it.

`ClaudeStopProofs` proves, for any shapes of turns, any sizes of batches and any
number of turns and faults:

- `NoTailLostHolds`: `CursorInv` says what each cursor has behind it: of the
  latest turn, nothing that is neither recorded nor within reach of the retry
  cursor; `SpanInv` says the same of the offset a Stop reads from, and that what it
  read is sent or still pending.  `HostInv` is why no turn starts at offset 0,
  which the code uses for "no cursor".
- `OnceWithoutFaultsHolds`: without faults there is no retry, and what is recorded
  is behind the cursor or no longer pending (`OnceInv`).

`FeedProofs` proves, for any runs, agents and writes, and any answers that come
late, in another order, or not at all:

- `FeedIsCurrentHolds`: the fingerprints the tail remembers are never ahead of the
  store (`MarkInv`), a pass rolls a changed run up once (`PassInv`), and a run in
  which the tail finds nothing new is on its way to the screen as it is, with
  nothing older behind it (`ChainInv`); a stale strip has a batch on its way
  (`StaleInv`).
- `StripsAreCurrentHolds`: every row that is on its way is one that its run had
  (`PastInv`), a strip is built no earlier than the row that asked for it
  (`OrderInv`), and one batch is under way at a time (`BatchInv`).

`InstallersProofs` proves, for any subset of the ten agents and any documents of
the user's:

- `SettingsRecoverableHolds`, whatever step the installer dies or fails at: a settings file
  is emptied only when it has been copied, or had nothing of the user's in it
  (`SavedInv`).  Entries count with their place in the document (`Placed`), so a
  moved entry is not taken for a kept one.  `TasksInv` and `FilesInv` say that a
  step is one its file is for and that files hold documents.  The lemmas on
  `HookFiles` are about the ten ways to splice: each leaves a document, and places
  nothing of the user's in an empty one.
- `ReportIsTrueHolds`: while Claude Code's uninstall runs, every file it knows holds
  of others what it held before (`before`, `Same`), or is being written, or has
  been warned of (`HeldAt`); what is about to be written holds it too (`MemHeld`).
  The report comes last, and is a plain one only if nothing was warned of.
- `OthersKeptHolds`: what is about to be written holds other tools' entries in the
  order of the document that was read, for the five agents and the rules that the
  property names, and Cursor's and Gemini's set no flag of the user's (`FlagsOnly`).
  The state invariant is short (`ListsInv`:
  the files hold what users and installers write, and the buffer is the edit of
  what was read); the work is in the lists.  `EveryNumber` derives induction over
  the naturals from the well-foundedness of `<`, so that what `Kept` and
  `FlattenSeq` compute can be proved for lists of any length; a removal then
  leaves the entries of others as they were, and a merge adds none.
- `HookOnceHolds`: a merge after the agent's own removal leaves one entry of ours
  in each wired event, a revocation leaves none.  `PlanInv` says that a run does the
  agent's own settings first and the managed ones last, `OnceInv` that the own
  settings are as they should be from the end of their task to the end of the run,
  unless the run has warned of them: a reconciliation that fails is only a warning.

The last three need `UsersAssumption`: a user's document has a list or a single
rule under each event, and of our entries those that the agent's installer has
written at some time (`EntriesOf`: retired events and the plugin's script are
Claude Code's alone).

`ServicesProofs` proves, of three modules:

- `VerdictsReachTheirRowsHolds` and `SameTreeAsPageHolds`, for any rows, call ids
  and natural times (`TimesAssumption`), and any order of inserts, polls, batches,
  reloads, failures and keys.  The invariant has three parts.  `RowsInv`: ids are
  1 to the number of rows, an event has one verdict and one message scan, and what
  that says is in `event_scan_results`.  `LiveInv`: in a live transcript every row up to the
  cursor is queued or taken, although the cursor moves back and the queue is in
  the order of times, not of ids; taken means on the screen, or parked with the
  verdicts and scans; each node is graded as those say (`ScreenOK`), and the tree
  is the fold of the nodes.  A verdict that overtakes its event is what makes the
  parked ones part of it.  `OrderInv`: if rows come in the order of their times,
  the nodes ascend.  The lemmas say what `Ordered` computes, by the ranks of the
  elements of a finite set (`OrderedIs`), and that the recursive folds `Ingested`
  and `BuildTree` exist and unfold step by step.
- `CedarAnswersAreTrueHolds`, for any callers, schemas, policies and requests, and
  any number of calls: what was reported as added stays until it is removed, and
  a decision that warns of nothing follows from the policies that were loaded when
  it was made.  `CallsInv` carries a request from the lock of the schema, under
  which its action was resolved, to the lock of the policies (`JudgeProves`).
- `WholeOrOpenHolds`, for any limits and any templates: the engine is told all that
  a classifier found or nothing.  `After` says what the fold over the templates
  holds at each position: failed if one so far failed or was late, and otherwise
  the sum of the times and all that was said.

Run `services` checks the last two on instances, and `transcript` the first two; the
theorems are of the modules that state them.

The assumptions are the named `ASSUME`s of the modules, which TLC evaluates in
the runs.  What is model-checked only:

- liveness (`EveryCallEnds`, `EveryRowDelivered`, `ScansNeverHoldRpc`, `ScansEnd`,
  `HookAnswers`): fairness is beyond the prover;
- `WireKeepsMeaning`, `CommandsSeen` and `ReportIsRight`: they are about recursive
  operators (`RECURSIVE`), in whose modules the prover has no arithmetic;
- `ConsoleShowsTheStore`, `ServesWhatIsConfigured`, `HooksKeepTheContract`,
  `SizesHold` and `CommandIsOurs`: sorts, filters with an operator and tables,
  which the run enumerates.

## Plan

What is left to prove: the walk of `Console` over growing pages, from assumptions
on the order of a list, now that `OrderedIs` says what the sort of a finite set is.

## Abstractions

- Engine: `LedgersAgree` is about adjudications; what a scan emits goes to Turso alone
  (scan.rs:395).
- CedarServer: a forbid over all actions does not count as one that names the
  caller's action.
- Hook runner: an answer that cannot be written has lost its reader.
- Installers: nobody else writes the files while an installer runs; backup names
  are unique; a write that fails leaves the file empty, never in part; ownership and
  permissions, and Hermes' explicit `hooks_auto_accept: false`, are left out.
  `SettingsRecoverable` is about the settings: Codex's `config.toml` and marketplace
  and VS Code's deregistration are written without a backup.
- ClaudeStop: a line is written whole; the transcript is not truncated or
  replaced; the pruning of old cursor files is left out, an absent cursor is 0.
- Transcript and Feed: a page is one read and holds every row; a run that is
  created again is stamped later; carrying scanner output over a reload is left
  out.
- Console: a list is one read, at most one insert is under way, time is in half
  days.  An event belongs to one run.
- Wire: an i32 ends at 3, a u32 at 7, a double is exact up to 8; a text is one or
  two values.
- ShellParse: a script is the tree tree-sitter gives; ANSI-C escapes are not read;
  eval's words are literal, but for a whole script that is an expansion, and their
  quoting is not nested.
- HookInputs: of a tool's arguments, lists (an argv, `paths`, `urls`) are left out.
- PolicyLint: a literal is the classes of its characters; case is ASCII;
  candidates typecheck.
- Settings: project, location and temperature fare like the model's name; the
  credentials of Vertex are left out; a policy is its place in a file, and a
  directory that cannot be read is a file that cannot.
- Guardrails: times are scaled; models answer anything.
- SizeLimits: sizes are scaled, and numbers are written in base 2.
- Mentions: a directory lists its entries in a given order; links to directories
  are not followed.

## Not modelled

Classifier and scanner models, YARA rules, prompts, rubrics and the authoring guide
are content.  Rendering, themes and argument parsing carry no state; URLs are
parsed by a library.  The calls of provider clients are external.  Two harness
processes on one database are outside the code's own guarantee
(`update_entity` says so).  SQLite's internals are taken as atomic statements
and transactions; a busy database is a failed call.
