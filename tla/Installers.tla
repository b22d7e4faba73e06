----------------------------- MODULE Installers -----------------------------
(***************************************************************************)
(* `sondera hook <agent> install` and `uninstall`: what they read, back    *)
(* up, write and delete, in that order, with a process that may die at any *)
(* step, or fail at it and warn and go on, a file being truncated before   *)
(* it is written.  Between two runs the user edits the files and the       *)
(* binary may move.  Nobody else writes the files while an installer runs. *)
(***************************************************************************)
EXTENDS HookFiles

CONSTANTS
    Agents,
    OtherEvents,   \* events of an agent that are not wired
    Users,         \* the documents a user may have written
    MaxOps, MaxFaults

AllAgents == {"antigravity", "claude", "codex", "copilot", "cursor", "gemini",
              "hermes", "opencode", "openhands", "vscode"}
ASSUME AgentsAssumption == Agents \subseteq AllAgents

\* The entries that an agent's settings may hold, as they are or as they were
\* written before: only Claude Code has events that were retired, and a plugin.
EntriesOf(a) == IF a = "claude" THEN Entries ELSE Others \cup {"ours", "stale"}
\* What is no list stands for a single rule.
ListOf(a, list) ==
    /\ list.array \in BOOLEAN
    /\ list.rules \in Seq(Seq(EntriesOf(a)))
    /\ ~list.array => Len(list.rules) = 1
DocOf(a, doc) ==
    /\ doc.hooks.is # "object" => DOMAIN doc.hooks.events = {}
    /\ \A k \in DOMAIN doc.hooks.events : ListOf(a, doc.hooks.events[k])
ASSUME UsersAssumption ==
    \A u \in Users : DocOK(u) /\ \A a \in Agents : DocOf(a, u)

VARIABLES
    agent, opts,
    files,      \* by location
    backups,    \* by location, the documents copied
    todo,       \* the tasks that remain, the first of them under way
    pc,
    read, mem,  \* the document as read, and as it is to be written
    left,       \* by location, the document as its user last left it
    before,     \* the files as the last run found them
    last,       \* what happened last
    outcome,    \* the locations that the run has written, and those it has warned of
    report,     \* what Claude Code's uninstall said at its end
    ops, faults
run == <<todo, pc, read, mem, outcome, report>>
vars == <<agent, opts, files, backups, run, left, before, last, ops, faults>>

\* The selected settings; VS Code's own or Codex's; Codex's marketplace;
\* Claude Code's managed settings and those of a project around this one;
\* opencode's plugin.
Locs == {"main", "side", "market", "managed", "around", "plugin"}
NoOutcome == [removed |-> {}, failed |-> {}]

Absent == [is |-> "absent", doc |-> Empty, link |-> FALSE]
Document(doc) == [is |-> "doc", doc |-> doc, link |-> FALSE]

Holds(loc, is, doc) == files' = [files EXCEPT ![loc].is = is, ![loc].doc = doc]

\* What the installers are asked, and where they run.
OptsOf(a) ==
    {o \in [auto : BOOLEAN, user : BOOLEAN, elevated : BOOLEAN, plugin : BOOLEAN] :
        /\ o.auto => a = "hermes"
        /\ o.elevated \/ o.plugin => a = "claude"
        /\ ~o.user => a \in {"claude", "vscode"}}

Registry == {Empty, [Empty EXCEPT !.flags = {"own"}]}
Given(doc) == IF doc = Empty THEN Absent ELSE Document(doc)
Broken(doc) == [Document(doc) EXCEPT !.is = "broken"]
\* Settings that Sondera wrote to, through a link or not.
Wrote(doc, link) == [Document([doc EXCEPT !.hooks = Hooks(Generated)]) EXCEPT !.link = link]
FilesAre(main, side, around) ==
    [l \in Locs |->
        CASE l = "main" -> main
          [] l \in {"side", "market"} -> side
          [] l \in {"managed", "around"} -> around
          [] l = "plugin" -> Absent]
Init ==
    /\ agent \in Agents
    /\ opts \in OptsOf(agent)
    /\ \E u \in Users, side \in Registry, broken, around, link \in BOOLEAN :
        /\ agent \notin {"codex", "vscode"} => side = Empty
        /\ agent # "claude" => ~around
        /\ ~around => ~link
        /\ files = FilesAre(IF broken THEN Broken(u) ELSE Given(u), Given(side),
                          IF around THEN Wrote(u, link) ELSE Absent)
    /\ backups = [l \in Locs |-> {}]
    /\ todo = << >> /\ pc = "idle"
    /\ read = Empty /\ mem = Empty
    /\ left = [l \in Locs |-> files[l].doc] /\ before = files
    /\ outcome = NoOutcome /\ report = "none"
    /\ last = "edited" /\ ops = 0 /\ faults = 0

-----------------------------------------------------------------------------
Task(loc, what) == <<[loc |-> loc, what |-> what]>>
Maybe(cond, tasks) == IF cond THEN tasks ELSE << >>

\* should_dedupe_with_plugin, resolve_plugin_root.
Deduped == agent = "claude" /\ opts.plugin /\ ~opts.user

InstallTasks ==
    IF agent = "opencode" THEN Task("main", "legacy")
    ELSE Task("main", IF Deduped THEN "dedupe" ELSE "install")
         \o Maybe(agent = "claude" /\ opts.elevated, Task("managed", "reconcile"))
         \o Maybe(agent = "vscode" /\ opts.user, Task("side", "register"))
         \o Maybe(agent = "codex", Task("side", "enable") \o Task("market", "enlist"))

\* Elevated, Claude Code's uninstall cleans every known location.
UninstallTasks ==
    IF agent = "opencode" THEN Task("plugin", "unplug") \o Task("main", "persist")
    ELSE IF agent = "claude" /\ opts.elevated
    THEN Task("main", "reconcile") \o Task("around", "reconcile")
         \o Task("managed", "reconcile")
    ELSE Task("main", "revoke")
         \o Maybe(agent = "vscode" /\ opts.user, Task("side", "deregister"))
         \o Maybe(agent = "codex", Task("market", "delist"))

Now == Head(todo)
File == files[Now.loc]

\* An install copies the file before it reads it, an uninstall once it knows
\* that there is something to write.
BacksUpFirst(what) == what \in {"install", "dedupe", "register"}
BacksUpLast(what) == what \in {"revoke", "reconcile"}
Fatal(what) == what \notin {"reconcile", "enable", "enlist", "delist"}
FirstPc(tasks) ==
    IF tasks = << >> THEN "idle"
    ELSE IF BacksUpFirst(Head(tasks).what) THEN "backup" ELSE "read"

Start(tasks, name) ==
    /\ pc = "idle"
    /\ ops < MaxOps
    /\ todo' = tasks
    /\ pc' = FirstPc(tasks)
    /\ last' = name
    /\ outcome' = NoOutcome /\ report' = "none"
    /\ before' = files
    /\ ops' = ops + 1
    /\ UNCHANGED <<agent, opts, files, backups, read, mem, left, faults>>

Install == Start(InstallTasks, "install")
Uninstall == Start(UninstallTasks, "uninstall")

\* No binary is found, or it lacks the hooks that are to be wired.
InstallRefused ==
    /\ pc = "idle"
    /\ ops < MaxOps
    /\ last' = "failed" /\ report' = "none" /\ outcome' = NoOutcome
    /\ ops' = ops + 1
    /\ UNCHANGED <<agent, opts, files, backups, todo, pc, read, mem, left, before, faults>>

Still == UNCHANGED <<agent, opts, left, before, ops, faults>>

\* settings_file_contains_managed_sondera_hooks, of the locations Claude Code's
\* uninstall knows.
ContainsOurs(l, fs) == fs[l].is = "doc" /\ HasOurs(fs[l].doc)
Known == {"main", "around", "managed"}
Remain(fs) == {l \in Known : ContainsOurs(l, fs)}

SaysUnless(result, fs) ==   \* a mutant of Says: had_failures is not looked at
    IF Remain(fs) # {} THEN "remain" ELSE IF result.removed = {} THEN "nothing" ELSE "all"
\* What Claude Code's uninstall says of the files as it left them.
Says(result, fs) ==
    IF Remain(fs) # {} THEN "remain"
    ELSE IF result.failed # {} THEN "unverified"
    ELSE IF result.removed = {} THEN "nothing" ELSE "all"

\* The next task; after the last one the run has succeeded.
NextTask(result, fs) ==
    /\ todo' = Tail(todo)
    /\ pc' = FirstPc(Tail(todo))
    /\ read' = Empty /\ mem' = Empty
    /\ last' = IF Tail(todo) # << >> THEN last
               ELSE IF last = "install" THEN "installed" ELSE "uninstalled"
    /\ outcome' = result
    /\ report' = IF agent = "claude" /\ last' = "uninstalled" THEN Says(result, fs)
                 ELSE report
Cleaned == [outcome EXCEPT !.removed = @ \cup {Now.loc}]
Done == NextTask(outcome, files)

Stop(name) ==
    /\ todo' = << >> /\ pc' = "idle"
    /\ read' = Empty /\ mem' = Empty
    /\ last' = name
    /\ UNCHANGED <<outcome, report>>

\* A task that fails ends the run, or is a warning that names the file.
Warned(result) == [result EXCEPT !.failed = @ \cup {Now.loc}]
FailTask ==
    IF Fatal(Now.what) THEN Stop("failed") ELSE NextTask(Warned(outcome), files)

-----------------------------------------------------------------------------
KeepLatest(copies, doc) == {doc}   \* a mutant of KeepBackup
\* backup_at: every backup has a name of its own.
KeepBackup(copies, doc) == copies \cup {doc}

Copies(loc) ==
    backups' = IF files[loc].is \in {"absent", "broken"} THEN backups
               ELSE [backups EXCEPT ![loc] = KeepBackup(@, files[loc].doc)]

BackupFirst ==
    /\ pc = "backup"
    /\ Copies(Now.loc)
    /\ pc' = "read"
    /\ Still /\ UNCHANGED <<files, todo, read, mem, last, outcome, report>>

\* A blank file is an empty document, except where it is read as plain JSON.
Reads(file) ==
    \/ file.is \in {"absent", "doc"}
    \/ file.is = "blank" /\ Now.what \notin {"legacy", "persist", "register",
                                             "deregister", "enlist", "delist"}

\* reconcile refuses what is no regular file.
Refused == Now.what = "reconcile" /\ File.link

\* register_hooks_directory, enable_feature_flag and write_marketplace_entry_at
\* add our member to a file that others share, and two of them have an undo.
Marked(doc) == [doc EXCEPT !.flags = @ \cup {"registered"}]
Unmarked(doc) == [doc EXCEPT !.flags = @ \ {"registered"}]
Registered(doc) == Marked(doc)
Enabled(doc) == Marked(doc)
Enlisted(doc) == Marked(doc)
Deregistered(doc) == Unmarked(doc)
Delisted(doc) == Unmarked(doc)

\* remove_plugin: the npm package of earlier versions.
WithoutLegacy(doc) == [doc EXCEPT !.flags = @ \ {"legacy"}]

Spliced(doc) ==
    CASE Now.what = "install" -> Apply(agent, doc, opts.auto)
      [] Now.what \in {"revoke", "reconcile", "dedupe"} -> Revoke(agent, doc)
      [] Now.what = "register" -> Registered(doc)
      [] Now.what = "enable" -> Enabled(doc)
      [] Now.what = "enlist" -> Enlisted(doc)
      [] Now.what = "deregister" -> Deregistered(doc)
      [] Now.what = "delist" -> Delisted(doc)
      [] Now.what \in {"legacy", "persist"} -> WithoutLegacy(doc)

\* Whether there is anything to write.
Writes(doc) ==
    \/ Now.what \in {"install", "register", "enlist", "legacy", "persist"}
    \/ Spliced(doc) # doc

AfterRead ==
    IF Now.what = "legacy" THEN "plugin"
    ELSE IF Now.what = "persist" THEN "persist"
    ELSE IF BacksUpLast(Now.what) THEN "save"
    ELSE "truncate"

Read ==
    /\ pc = "read" /\ Now.what # "unplug"
    /\ IF ~Reads(File) \/ Refused THEN FailTask
       ELSE IF ~Writes(File.doc) THEN Done
       ELSE /\ read' = File.doc
            /\ mem' = Spliced(File.doc)
            /\ pc' = AfterRead
            /\ UNCHANGED <<todo, last, outcome, report>>
    /\ Still /\ UNCHANGED <<files, backups>>

BackupLast ==
    /\ pc = "save"
    /\ Copies(Now.loc)
    /\ pc' = "truncate"
    /\ Still /\ UNCHANGED <<files, todo, read, mem, last, outcome, report>>

\* The delisted marketplace is deleted once no plugin is left in it.
Deletes ==
    \/ Now.what = "revoke" /\ RemoveWhen(agent, mem)
    \/ Now.what = "delist" /\ mem = Empty

Delete ==
    /\ pc = "truncate" /\ Deletes
    /\ Holds(Now.loc, "absent", Empty)
    /\ NextTask(Cleaned, files')
    /\ Still /\ UNCHANGED backups

\* fs::write empties the file and then fills it.
Truncate ==
    /\ pc = "truncate" /\ ~Deletes
    /\ Holds(Now.loc, "blank", Empty)
    /\ pc' = "write"
    /\ Still /\ UNCHANGED <<backups, todo, read, mem, last, outcome, report>>

Write ==
    /\ pc = "write"
    /\ Holds(Now.loc, "doc", mem)
    /\ NextTask(Cleaned, files')
    /\ Still /\ UNCHANGED backups

-----------------------------------------------------------------------------
(***************************************************************************)
(* opencode: a plugin file, and opencode.json, replaced at one stroke.     *)
(***************************************************************************)
WritePlugin ==
    /\ pc = "plugin"
    /\ Holds("plugin", "doc", [Empty EXCEPT !.hooks = Hooks(Generated)])
    /\ pc' = "persist"
    /\ Still /\ UNCHANGED <<backups, todo, read, mem, last, outcome, report>>

Persist ==
    /\ pc = "persist"
    /\ IF mem = Empty THEN Holds("main", "absent", Empty) ELSE Holds("main", "doc", mem)
    /\ NextTask(Cleaned, files')
    /\ Still /\ UNCHANGED backups

RemovePlugin ==
    /\ pc = "read" /\ Now.what = "unplug"
    /\ Holds("plugin", "absent", Empty)
    /\ NextTask(Cleaned, files')
    /\ Still /\ UNCHANGED backups

-----------------------------------------------------------------------------
\* The process dies.  A plugin or a backup being written is left in part, which
\* nothing reads.
Dies ==
    /\ pc # "idle"
    /\ faults < MaxFaults
    /\ faults' = faults + 1
    /\ Stop("failed")
    /\ UNCHANGED <<agent, opts, files, backups, left, before, ops>>

\* A copy, write or delete fails, a file that it has truncated staying so.
TaskFails ==
    /\ pc # "idle"
    /\ faults < MaxFaults
    /\ faults' = faults + 1
    /\ FailTask
    /\ UNCHANGED <<agent, opts, files, backups, left, before, ops>>

\* The user's edits: another tool's hook in a rule of its own or in the first
\* rule there is, our rule a second time, or a file written anew.
Edited(doc, k) ==
    LET events == doc.hooks.events
        put(rules) == [doc EXCEPT !.hooks =
            Hooks([e \in DOMAIN events \cup {k} |->
                      IF e = k THEN List(rules) ELSE events[e]])]
        rules == IF k \in DOMAIN events /\ events[k].array THEN events[k].rules
                 ELSE << >>
    IN  {put(<< <<"t2">> >> \o rules)}
        \cup (IF rules = << >> THEN {}
              ELSE {put(rules \o <<rules[1]>>),
                    put(<<Append(rules[1], "t2")>> \o Tail(rules))})

Nested == agent \in {"antigravity", "claude", "codex", "gemini", "openhands"}
Edit ==
    /\ pc = "idle"
    /\ last # "edited"
    /\ ops < MaxOps
    /\ files["main"].is # "broken" /\ agent # "opencode"
    /\ \E k \in Wired \cup OtherEvents, doc \in Users \cup UNION
            {Edited(files["main"].doc, e) : e \in Wired \cup OtherEvents} :
        /\ doc # Empty
        /\ Nested \/ \A e \in DOMAIN doc.hooks.events :
                         \A r \in DOMAIN doc.hooks.events[e].rules :
                             Len(doc.hooks.events[e].rules[r]) = 1
        /\ Holds("main", "doc", doc)
        /\ left' = [left EXCEPT !["main"] = doc]
    /\ last' = "edited"
    /\ ops' = ops + 1
    /\ UNCHANGED <<agent, opts, backups, run, before, faults>>

\* Our binary moves, or an event is wired no more: entries that are there
\* name the old one.
Aged(doc, to) ==
    LET events == doc.hooks.events
        Old(rules) == [r \in DOMAIN rules |-> [i \in DOMAIN rules[r] |->
                          IF rules[r][i] = "ours" THEN to ELSE rules[r][i]]]
    IN  [doc EXCEPT !.hooks.events =
            [k \in DOMAIN events |-> [events[k] EXCEPT !.rules = Old(events[k].rules)]]]
BinaryMoves ==
    /\ pc = "idle"
    /\ ops < MaxOps
    /\ files["main"].is = "doc"
    /\ \E to \in IF agent = "claude" THEN {"stale", "retired"} ELSE {"stale"} :
        files' = [files EXCEPT !["main"].doc = Aged(@, to)]
    /\ files' # files
    /\ last' = "moved"
    /\ ops' = ops + 1
    /\ UNCHANGED <<agent, opts, backups, run, left, before, faults>>

Next ==
    \/ Install \/ InstallRefused \/ Uninstall
    \/ BackupFirst \/ Read \/ BackupLast \/ Delete \/ Truncate \/ Write
    \/ WritePlugin \/ Persist \/ RemovePlugin
    \/ Dies \/ TaskFails \/ Edit \/ BinaryMoves

Spec == Init /\ [][Next]_vars

-----------------------------------------------------------------------------
\* Lists of another tool's rules, an empty rule, and what is no list: files that
\* users may have, where TLC checks.
SomeLists == {List(<< <<"t1">> >>), List(<< <<"t1">>, <<"t2">> >>), List(<< << >> >>), NotList}
SomeUsers ==
    {Empty, [Empty EXCEPT !.flags = {"own"}], [Empty EXCEPT !.flags = {"own", "legacy"}],
     [Empty EXCEPT !.flags = {"disabled"}], [Empty EXCEPT !.flags = {"autoAccept"}],
     [Empty EXCEPT !.hooks = NotObject]}
    \cup {[Empty EXCEPT !.hooks = Hooks([k \in {event} |-> list])] :
              event \in Wired \cup OtherEvents, list \in SomeLists}

-----------------------------------------------------------------------------
\* What a document holds of its user's and of other tools: flags, and entries
\* in their order, or with their places.
UserFlags(doc) ==
    doc.flags \cap (IF "autoManaged" \in doc.flags THEN {"own", "disabled"}
                    ELSE {"own", "disabled", "autoAccept"})
Theirs(doc) ==
    [flags |-> UserFlags(doc),
     hooks |-> [k \in Wired \cup OtherEvents |->
                   IF k \notin DOMAIN doc.hooks.events THEN << >>
                   ELSE Kept(FlattenSeq(doc.hooks.events[k].rules), Others)]]

Places(rules) == UNION {{<<r, i>> : i \in DOMAIN rules[r]} : r \in DOMAIN rules}
Placed(doc) ==
    [flags |-> UserFlags(doc),
     hooks |-> [k \in Wired \cup OtherEvents |->
                   IF k \notin DOMAIN doc.hooks.events THEN {}
                   ELSE LET rules == doc.hooks.events[k].rules
                        IN  {<<p, rules[p[1]][p[2]]>> : p \in
                                {q \in Places(rules) : rules[q[1]][q[2]] \in Others}}]]

\* HookConfigInstaller::apply and revoke, backup_at: wherever an installer dies,
\* and whatever runs after it, what the user last left in the settings is in
\* the file or in a backup.
SettingsRecoverable ==
    \A l \in {"main", "managed", "around"} :
        \/ Placed(files[l].doc) = Placed(left[l])
        \/ \E b \in backups[l] : Placed(b) = Placed(left[l])

Regular(doc) ==
    /\ doc.hooks.is # "other"
    /\ \A k \in DOMAIN doc.hooks.events \cap Wired : doc.hooks.events[k].array
\* Rules that hold entries of ours and of another tool.
Mixed(events) ==
    \E k \in DOMAIN events : \E r \in DOMAIN events[k].rules :
        Has(events[k].rules[r]) /\ ToSet(events[k].rules[r]) \cap Others # {}

\* HookConfigInstaller::apply and revoke, "Hooks that belong to other tools must
\* be preserved": Claude Code's and Codex's installers write all hooks of other
\* tools back, in their order, for a file whose hooks are as the agent expects
\* them, and so do Copilot's, Hermes's and OpenHands's where no rule holds one of
\* ours beside another tool's: such a rule they drop whole.  Cursor's and
\* Gemini's are an exception to that sentence: they write over every hook, or
\* remove it, whoever's it is, and keep the user's other settings only.
OthersKept ==
    pc \in {"truncate", "write"} =>
        /\ /\ agent \in {"claude", "codex", "copilot", "hermes", "openhands"}
           /\ Regular(read)
           /\ agent \in {"claude", "codex"} \/ ~Mixed(read.hooks.events)
           => Theirs(mem) = Theirs(read)
        /\ agent \in {"cursor", "gemini"} => UserFlags(mem) = UserFlags(read)

OurEntries(events, k) ==
    IF k \notin DOMAIN events \/ ~events[k].array THEN << >>
    ELSE Kept(FlattenSeq(events[k].rules), Entries \ Others)

\* After an install every wired event runs our hook once, from the binary in
\* place, and no other event does; after an uninstall none does.  Elevated, Claude
\* Code's managed settings are clean after either.  What may still hold ours is a
\* file of which the run has warned by name that it could not be reconciled.
HookOnce ==
    LET at == IF agent = "opencode" THEN "plugin" ELSE "main"
    IN  /\ last = "installed" =>
               \A k \in Wired \cup OtherEvents :
                   OurEntries(files[at].doc.hooks.events, k)
                       = IF k \in Wired /\ ~Deduped THEN <<"ours">> ELSE << >>
        /\ last = "uninstalled" /\ at \notin outcome.failed => ~HasOurs(files[at].doc)
        /\ opts.elevated /\ last \in {"installed", "uninstalled"} =>
               "managed" \in outcome.failed \/ ~HasOurs(files["managed"].doc)

\* uninstall_hooks, print_remaining_hook_locations: when Claude Code's uninstall
\* says that all our hooks were removed, or that there were none, no settings file
\* it knows holds one, and each still holds what it held of its user and of other
\* tools before the run; a file left truncated by a write that failed is never
\* passed over.  When it says that there were none, it has changed no file.
ReportIsTrue ==
    report \in {"all", "nothing"} /\ last = "uninstalled" =>
        \A l \in Known :
            /\ files[l].is = "doc" => ~HasOurs(files[l].doc)
            /\ Theirs(files[l].doc) = Theirs(before[l].doc)
            /\ report = "nothing" => files[l] = before[l]
=============================================================================
