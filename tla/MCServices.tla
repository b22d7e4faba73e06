------------------------------ MODULE MCServices ------------------------------
(***************************************************************************)
(* One instance of each of the services and of the pure algorithms around   *)
(* them.  An initial state says which part it is of: the Cedar MCP server   *)
(* and the console go on with their steps from there; every other part has  *)
(* its inputs as initial states, one by one, and no steps.                  *)
(***************************************************************************)
EXTENDS Naturals, Sequences, FiniteSets, TLC

CONSTANTS Callers, MaxCalls, MaxWrites, MaxTime, DEFAULT_PAGE_SIZE, MAX_PAGE_SIZE

VARIABLES
    part, subject,
    schema, policies, entities, call, answer, acked, calls,     \* CedarServer
    rows, agents, pending, now, walk, raced, writes             \* Console

cedarVars == <<schema, policies, entities, call, answer, acked, calls>>
consoleVars == <<rows, agents, pending, now, walk, raced, writes>>
vars == <<part, subject, cedarVars, consoleVars>>

UpTo(n, S) == UNION {[1..k -> S] : k \in 0..n}

-----------------------------------------------------------------------------
(***************************************************************************)
(* CedarServer: two callers, two schemas whose types and actions overlap.   *)
(***************************************************************************)
Uid(ns, type, id) == [ns |-> ns, type |-> type, id |-> id]
Type(ns, type) == [ns |-> ns, type |-> type]
Read(ns) == [ns |-> ns, id |-> "read"]
Policy(id, effect, over, needs) ==
    [id |-> id, effect |-> effect, over |-> over, needs |-> needs]
NoEntity == [none |-> TRUE]
Argument(uid, attrs, parents) == [uid |-> uid, attrs |-> attrs, parents |-> parents]

Cedar == INSTANCE CedarServer WITH
    Schemas <- {[types |-> {Type("A", "User"), Type("A", "File")},
                 strict |-> {Type("A", "User")}, actions |-> {Read("A")}],
                [types |-> {Type("B", "User"), Type("B", "File"), Type("A", "File")},
                 strict |-> {}, actions |-> {Read("B")}]},
    PolicySets <- {{Policy("p", "permit", {}, NoEntity),
                    Policy("f", "forbid", {Read("A")}, NoEntity)},
                   {Policy("p", "permit", {}, NoEntity),
                    Policy("n", "forbid", {}, Uid("A", "User", "u"))}},
    Arguments <- {Argument(Uid("", "User", "u"), TRUE, {}),
                  Argument(Uid("A", "User", "u"), FALSE, {Uid("", "File", "f")}),
                  Argument(Uid("A", "File", "f"), FALSE, {Uid("A", "User", "u")})},
    Requests <- {[principal |-> Uid("", "User", "u"), action |-> Read(""),
                  resource |-> Uid("A", "File", "f")]}

-----------------------------------------------------------------------------
(***************************************************************************)
(* Console: two runs, two agents, walks over each kind of list.  The filter *)
(* grammar and the scan tables have inputs of their own.                    *)
(***************************************************************************)
Query(over, run, agent, order, descending, size) ==
    [over |-> over, run |-> run, agent |-> agent, provider |-> "none", status |-> "none",
     decision |-> "none", order |-> order, descending |-> descending, size |-> size]
Insert(run, agent, body, decision, back, two) ==
    [run |-> run, agent |-> agent, provider |-> "p", body |-> body, decision |-> decision,
     back |-> back, two |-> two]

Con == INSTANCE Console WITH
    Runs <- {1, 2}, Agents <- {1, 2}, Providers <- {"p"}, Hits <- {}, MAX_SPARKLINE_CELLS <- 3,
    Queries <- {Query("runs", 0, 0, "", TRUE, 1), Query("runs", 0, 1, "update_time", TRUE, 5),
                Query("agents", 0, 0, "", TRUE, 1),
                Query("agents", 0, 0, "display_name", FALSE, 0),
                Query("events", 1, 0, "", TRUE, 5)},
    Inserts <- {Insert(1, 1, "started", "Allow", FALSE, FALSE),
                Insert(1, 1, "started", "Allow", TRUE, TRUE),
                Insert(2, 2, "started", "Allow", FALSE, FALSE),
                Insert(2, 2, "adjudicated", "Deny", FALSE, FALSE),
                Insert(2, 1, "shell", "Allow", TRUE, FALSE)}

Clauses == {<<"agent">>, <<"agent", "agents/a">>, <<"agent", "agents/b">>, <<"agent", "a">>,
            <<"status", "running">>, <<"status", "x">>, <<"decision", "deny">>,
            <<"decision", "x">>, <<"provider", "p">>, <<"model", "m">>}
Orders == UpTo(2, {"event_count", "display_name", "desc", "asc"})
Filters == UpTo(2, Clauses)

\* Three events of two runs are scanned, again and again, and runs are deleted.
ScanOps == [kind : {"digest", "scan", "event"}, event : 1..3, good : BOOLEAN]
           \cup [kind : {"delete"}, run : {1, 2}]
History(ops, ticks) ==
    [i \in DOMAIN ops |->
        IF ops[i].kind = "delete" THEN ops[i]
        ELSE [kind |-> ops[i].kind, event |-> ops[i].event, good |-> ops[i].good, value |-> i,
              run |-> IF ops[i].event = 3 THEN 2 ELSE 1, at |-> IF ticks THEN i ELSE 0]]

ConsoleSubject ==
    \/ \E ops \in UpTo(3, ScanOps), ticks \in BOOLEAN :
            subject = <<"scans", History(ops, ticks)>>
    \/ \E over \in {"agents", "runs"}, words \in Orders, filter \in Filters :
            subject = <<"request", over, filter, words>>

-----------------------------------------------------------------------------
(***************************************************************************)
(* Wire: every message, and every verdict.                                 *)
(***************************************************************************)
W == INSTANCE Wire
WireSubject ==
    \/ \E m \in DOMAIN W!Messages : \E v \in W!Values(W!Messages[m]) : subject = <<m, v>>
    \/ \E v \in W!Values(W!Adjudicated) : subject = <<"verdict", v>>

-----------------------------------------------------------------------------
(***************************************************************************)
(* ShellParse: a command, wrapped, read by a shell, joined to another, ...  *)
(***************************************************************************)
Sh == INSTANCE ShellParse WITH MAX_REPARSE_DEPTH <- 1, MAX_TREE_DEPTH <- 20

KeyPaths ==
    {[Sh!Word("p") EXCEPT !.path = << <<[Sh!Piece("users") EXCEPT !.upper = upper]>>,
                                      <<Sh!Piece("key")>> >>,
                          !.quoted = quoted, !.backslash = backslash] :
        upper, quoted, backslash \in BOOLEAN}
Removals ==
    {[do |-> "run",
      prog |-> [Sh!Word("rm") EXCEPT
                    !.path = dir \o << <<[Sh!Piece("rm") EXCEPT !.exe = exe, !.upper = exe]>> >>],
      args |-> <<Sh!Flag("-rf", {"r", "f"}, FALSE), p>>] :
        dir \in {<< >>, << <<Sh!Piece("bin")>> >>}, exe \in BOOLEAN, p \in KeyPaths}
Plain == [do |-> "run", prog |-> Sh!Word("rm"),
          args |-> <<Sh!Flag("-rf", {"r", "f"}, FALSE), Sh!Word("key")>>]
Unknown == [do |-> "unknown", args |-> <<Sh!Word("key")>>]
Hidden ==
    LET next == [Sh!Word("key") EXCEPT !.script = Sh!Alone(<<Sh!Command(<<Sh!Word("key")>>)>>)]
    IN  {[do |-> "hidden", by |-> b, args |-> a] : b \in {"eval", "bash", "sh"},
                                                    a \in {<< >>, <<next>>}}

Options(w) ==
    {<< >>, <<Sh!Flag("-q", {"q"}, FALSE)>>, <<[Sh!Word("--") EXCEPT !.form = "--"]>>}
    \cup {<<Sh!Flag(f, {}, FALSE), Sh!Word("value")>> : f \in Sh!WRAPPERS[w]}
    \cup {<<Sh!Flag(f, {}, TRUE)>> : f \in Sh!WRAPPERS[w]}
    \cup (IF w = "env" THEN {<<[Sh!Word("A") EXCEPT !.form = "assignment"]>>} ELSE {})
Wrapped(in) ==
    UNION {{[do |-> "wrapped", by |-> w, options |-> o, in |-> in] : o \in Options(w)} :
           w \in DOMAIN Sh!WRAPPERS}
Sudo(in) == [do |-> "wrapped", by |-> "sudo", options |-> << >>, in |-> in]
Evaluated(in) == [do |-> "eval words", in |-> in]
Around(in) ==
    {[do |-> "shell", by |-> s, letters |-> l, in |-> in] : s \in Sh!SHELLS, l \in {{}, {"l"}}}
    \cup {[do |-> "both", by |-> b, in |-> Plain, other |-> in] : b \in {"pipeline", "list"}}
    \cup {[do |-> d, in |-> in] : d \in {"eval", "redirected", "inside"}}

Commands == Removals \cup {Unknown} \cup Hidden
Second == {Evaluated(Plain)} \cup UNION {Around(c) \cup {Sudo(c)} : c \in Hidden}
          \cup UNION {Wrapped(c) \cup Around(c) : c \in {Plain, Unknown}}
ShellSubject ==
    \/ subject \in Commands
    \/ \E c \in Commands : subject \in Around(c) \cup {Sudo(c)}
    \/ \E c \in Second : subject \in Around(c)
    \/ \E c \in Second : c.do \notin {"both", "redirected"} /\ subject = Sudo(c)
    \/ \E c \in Wrapped(Plain) : subject = Evaluated(c)

-----------------------------------------------------------------------------
(***************************************************************************)
(* PolicyLint: each kind of comparison with each kind of literal, and       *)
(* candidates of two policies.                                             *)
(***************************************************************************)
Lint == INSTANCE PolicyLint WITH
    Vocabulary <- [categories |-> {"known"}, violations |-> {"known"}, labels |-> {"known"}]

Var(n) == [op |-> "var", name |-> n]
Attr(e, a) == [op |-> ".", left |-> e, attr |-> a]
Ctx(a) == Attr(Var("context"), a)
Str(l) == [op |-> "string", value |-> l]
Literals == [name : {"known", "other"}, has : SUBSET {"upper", "back", "slash", "colon", "dot"}]
\* "program:token" with a misnamed program or a token that is no flag.
Misfits == [name : {"known"},
            has : {{"colon", "misnamed"} \cup h : h \in (SUBSET {"upper", "back", "slash", "flagless"})
                                                       \ SUBSET {"flagless"}}
                  \cup {{"colon", "flagless"} \cup h : h \in SUBSET {"upper", "back", "slash"}}]
Texts == {Ctx("path_normalized"), Ctx("url"), Attr(Ctx("file_signature"), "severity"),
          Attr(Var("principal"), "path_normalized")}
Scoped == {Attr(Ctx("parse"), f) : f \in Lint!ProgramScopedFields \cup {"programs"}}
TextSets == {Attr(Ctx("signature"), "categories"), Attr(Ctx("policy"), "violations")} \cup Scoped
Pairs == (TextSets \X Literals) \cup (Scoped \X Misfits)
Comparisons ==
    LET Known(c) == [name |-> "known", has |-> {c}]
        Label(l) == [op |-> "entity", type |-> "Label", value |-> l]
        Either(e, f) == {[op |-> "==", left |-> e, right |-> f],
                         [op |-> "==", left |-> f, right |-> e]}
    IN  UNION {Either(f, Str(l))
               \cup {[op |-> "like", left |-> f, pieces |-> p] :
                     p \in {<<l>>, <<l, Known("slash")>>}} : f \in Texts, l \in Literals}
        \cup {[op |-> "contains", left |-> p[1], right |-> Str(p[2])] : p \in Pairs}
        \cup {[op |-> o, left |-> p[1],
               right |-> [op |-> "set", items |-> <<Str(p[2]), Str(Known("colon"))>>]] :
              o \in {"containsAny", "=="}, p \in Pairs}
        \cup UNION {Either(Ctx("label"), Label(l)) : l \in Literals}
Nested(c) ==
    LET no == [op |-> "not", args |-> <<c>>]
    IN  {c, no, [op |-> "and", args |-> <<Var("action"), no>>]}
Runs(has) == [op |-> "contains", left |-> Attr(Ctx("parse"), "programs"),
              right |-> Str([name |-> "known", has |-> has])]
Written(id, description, conditions) ==
    [id |-> id, description |-> description, conditions |-> conditions]
LintSubject ==
    \/ \E c \in Comparisons : \E n \in Nested(c) :
            subject = [parses |-> TRUE, policies |-> <<Written("a", "d", {n})>>,
                       schema |-> "none", fits |-> {"harness"}]
    \/ \E i, j \in {"", "a", "b"}, d, e \in {"", "d"}, has \in {{}, {"upper"}},
          s \in {"none", "own", "warned", "broken"}, fits \in SUBSET {"harness", "own", "warned"},
          parses \in BOOLEAN :
            subject = [parses |-> parses, schema |-> s, fits |-> fits,
                       policies |-> <<Written(i, d, {Runs(has)}),
                                      Written(j, e, {Runs({}), Runs(has)})>>]

-----------------------------------------------------------------------------
(***************************************************************************)
(* Settings: two files, near and far, that differ in what they set and in   *)
(* how they fail.                                                          *)
(***************************************************************************)
Set == INSTANCE Settings

Source(kind, text, ids, declares) ==
    [kind |-> kind, text |-> text, ids |-> ids, declares |-> declares]
Schema(types) == Source("cedarschema", "read", << >>, types)
Rules(ids) == Source("cedar", "read", ids, {})
PolicyDir(files) == [kind |-> "dir", files |-> files]
PolicyDirs ==
    [absent |-> [kind |-> "absent", files |-> << >>], empty |-> PolicyDir(<< >>),
     some |-> PolicyDir(<<Schema({"T"}), Rules(<<"a", "">>)>>),
     broken |-> PolicyDir(<<Schema({"T"}), Source("cedar", "broken", << >>, {})>>)]
SourceFiles ==
    {Schema({"T"}), Schema({"U"}), Source("cedarschema", "broken", << >>, {}),
     Source("cedar", "unreadable", << >>, {}), Source("other", "broken", << >>, {})}
    \cup {Rules(ids) : ids \in UpTo(2, {"", "a", "policy1"})}

Dir(f) == [file |-> f, cedar |-> PolicyDirs.some, ifc |-> "some", policies |-> "some"]
File(raw) == [kind |-> "read", raw |-> raw @@ Set!EmptyLayer]
Models == {Set!Unset, [provider |-> "azure"], [base_url |-> "near"],
           [provider |-> "hf", api_key |-> "k1"],
           [model |-> "m1", base_url |-> "b1", api_key |-> "k2"], [provider |-> "typo"]}
Files == {[kind |-> "absent"], [kind |-> "unreadable"], [kind |-> "unparsed"],
          File([harness |-> [guardrails |-> FALSE]]),
          File([harness |-> [guardrails |-> TRUE, scans |-> TRUE, addr |-> "x"],
                scanner |-> [model |-> "m2"]]),
          File([harness |-> [addr |-> "no address"]]),
          File([shared |-> [provider |-> "vertex"],
                scanner |-> [provider |-> "openai", base_url |-> "b2"]])}
Setup(near, far, env) ==
    [above |-> <<"cwd", "repo">>, home |-> "home", configDir |-> "none", addr |-> "none",
     env |-> env, scannerEnv |-> "none", dirs |-> [home |-> Dir(far), repo |-> Dir(near)]]
SettingsSubject ==
    \/ \E t, u \in {"shared", "data"}, a, b, c \in Models, env \in {"none", "", "k0"} :
            subject = Setup(File([harness |-> [guardrails |-> TRUE]] @@ (t :> a)),
                            File([shared |-> b, policy |-> c] @@ (u :> c)), env)
    \/ \E near, far \in Files, cd \in {"none", "repo", "nowhere"}, addr \in {"none", "y"},
          ifc, rules \in {"absent", "some", "empty", "broken"},
          dirs \in SUBSET {"home", "repo", "cwd"} :
            subject = [Setup(near, far, "none") EXCEPT
                          !.configDir = cd, !.addr = addr,
                          !.dirs = [d \in dirs |->
                              IF d = "home" THEN Dir(far)
                              ELSE [Dir(near) EXCEPT
                                       !.ifc = ifc, !.policies = rules,
                                       !.cedar = IF ifc = rules THEN PolicyDirs[ifc] ELSE @]]]
    \/ \E files \in UpTo(3, SourceFiles), near \in {"absent", "dir"} :
            subject = [Setup([kind |-> "absent"], [kind |-> "absent"], "none") EXCEPT
                          !.dirs.repo.cedar = [kind |-> near, files |-> files],
                          !.dirs.home.cedar = PolicyDir(<<Schema({"T"})>> \o files)]

-----------------------------------------------------------------------------
(***************************************************************************)
(* Guardrails: up to two templates each, that answer in time, late or not.  *)
(***************************************************************************)
Guard == INSTANCE Guardrails WITH CLASSIFY_TIMEOUT <- 3, TEMPLATE_TIMEOUT <- 5
Classifiers(says) ==
    LET tries == [takes : {0, 2, 4, 6}, says : says \cup {"fails", "nothing"}]
    IN  {[on |-> TRUE, empty |-> FALSE, calls |-> s] : s \in UpTo(2, tries)}
        \cup {[on |-> on, empty |-> empty, calls |-> << >>] : on, empty \in BOOLEAN}
GuardSubject ==
    \E d \in Classifiers({"Internal", "HighlyConfidential"}), p \in Classifiers({"SC2"}) :
        subject = <<d, p>>

-----------------------------------------------------------------------------
(***************************************************************************)
(* HookInputs and HookReplies: every hook's event with one field missing,   *)
(* spoilt, under another name or twice; every reply; JSON two levels deep.  *)
(***************************************************************************)
In == INSTANCE HookInputs
Documents(s) ==
    LET full == [f \in In!Fields(s) |-> "good"]
        Without(f) == [g \in In!Fields(s) \ {f} |-> "good"]
    IN  {full, [f \in s.required \cup s.checked |-> "good"]}
        \cup {Without(f) : f \in In!Fields(s)}
        \cup UNION {{(n :> v) @@ Without(f) : n \in In!Names(s, f), v \in In!Values} :
                    f \in In!Fields(s)}
        \cup {(n :> "good") @@ full : n \in UNION {In!Names(s, f) : f \in In!Fields(s)} \cup {"new"}}

ArgumentDocs(names) ==
    UNION {[{n, m} -> {"good", "blank", "other"}] : n, m \in names} \cup {<< >>}

Out == INSTANCE HookReplies
Json(kind, of) == [kind |-> kind, of |-> of]
Scalars == {Json("string", "secret"), Json("string", "tag"), Json("integer", "7"),
            Json("float", "1.5"), Json("bool", "true"), Json("null", "null")}
Layer(S) ==
    {Json("list", << >>), Json("object", << >>)}
    \cup {Json("list", <<v>>) : v \in S}
    \cup {Json("object", k :> v) : k \in {"type", "data"}, v \in S}
    \cup {Json("object", [type |-> v, data |-> w]) : v, w \in S}
HookSubject ==
    \/ \E a \in DOMAIN In!Structs : \E h \in DOMAIN In!Structs[a] :
            \E doc \in Documents(In!Structs[a][h]) : subject = <<"input", a, h, doc>>
    \/ \E a \in DOMAIN In!ArgumentKeys : \E k \in DOMAIN In!ArgumentKeys[a] :
            LET keys == In!ArgumentKeys[a][k]
            IN  \E args \in ArgumentDocs({keys[i] : i \in DOMAIN keys} \cup {"new"}) :
                    subject = <<"tool", a, k, args>>
    \/ \E a \in DOMAIN Out!Replies : \E n \in DOMAIN Out!Replies[a] : subject = <<"reply", a, n>>
    \/ \E v \in Scalars \cup Layer(Scalars \cup Layer(Scalars)) : subject = <<"output", v>>

-----------------------------------------------------------------------------
(***************************************************************************)
(* SizeLimits: texts of up to two characters of one to three bytes, blocks  *)
(* of events, baselines of two policies.                                   *)
(***************************************************************************)
Sz == INSTANCE SizeLimits WITH
    MARKER <- 2, JSON_MARKER <- 2, BLOCK <- 1, GAP <- 2, RADIX <- 2

EventFields == Sz!ActionFields @@ Sz!ObservationFields @@ Sz!ControlFields
FieldValues(fields) ==
    LET names == {fields[i].name : i \in DOMAIN fields}
        texts == [text : UpTo(2, {0, 1, 2}), string : BOOLEAN]
    IN  UNION {{v \in [present -> texts] :
                   \A i \in DOMAIN fields :
                       fields[i].name \in present /\ ~fields[i].json
                           => v[fields[i].name].string} : present \in SUBSET names}
Baselines(id) ==
    [id : {id}, actions : SUBSET {"x"}, categories : SUBSET {"k"}, words : SUBSET {"w"}, size : 1..2]
BaselineFilters == [action : {"", "x", "y"}, category : {"", "k"}, id : {"", "p"}, query : SUBSET {"w"}]
SizeSubject ==
    \/ \E kind \in DOMAIN EventFields, max \in 0..4 : \E v \in FieldValues(EventFields[kind]) :
            subject = <<"event", EventFields[kind], v, max>>
    \/ \E text \in UpTo(4, {0, 1, 2, 3}), max \in 2..5 : subject = <<"json", text, max>>
    \/ \E preamble \in {0, 3}, lens \in UpTo(5, {1, 3, 7}), max \in 20..32 :
            subject = <<"prompt", preamble, lens, max>>
    \/ \E a \in Baselines("p"), b \in Baselines("r"), f \in BaselineFilters,
          declared \in SUBSET {"x"}, budget \in 1..3 :
            subject = <<"list", <<a, b>>, f, declared, budget>>

-----------------------------------------------------------------------------
(***************************************************************************)
(* Mentions: every prompt of three symbols, some of four and more, in three *)
(* trees.                                                                  *)
(***************************************************************************)
SkippedDir == <<"n">>
Mn == INSTANCE Mentions WITH
    Space <- {" "}, Boundary <- {"(", ","}, Trailing <- {".", ",", ")"},
    Alphanumeric <- {"a", "b", "w", "n", "file:"}, SKIPPED_DIRS <- {SkippedDir},
    MAX_SEARCH_ENTRIES <- 8, MAX_SEARCH_DEPTH <- 2, MAX_SEARCH_MATCHES <- 2

FileOf(n) == [name |-> n, kind |-> "file"]
DirOf(n) == [name |-> n, kind |-> "dir"]
A == <<"a">>  Adot == <<"a", ".">>  B == <<"b">>  Cwd == <<"w">>
Tree(cwd, below, deep, other) ==
    (<< >> :> <<DirOf(Cwd), FileOf(A)>>) @@ (<<Cwd>> :> cwd) @@ (<<Cwd, B>> :> below)
    @@ (<<Cwd, B, B>> :> deep) @@ other
Trees ==
    {Tree(<<FileOf(A), FileOf(Adot), DirOf(B)>>, <<FileOf(A)>>, << >>, << >>),
     Tree(<<DirOf(B), DirOf(SkippedDir)>>, <<FileOf(A), DirOf(B)>>,
          <<FileOf(A), FileOf(Adot), DirOf(SkippedDir)>>,
          <<Cwd, SkippedDir>> :> <<FileOf(A)>>),
     Tree(<<DirOf(B), DirOf(A), FileOf(B)>>, <<FileOf(A), FileOf(Adot), DirOf(B)>>,
          <<FileOf(A), DirOf(A)>>, <<Cwd, B, B, A>> :> <<FileOf(A)>>)}
Contents ==
    [p \in UNION {Mn!Files(t) : t \in Trees} |->
        IF p[Len(p)] = Adot THEN <<1, 0, 2>> ELSE <<1, 2, 2>>]

Symbols == {"@", "a", ".", " ", ",", "/", "file:"}
Bodies == {<<"a">>, <<"a", ".">>, <<"b", "/", "a">>, <<".", "/", "a">>,
           <<"b", "/", ".", ".", "/", "a">>, <<"/", "a">>, <<"file:", "a", ".", ",">>}
MentionSubject ==
    \E t \in Trees :
        \/ \E p \in UpTo(3, Symbols \cup {"\\"}), max \in 0..6 : subject = <<p, t, max>>
        \/ \E p \in [1..4 -> Symbols] : subject = <<p, t, 3>>
        \/ \E x, y \in Bodies : subject = << <<"@">> \o x \o <<" ", "@">> \o y, t, 3>>

-----------------------------------------------------------------------------
(***************************************************************************)
(* HookCommands: paths with every pair of awkward symbols in them.          *)
(***************************************************************************)
Hc == INSTANCE HookCommands

Awkward == {"a", " ", "'", "\"", "\\", "$", "=", "-", "&"}
Posix == {<<"/">> \o s \o <<"/", "sondera">> : s \in UpTo(2, Awkward)}
Disk == {<<"C", ":", "\\">> \o s \o <<"\\", "sondera">> \o exe :
            s \in UpTo(2, Awkward \ {"\""}), exe \in {<< >>, <<".exe">>}}
Windows == Disk \cup {Hc!Verbatim \o p : p \in Disk}
           \cup {Hc!Verbatim \o <<"UNC", "\\", a, "\\", "sondera", ".exe">> : a \in Awkward \ {"\""}}
Machine(exe, home, which, files, links) ==
    [exe |-> exe, home |-> home, which |-> which, files |-> files, links |-> links]
Here(path) == Machine(path, <<"/", "h">>, << >>, {path}, << >>)
Homes == {Machine(<<"x">>, home, << >>, {home \o <<"/", d, "/", "bin", "/", "sondera">>}, << >>) :
            home \in {<<"/", a>> : a \in Awkward}, d \in {".sondera", ".cargo"}}
Linked == {Machine(<<"x">>, <<"h">>, w, {w}, w :> p) :
            w \in {<<"/", "w", "/", "sondera">>},
            p \in {<<"/", a, "/", n>> : a \in Awkward, n \in {"sondera", "sondera-1"}}}
CommandSubject ==
    \E verbose \in BOOLEAN :
        \/ \E p \in Posix, shell \in {"Posix", "PowerShell"} :
                subject = <<Here(p), shell, "claude", verbose>>
        \/ \E p \in Windows, shell \in {"Posix", "WindowsCmd", "PowerShell"} :
                subject = <<Here(p), shell, "claude", verbose>>
        \/ \E m \in Homes \cup Linked, shell \in {"Posix", "PowerShell"} :
                subject = <<m, shell, "claude", verbose>>

-----------------------------------------------------------------------------
CedarIdle == schema = 0 /\ policies = 0 /\ entities = 0 /\ call = 0 /\ answer = 0
             /\ acked = 0 /\ calls = 0
ConsoleIdle == rows = 0 /\ agents = 0 /\ pending = 0 /\ now = 0 /\ walk = 0 /\ raced = 0
               /\ writes = 0

Init ==
    \/ part = "cedar" /\ subject = 0 /\ Cedar!CedarInit /\ ConsoleIdle
    \/ part = "console" /\ subject = 0 /\ Con!ConsoleInit /\ CedarIdle
    \/ /\ CedarIdle /\ ConsoleIdle
       /\ \/ part = "reads" /\ ConsoleSubject
          \/ part = "wire" /\ WireSubject
          \/ part = "shell" /\ ShellSubject
          \/ part = "lint" /\ LintSubject
          \/ part = "settings" /\ SettingsSubject
          \/ part = "guardrails" /\ GuardSubject
          \/ part = "hooks" /\ HookSubject
          \/ part = "sizes" /\ SizeSubject
          \/ part = "mentions" /\ MentionSubject
          \/ part = "commands" /\ CommandSubject

Next ==
    \/ part = "cedar" /\ Cedar!CedarNext /\ UNCHANGED <<part, subject, consoleVars>>
    \/ part = "console" /\ Con!ConsoleNext /\ UNCHANGED <<part, subject, cedarVars>>

Spec == Init /\ [][Next]_vars

-----------------------------------------------------------------------------
(***************************************************************************)
(* Properties, of each part.                                               *)
(***************************************************************************)
\* What the policy server reports is true of what it holds: an entity it added
\* is there, and a decision follows from what is loaded.
CedarAnswersAreTrue == part = "cedar" => Cedar!CedarAnswersAreTrue

\* The console's pages, walked, are its lists, and every actor is on the roster;
\* the scan tables give the last scan, in a list as on a page; and a filter
\* narrows by all that it says.
ConsoleShowsTheStore ==
    /\ part = "console" =>
        Con!QuietWalkIsTheList /\ Con!GrowingWalkMissesNothing /\ Con!ActorsAreListed
    /\ part = "reads" =>
        IF subject[1] = "scans" THEN Con!ScansAreTheLast(subject[2], {1, 2})
        ELSE Con!FilterIsHonoured(subject[2], subject[3], subject[4],
                                  {"agents/a", "agents/b"}, {"running"})

\* A message that is encoded and decoded means what it meant, or is refused.
WireKeepsMeaning ==
    part = "wire" =>
        IF subject[1] = "verdict" THEN W!VerdictArrives(subject[2])
        ELSE W!WireKeepsMeaning(W!Messages[subject[1]], subject[2])

\* Every program that is spelled in a command is among the facts that policies
\* see; a script that is an expansion is not told from one that was read.
CommandsSeen == part = "shell" => Sh!CommandsSeen(subject)

\* The lint of a candidate policy names its faults, and nothing else.
ReportIsRight == part = "lint" => Lint!ReportIsRight(subject)

\* The harness serves what its files say, the nearest first.
ServesWhatIsConfigured == part = "settings" => Set!ServesWhatIsConfigured(subject)

\* A classifier's answer holds all of its findings or none.
WholeOrOpen == part = "guardrails" => Guard!WholeOrOpen(subject[1], subject[2])

\* A hook's event is read or refused, a tool call judged by what it is given
\* (for some agents an empty text, where they find none), the files that its prompt names are read,
\* its reply is one the agent heeds, and a redacted output keeps none of its texts.
HooksKeepTheContract ==
    /\ part = "hooks" =>
        CASE subject[1] = "input" -> In!ReadOrRefused(subject[2], subject[3], subject[4])
          [] subject[1] = "tool" -> In!JudgedAsGiven(subject[2], subject[3], subject[4])
          [] subject[1] = "reply" -> Out!ReplyIsHeeded(subject[2], subject[3])
          [] subject[1] = "output" -> Out!OutputIsWithheld(subject[2])
    /\ part = "mentions" =>
        /\ Mn!MentionedFilesAreRead(subject[1], subject[2], <<Cwd>>, Contents, subject[3])
        /\ Mn!LabelledFilesAreRead(subject[1], subject[2], <<Cwd>>, Contents, subject[3])

\* What is cut to a size fits it, with what stands for the rest.
SizesHold ==
    part = "sizes" =>
        CASE subject[1] = "event" -> Sz!EventFits(subject[2], subject[3], subject[4])
          [] subject[1] = "json" -> Sz!EventJsonFits(subject[2], subject[3])
          [] subject[1] = "prompt" -> Sz!PromptFits(subject[2], subject[3], subject[4])
          [] subject[1] = "list" ->
                Sz!ListIsHonest(subject[2], subject[3], subject[4], subject[5])

\* An installer finds the commands that it wrote.
CommandIsOurs ==
    part = "commands" => Hc!CommandIsOurs(subject[1], subject[2], subject[3], subject[4])
=============================================================================
