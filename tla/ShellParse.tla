------------------------------ MODULE ShellParse ------------------------------
(***************************************************************************)
(* What the policies are told about a shell command                        *)
(* (policy/cedar/src/shell_parse.rs): the programs it runs, their flags    *)
(* and arguments, through wrappers, `sh -c`, eval and substitutions.       *)
(*                                                                         *)
(* tree-sitter-bash is external: a script is the tree it parses to.  A     *)
(* word keeps what the code looks at: whether it is literal, the letters   *)
(* of a cluster, an `=`, and its path.  A path is a sequence of components *)
(* and a component of pieces, since a bare backslash glues two of them.    *)
(***************************************************************************)
EXTENDS Naturals, FiniteSets

LOCAL INSTANCE SequencesExt

CONSTANTS MAX_REPARSE_DEPTH, MAX_TREE_DEPTH

-----------------------------------------------------------------------------
(***************************************************************************)
(* Words.                                                                  *)
(***************************************************************************)
NoScript == [error |-> FALSE, big |-> FALSE, nodes |-> << >>]

Piece(name) == [name |-> name, upper |-> FALSE, exe |-> FALSE]
Word(name) ==
    [kind |-> "literal", form |-> "plain", path |-> <<<<Piece(name)>>>>, quoted |-> TRUE,
     backslash |-> FALSE, letters |-> {}, eq |-> FALSE, script |-> NoScript]

Literal(w) == w.kind = "literal"
Dashed(w) == w.form \in {"-", "--", "long", "short"}
IsFlagToken(w) == w.form \in {"--", "long", "short"}
IsEnvAssignment(w) == w.form = "assignment"

\* literal_text: an unquoted backslash goes, and with it the separator it was.
Glued(path) == <<FlattenSeq(path)>>
LiteralText(w) == IF ~w.quoted /\ w.backslash THEN Glued(w.path) ELSE w.path

\* looks_like_raw_windows_path, for a bare word and paths of plain names.
RawWindowsPath(w) == ~w.quoted /\ w.backslash /\ Len(w.path) > 1

LowerCase(component) == [i \in DOMAIN component |-> [component[i] EXCEPT !.upper = FALSE]]
NormalizePath(path) == [i \in DOMAIN path |-> LowerCase(path[i])]

\* normalize_program: the last component, in lower case and without `.exe`.
NormalizeProgram(w) ==
    LET path == LiteralText(w)
        base == LowerCase(path[Len(path)])
    IN  IF base = << >> THEN << >> ELSE [base EXCEPT ![Len(base)].exe = FALSE]
NameOf(prog) == IF Len(prog) = 1 THEN prog[1].name ELSE ""

-----------------------------------------------------------------------------
(***************************************************************************)
(* Wrappers and shells.                                                    *)
(***************************************************************************)
WRAPPERS ==
    [sudo |-> {"-u", "-g", "-p", "-C", "-D", "-h", "-R", "-T", "-U", "-r", "-t", "--user",
               "--group", "--prompt", "--close-from", "--chdir", "--host", "--role",
               "--type", "--login-class"},
     doas |-> {"-u", "-C"},
     xargs |-> {"-a", "-d", "-E", "-e", "-I", "-i", "-L", "-l", "-n", "-P", "-s",
                "--arg-file", "--delimiter", "--eof", "--replace", "--max-lines",
                "--max-args", "--max-procs", "--max-chars", "--process-slot-var"},
     timeout |-> {"-s", "-k", "--signal", "--kill-after"},
     nice |-> {"-n", "--adjustment"},
     env |-> {"-u", "-S", "-C", "--unset", "--chdir", "--split-string", "--argv0"},
     stdbuf |-> {"-i", "-o", "-e", "--input", "--output", "--error"},
     exec |-> {"-a"}, nohup |-> {}, setsid |-> {}, command |-> {}]
SHELLS == {"bash", "sh", "zsh", "dash", "ash"}

\* Mutant: an option that carries its value takes the next word as well.
ConsumesNext(wrapper, w) == w.path[1][1].name \in WRAPPERS[wrapper]

ConsumesValue(wrapper, w) == ~w.eq /\ w.path[1][1].name \in WRAPPERS[wrapper]

-----------------------------------------------------------------------------
(***************************************************************************)
(* What is found.                                                          *)
(***************************************************************************)
Nothing ==
    [ok |-> TRUE, programs |-> {}, flags |-> {}, args |-> {}, normalized |-> {},
     components |-> {}, dynamic |-> FALSE, substitution |-> FALSE,
     pipeline |-> FALSE, redirection |-> FALSE]
Incomplete == [Nothing EXCEPT !.ok = FALSE]

Merge(a, b) ==
    [ok |-> a.ok /\ b.ok, programs |-> a.programs \cup b.programs,
     flags |-> a.flags \cup b.flags, args |-> a.args \cup b.args,
     normalized |-> a.normalized \cup b.normalized,
     components |-> a.components \cup b.components,
     dynamic |-> a.dynamic \/ b.dynamic,
     substitution |-> a.substitution \/ b.substitution,
     pipeline |-> a.pipeline \/ b.pipeline,
     redirection |-> a.redirection \/ b.redirection]
MergeAll(scans) == FoldLeft(Merge, Nothing, scans)

\* insert_arg: the normalized views hold the path as it was written as well,
\* where the shell would have dropped its backslashes.
InsertArg(prog, w) ==
    LET views == {NormalizePath(LiteralText(w))}
                 \cup (IF RawWindowsPath(w) THEN {NormalizePath(w.path)} ELSE {})
    IN  [Nothing EXCEPT
            !.args = {<<prog, LiteralText(w)>>},
            !.normalized = {<<prog, v>> : v \in views},
            !.components = UNION {{<<prog, v[i]>> : i \in {j \in DOMAIN v : v[j] # << >>}} : v \in views}]

\* insert_flag: a long flag without its value; a short cluster whole and split.
InsertFlag(prog, w) ==
    [Nothing EXCEPT !.flags = {<<prog, w.path[1][1].name>>} \cup {<<prog, l>> : l \in w.letters}]

-----------------------------------------------------------------------------
(***************************************************************************)
(* The walk over a tree.                                                   *)
(***************************************************************************)
Deeper(walk) == [walk EXCEPT !.tree = @ + 1]

\* find_c_script: the first word without a dash after a cluster with a `c`.
Scripts(args) ==
    {j \in DOMAIN args :
        /\ Literal(args[j]) /\ ~Dashed(args[j])
        /\ \E i \in 1..(j - 1) : Literal(args[i]) /\ args[i].form = "short" /\ "c" \in args[i].letters}
FirstOf(indices) == CHOOSE i \in indices : \A j \in indices : i <= j

RECURSIVE ParseWithDepth(_, _), Visit(_, _), HandleCommand(_, _), MineArgs(_, _),
          ClassifyInvocation(_, _, _), ClassifyArgs(_, _, _, _),
          PeelWrapper(_, _, _, _, _), HandleEval(_, _)

ParseWithDepth(script, depth) ==
    IF script.big THEN Incomplete
    ELSE Merge([Nothing EXCEPT !.ok = ~script.error],
               MergeAll([i \in DOMAIN script.nodes |->
                            Visit(script.nodes[i], [reparse |-> depth, tree |-> 1])]))

Visit(node, walk) ==
    IF walk.tree > MAX_TREE_DEPTH THEN Incomplete
    ELSE CASE node.kind \in {"literal", "dynamic"} -> Nothing
           [] node.kind = "command" -> HandleCommand(node, walk)
           [] OTHER -> Merge([Nothing EXCEPT !.pipeline = node.kind = "pipeline",
                                             !.substitution = node.kind = "substitution",
                                             !.redirection = node.kind = "redirect"],
                             MergeAll([i \in DOMAIN node.children |->
                                          Visit(node.children[i], Deeper(walk))]))

\* Redirects, and assignments before the name, are walked like any node.
HandleCommand(node, walk) ==
    LET others == MergeAll([i \in DOMAIN node.others |-> Visit(node.others[i], Deeper(walk))])
        args == Tail(node.words)
        prog == NormalizeProgram(node.words[1])
    IN  Merge(others,
          CASE node.words = << >> -> Nothing
            [] node.words # << >> /\ ~Literal(node.words[1]) ->
                  Merge([Nothing EXCEPT !.dynamic = TRUE], MineArgs(node.words, walk))
            [] OTHER -> IF prog = << >> THEN MineArgs(args, walk)
                        ELSE Merge([Nothing EXCEPT !.programs = {prog}],
                                   ClassifyInvocation(prog, args, walk)))

MineArgs(args, walk) == MergeAll([i \in DOMAIN args |-> Visit(args[i], Deeper(walk))])

ClassifyInvocation(prog, args, walk) ==
    CASE walk.tree > MAX_TREE_DEPTH -> Incomplete
      [] NameOf(prog) \in DOMAIN WRAPPERS ->
            PeelWrapper(NameOf(prog), args, walk, FALSE, IF NameOf(prog) = "timeout" THEN 1 ELSE 0)
      [] NameOf(prog) = "eval" -> HandleEval(args, walk)
      [] OTHER ->
            IF NameOf(prog) \in SHELLS /\ Scripts(args) # {}
            THEN LET at == FirstOf(Scripts(args))
                 IN  Merge(IF walk.reparse < MAX_REPARSE_DEPTH
                           THEN ParseWithDepth(args[at].script, walk.reparse + 1) ELSE Incomplete,
                           ClassifyArgs(prog, args, at, walk))
            ELSE ClassifyArgs(prog, args, 0, walk)

ClassifyArgs(prog, args, skip, walk) ==
    LET terminators == {i \in DOMAIN args \ {skip} : Literal(args[i]) /\ args[i].form = "--"}
        After(i) == \E t \in terminators : t < i
        One(i) ==
            CASE i = skip -> Nothing
              [] i # skip /\ ~Literal(args[i]) -> Visit(args[i], Deeper(walk))
              [] OTHER ->
                    IF After(i) THEN InsertArg(prog, args[i])
                    ELSE IF i \in terminators THEN Nothing
                    ELSE IF IsFlagToken(args[i]) THEN InsertFlag(prog, args[i])
                    ELSE InsertArg(prog, args[i])
    IN  MergeAll([i \in DOMAIN args |-> One(i)])

\* The words of a wrapper up to the program it runs.
PeelWrapper(wrapper, args, walk, ended, skip) ==
    LET prog == <<Piece(wrapper)>>
        w == Head(args)
        Rest(n) == SubSeq(args, n + 1, Len(args))
    IN  IF args = << >> THEN Nothing
        ELSE IF ~Literal(w) THEN Merge([Nothing EXCEPT !.dynamic = TRUE], MineArgs(args, walk))
        ELSE IF ~ended /\ w.form = "--" THEN PeelWrapper(wrapper, Rest(1), walk, TRUE, skip)
        ELSE IF ~ended /\ wrapper = "env" /\ IsEnvAssignment(w)
             THEN PeelWrapper(wrapper, Rest(1), walk, ended, skip)
        ELSE IF ~ended /\ IsFlagToken(w)
             THEN LET mined == IF ConsumesValue(wrapper, w) /\ Len(args) > 1 /\ ~Literal(args[2])
                               THEN Visit(args[2], Deeper(walk)) ELSE Nothing
                      next == IF ConsumesValue(wrapper, w) THEN Rest(2) ELSE Rest(1)
                  IN  Merge(Merge(InsertFlag(prog, w), mined),
                            PeelWrapper(wrapper, next, walk, ended, skip))
        ELSE IF skip > 0 THEN Merge(InsertArg(prog, w),
                                    PeelWrapper(wrapper, Rest(1), walk, ended, skip - 1))
        ELSE IF NormalizeProgram(w) = << >>
             THEN Merge(InsertArg(prog, w), PeelWrapper(wrapper, Rest(1), walk, ended, skip))
        ELSE Merge([Nothing EXCEPT !.programs = {NormalizeProgram(w)}],
                   ClassifyInvocation(NormalizeProgram(w), Rest(1), Deeper(walk)))

\* The literal words of eval make one script: what the only word holds, or the
\* command that they spell.
Joined(words) ==
    IF Len(words) = 1 /\ words[1].script.nodes # << >> THEN words[1].script
    ELSE [NoScript EXCEPT !.nodes = <<[kind |-> "command", words |-> words, others |-> << >>]>>]

HandleEval(args, walk) ==
    LET literal == SelectSeq(args, Literal)
        mined == MineArgs(SelectSeq(args, LAMBDA w : ~Literal(w)), walk)
    IN  IF literal = << >> THEN mined
        ELSE IF walk.reparse >= MAX_REPARSE_DEPTH THEN Merge(mined, Incomplete)
        ELSE Merge(mined, ParseWithDepth(Joined(literal), walk.reparse + 1))

AnalyzeShellCommand(script) == ParseWithDepth(script, 0)

-----------------------------------------------------------------------------
(***************************************************************************)
(* Command lines by what they are meant to do.  An intent runs one program,*)
(* wraps another intent, has a shell or eval read it, or joins two.  The    *)
(* program may be an expansion, and so may be the script ("hidden").        *)
(***************************************************************************)
Flag(name, letters, eq) ==
    [Word(name) EXCEPT !.form = IF letters = {} THEN "long" ELSE "short",
                       !.letters = letters, !.eq = eq]
Command(words) == [kind |-> "command", words |-> words, others |-> << >>]
Alone(nodes) == [NoScript EXCEPT !.nodes = nodes]

Expansion == [Word("CMD") EXCEPT !.kind = "dynamic"]
OneC == Flag("-c", {"c"}, FALSE)

RECURSIVE WordsOf(_), NodesOf(_)
\* The words of an intent that is one command.
WordsOf(i) ==
    CASE i.do = "run" -> <<i.prog>> \o i.args
      [] i.do = "unknown" -> <<Expansion>> \o i.args
      [] i.do = "wrapped" ->
            <<Word(i.by)>> \o i.options
            \o (IF i.by = "timeout" THEN <<Word("5")>> ELSE << >>) \o WordsOf(i.in)
      [] i.do = "shell" ->
            <<Word(i.by), Flag("-c", {"c"} \cup i.letters, FALSE),
              [Word("script") EXCEPT !.script = Alone(NodesOf(i.in))]>>
      [] i.do = "eval" -> <<Word("eval"), [Word("script") EXCEPT !.script = Alone(NodesOf(i.in))]>>
      [] i.do = "eval words" -> <<Word("eval")>> \o WordsOf(i.in)
      [] i.do = "hidden" ->
            (IF i.by = "eval" THEN <<Word("eval")>> ELSE <<Word(i.by), OneC>>)
            \o <<Expansion>> \o i.args
      [] i.do = "inside" ->
            <<Word("echo"), [kind |-> "substitution", children |-> NodesOf(i.in)]>>
NodesOf(i) ==
    CASE i.do = "both" -> <<[kind |-> i.by, children |-> NodesOf(i.in) \o NodesOf(i.other)]>>
      [] i.do = "redirected" ->
            <<[kind |-> "redirected", children |->
                  NodesOf(i.in) \o <<[kind |-> "redirect", children |-> <<Word("out")>>]>>]>>
      [] OTHER -> <<Command(WordsOf(i))>>

Names(words) == {NormalizeProgram(w) : w \in words}

RECURSIVE Runs(_), Mistaken(_), Touches(_), Unknown(_), Reparses(_)
Inner(i) == IF i.do = "both" THEN {i.in, i.other} ELSE IF i.do \in {"run", "unknown", "hidden"} THEN {} ELSE {i.in}
Runs(i) ==
    (CASE i.do = "run" -> Names({i.prog})
       [] i.do \in {"wrapped", "shell", "hidden"} -> Names({Word(i.by)})
       [] i.do \in {"eval", "eval words"} -> Names({Word("eval")})
       [] i.do = "inside" -> Names({Word("echo")})
       [] OTHER -> {})
    \cup UNION {Runs(j) : j \in Inner(i)}
\* The word after a hidden script, an argument of it, is read in its place.
Mistaken(i) ==
    (IF i.do = "hidden" THEN Names(ToSet(i.args)) ELSE {})
    \cup UNION {Mistaken(j) : j \in Inner(i)}
Touches(i) ==
    (IF i.do # "run" THEN {}
     ELSE UNION {{<<NormalizeProgram(i.prog), LowerCase(w.path[k])>> : k \in DOMAIN w.path} :
                    w \in {v \in ToSet(i.args) : v.form = "plain"}})
    \cup UNION {Touches(j) : j \in Inner(i)}
Unknown(i) == i.do = "unknown" \/ \E j \in Inner(i) : Unknown(j)
Reparses(i) ==
    LET deepest == IF Inner(i) = {} THEN 0
                   ELSE LET depths == {Reparses(j) : j \in Inner(i)}
                        IN  CHOOSE d \in depths : \A e \in depths : e <= d
    IN  deepest + IF i.do \in {"shell", "eval", "eval words"} \/ (i.do = "hidden" /\ i.args # << >>)
                   THEN 1 ELSE 0

-----------------------------------------------------------------------------
(***************************************************************************)
(* Property.                                                               *)
(***************************************************************************)
\* A parse that calls itself complete names every program that is spelled in
\* the command, through any nesting; every component of a path that a program
\* is given is there in lower case, however its separators are written; and
\* never is an option's value, an assignment or a duration taken for a program.
\* It calls itself incomplete past the depth to which scripts are read
\* (shell_parse.rs:247, :419, :621).
\*
\* It is called dynamic just when an expansion stands where a program does, and
\* that is not all that is decided at run time: `eval "$CMD"` and
\* `bash -c "$CMD"` hide a whole script, and the code reports them as complete
\* and not dynamic (:708, :725), with the next word, if there is one, as a
\* program (Mistaken).  Policies are told of the eval or the shell alone.
CommandsSeen(i) ==
    LET found == AnalyzeShellCommand(Alone(NodesOf(i)))
    IN  /\ found.programs \subseteq Runs(i) \cup Mistaken(i)
        /\ found.ok = (Reparses(i) <= MAX_REPARSE_DEPTH)
        /\ found.ok => /\ found.programs = Runs(i) \cup Mistaken(i)
                       /\ Touches(i) \subseteq found.components
                       /\ found.dynamic = Unknown(i)
=============================================================================
