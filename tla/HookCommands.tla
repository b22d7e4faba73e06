----------------------------- MODULE HookCommands -----------------------------
(***************************************************************************)
(* The commands that the installers write into the agents' configurations   *)
(* and have to find there again: the path of the binary, as it is found and *)
(* quoted for a shell (hooks/core/src/install/binary.rs), and the reading of *)
(* a command by which an installer knows its own (install/command.rs).      *)
(* A command that its installer does not recognise is installed twice and   *)
(* never removed.                                                          *)
(*                                                                         *)
(* A text is a sequence of symbols: the characters that a shell or a path   *)
(* gives a meaning to, and the words between them.                          *)
(***************************************************************************)
EXTENDS Naturals, Sequences, SequencesExt, FiniteSetsExt, TLC

Whitespace == {" "}
Separators == {"/", "\\"}

-----------------------------------------------------------------------------
(***************************************************************************)
(* The binary.                                                             *)
(***************************************************************************)
Verbatim == <<"\\", "\\", "?", "\\">>
Letters == {"C"}

\* \\?\C:\... is C:\...; \\?\UNC\... stays.
strip_verbatim_prefix(path) ==
    LET rest == SubSeq(path, 5, Len(path))
    IN  IF /\ IsPrefix(Verbatim, path)
           /\ Len(rest) >= 2 /\ rest[1] \in Letters /\ rest[2] = ":"
        THEN rest ELSE path

BaseName(path) ==
    SubSeq(path, 1 + Max({0} \cup {i \in DOMAIN path : path[i] \in Separators}), Len(path))
SonderaNames == {<<"sondera">>, <<"sondera", ".exe">>}

\* world: the running executable, the home directory, what PATH has (<< >> when
\* nothing), the files there are and what they are links to.
validate(world, path) ==
    IF path \notin world.files THEN << >>
    ELSE <<IF path \in DOMAIN world.links THEN world.links[path] ELSE path>>

Places(world) ==
    (IF BaseName(world.exe) \in SonderaNames THEN <<world.exe>> ELSE << >>)
    \o << <<"/", "usr", "/", "local", "/", "bin", "/", "sondera">>,
          <<"/", "usr", "/", "bin", "/", "sondera">>,
          world.home \o <<"/", ".sondera", "/", "bin", "/", "sondera">>,
          world.home \o <<"/", ".cargo", "/", "bin", "/", "sondera">> >>
    \o (IF world.which # << >> THEN <<world.which>> ELSE << >>)

\* << >> or <<path>>: the first that is a file.
find_sondera_binary(world) ==
    LET found == {i \in DOMAIN Places(world) : validate(world, Places(world)[i]) # << >>}
    IN  IF found = {} THEN << >>
        ELSE <<strip_verbatim_prefix(validate(world, Places(world)[Min(found)])[1])>>

-----------------------------------------------------------------------------
(***************************************************************************)
(* Rendering.                                                              *)
(***************************************************************************)
HasExe(path) == path # << >> /\ Last(path) \in {".exe", ".EXE"}
portable_str(path) ==
    LET p == strip_verbatim_prefix(path) IN IF HasExe(p) THEN Front(p) ELSE p
with_exe(path) == IF HasExe(path) THEN path ELSE Append(path, ".exe")

PosixSignificant ==
    Whitespace \cup {"'", "\"", "\\", "$", "grave", "!", "&", ";", "(", ")", "<", ">", "|", "*",
                     "?", "[", "]", "{", "}", "~", "#"}
Replaced(value, symbol, by) ==
    FlattenSeq([i \in DOMAIN value |-> IF value[i] = symbol THEN by ELSE <<value[i]>>])
Within(quote, value) == <<quote>> \o value \o <<quote>>

\* Mutant: an apostrophe ends the quotation.
QuotedAsItIs(value) ==
    IF ToSet(value) \cap PosixSignificant # {} THEN Within("'", value) ELSE value
posix_quote(value) ==
    IF ToSet(value) \cap PosixSignificant # {}
    THEN Within("'", Replaced(value, "'", <<"'", "\\", "'", "'">>)) ELSE value
windows_double_quote(value) ==
    IF ToSet(value) \cap Whitespace # {} THEN Within("\"", value) ELSE value
powershell_quote(value) ==
    IF ToSet(value) \cap (Whitespace \cup {"'"}) # {}
    THEN Within("'", Replaced(value, "'", <<"'", "'">>)) ELSE value

render(path, shell) ==
    CASE shell = "Posix" -> posix_quote(portable_str(path))
      [] shell = "WindowsCmd" -> windows_double_quote(with_exe(strip_verbatim_prefix(path)))
      [] shell = "PowerShell" ->
            <<"&", " ">> \o powershell_quote(with_exe(strip_verbatim_prefix(path)))

\* What the installers write after the binary.
Command(path, shell, provider, verbose, subcommand) ==
    render(path, shell) \o <<" ", "hook", " ", provider>>
    \o (IF verbose THEN <<" ", "--verbose">> ELSE << >>) \o <<" ", subcommand>>

-----------------------------------------------------------------------------
(***************************************************************************)
(* Recognising.                                                            *)
(***************************************************************************)
shell_tokens(command) ==
    LET Step(s, i) ==
            LET ch == command[i]
                Peek == IF i < Len(command) THEN command[i + 1] ELSE "end"
                t == [s EXCEPT !.saw = TRUE]
            IN  CASE s.escaped -> [t EXCEPT !.token = Append(@, ch), !.escaped = FALSE]
                  [] ~s.escaped /\ ~s.single /\ ~s.double /\ ch \in Whitespace ->
                        IF s.saw THEN [s EXCEPT !.tokens = Append(@, s.token), !.token = << >>,
                                                !.saw = FALSE]
                        ELSE s
                  [] ~s.escaped /\ ch = "'" /\ ~s.double -> [t EXCEPT !.single = ~@]
                  [] ~s.escaped /\ ch = "\"" /\ ~s.single -> [t EXCEPT !.double = ~@]
                  [] ~s.escaped /\ ch = "\\" /\ ~s.single ->
                        IF Peek \in Whitespace \cup {"'", "\"", "\\"}
                        THEN [t EXCEPT !.escaped = TRUE]
                        ELSE [t EXCEPT !.token = Append(@, ch)]
                  [] OTHER -> [t EXCEPT !.token = Append(@, ch)]
        start == [tokens |-> << >>, token |-> << >>, saw |-> FALSE, single |-> FALSE,
                  double |-> FALSE, escaped |-> FALSE]
        end == FoldLeft(Step, start, [i \in DOMAIN command |-> i])
    IN  IF end.saw THEN Append(end.tokens, end.token) ELSE end.tokens

is_sondera_token(token) == BaseName(token) \in SonderaNames
command_targets_sondera(command) ==
    \E i \in DOMAIN shell_tokens(command) : is_sondera_token(shell_tokens(command)[i])

Assignment(token) ==
    \E i \in 2..Len(token) :
        /\ token[i] = "=" /\ "=" \notin ToSet(SubSeq(token, 1, i - 1))
        /\ "/" \notin ToSet(SubSeq(token, 1, i - 1))
is_transparent_prefix_token(token) ==
    \/ token \in {<<"&">>, <<"env">>}
    \/ /\ token # << >> /\ token[1] # "-"
       /\ ToSet(token) \cap Separators # {} \/ Assignment(token)

BinaryTokens(tokens) ==
    {i \in DOMAIN tokens : /\ is_sondera_token(tokens[i])
                           /\ \A k \in 1..(i - 1) : is_transparent_prefix_token(tokens[k])}

\* << >> or <<binary, provider, subcommand>>.
parse(command) ==
    LET tokens == shell_tokens(command)
        at == Min(BinaryTokens(tokens))
        tail == SelectSeq(SubSeq(tokens, at + 1, Len(tokens)), LAMBDA t : t # <<"--verbose">>)
    IN  IF BinaryTokens(tokens) = {} THEN << >>
        ELSE IF Len(tail) < 2 THEN << >>
        ELSE IF tail[1] # <<"hook">> THEN << >>
        ELSE <<tokens[at], tail[2], IF Len(tail) >= 3 THEN tail[3] ELSE << >> >>

command_targets_provider(command, provider) ==
    parse(command) # << >> /\ parse(command)[2] = <<provider>>

-----------------------------------------------------------------------------
(***************************************************************************)
(* The program that a POSIX shell runs for a command: its first word, when  *)
(* nothing in it is expanded or ends the command.                          *)
(***************************************************************************)
PosixProgram(command) ==
    LET Step(s, i) ==
            LET ch == command[i]
            IN  CASE s.done -> s
                  [] ~s.done /\ s.single -> IF ch = "'" THEN [s EXCEPT !.single = FALSE]
                                            ELSE [s EXCEPT !.word = Append(@, ch)]
                  [] ~s.done /\ ~s.single /\ s.escaped ->
                        [s EXCEPT !.escaped = FALSE, !.word = Append(@, ch)]
                  [] ~s.done /\ ~s.single /\ ~s.escaped /\ ch = "'" -> [s EXCEPT !.single = TRUE]
                  [] ~s.done /\ ~s.single /\ ~s.escaped /\ ch = "\\" -> [s EXCEPT !.escaped = TRUE]
                  [] ~s.done /\ ~s.single /\ ~s.escaped /\ ch \in Whitespace ->
                        [s EXCEPT !.done = TRUE]
                  [] OTHER -> [s EXCEPT !.word = Append(@, IF ch \in PosixSignificant
                                                           THEN "expanded" ELSE ch)]
        start == [word |-> << >>, single |-> FALSE, escaped |-> FALSE, done |-> FALSE]
    IN  FoldLeft(Step, start, [i \in DOMAIN command |-> i]).word

-----------------------------------------------------------------------------
(***************************************************************************)
(* Properties.                                                             *)
(***************************************************************************)
\* The command that is written for the binary that is found, whatever its path
\* has in it and whatever the shell, is recognised as a hook of its provider and
\* of no other, with the event it is for, unless the binary is a link to a file
\* of another name or cmd.exe is given a path with an apostrophe and no space;
\* and a POSIX shell runs the file that was found, with no part of its path
\* expanded (command.rs:113-118, binary.rs:85-96).
Unread(path, shell) ==
    \/ BaseName(path) \notin SonderaNames
    \/ /\ shell # "Posix" /\ ToSet(path) \cap {"'", "\""} # {}
       /\ Last(render(path, shell)) \notin {"'", "\""}
CommandIsOurs(world, shell, provider, verbose) ==
    LET found == find_sondera_binary(world)
        path == found[1]
        command == Command(path, shell, provider, verbose, "pre-tool-use")
    IN  found # << >> =>
            /\ ~Unread(path, shell) =>
                /\ command_targets_provider(command, provider)
                /\ \A other \in {"claude", "cursor"} \ {provider} :
                        ~command_targets_provider(command, other)
                /\ parse(command)[3] = <<"pre-tool-use">>
                /\ command_targets_sondera(command)
            /\ shell = "Posix" =>
                /\ PosixProgram(command) = portable_str(path)
                /\ BaseName(path) \in SonderaNames => parse(command)[1] = portable_str(path)
=============================================================================
