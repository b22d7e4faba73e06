------------------------------- MODULE Mentions -------------------------------
(***************************************************************************)
(* The files that a prompt mentions with "@": the agent puts their content  *)
(* in the prompt without a tool call, so the hook finds them again in the   *)
(* text to have each read judged (hooks/core/src/mention.rs), and in VS     *)
(* Code's prompts from the label alone (hooks/vscode/src/mention.rs).       *)
(*                                                                         *)
(* A text is a sequence of symbols, and so is a name; "file:" is one of     *)
(* them.  A path is a sequence of names.  tree: for each directory that can *)
(* be read, its entries in the order the system gives them.                 *)
(***************************************************************************)
EXTENDS Naturals, Sequences, SequencesExt, FiniteSetsExt

\* Symbols by what they are, of those that the prompts are made of; the bounds
\* of the search; the directories it does not descend into.
CONSTANTS Space, Boundary, Trailing, Alphanumeric,
          MAX_SEARCH_ENTRIES, MAX_SEARCH_DEPTH, MAX_SEARCH_MATCHES, SKIPPED_DIRS

-----------------------------------------------------------------------------
(***************************************************************************)
(* The mentions of a text.                                                 *)
(***************************************************************************)
is_boundary(text, i) == i = 1 \/ text[i - 1] \in Space \cup Boundary

BodyEnd(text, i) ==
    Max({j \in i..Len(text) : \A k \in (i + 1)..j : text[k] \notin Space \cup {"@"}})

\* The body of a mention holds no "@", so each "@" of the text is looked at.
extract_mentions(text) ==
    LET starts == {i \in DOMAIN text :
            text[i] = "@" /\ is_boundary(text, i) /\ BodyEnd(text, i) > i}
        order == SetToSortSeq(starts, <)
    IN  [n \in DOMAIN order |-> SubSeq(text, order[n] + 1, BodyEnd(text, order[n]))]

-----------------------------------------------------------------------------
(***************************************************************************)
(* The file that a body names.                                             *)
(***************************************************************************)
components(body) ==
    LET first == {i \in DOMAIN body : body[i] # "/" /\ (i = 1 \/ body[i - 1] = "/")}
        order == SetToSortSeq(first, <)
        last(i) == Max({j \in i..Len(body) : \A k \in i..j : body[k] # "/"})
    IN  [n \in DOMAIN order |-> SubSeq(body, order[n], last(order[n]))]

lexically_normalize(path) ==
    LET Step(out, name) ==
            CASE name = <<".", ".">> -> IF out = << >> THEN out ELSE Front(out)
              [] name = <<".">> -> out
              [] OTHER -> Append(out, name)
    IN  FoldLeft(Step, << >>, path)

IsFile(tree, path) ==
    /\ path # << >>
    /\ Front(path) \in DOMAIN tree
    /\ \E i \in DOMAIN tree[Front(path)] :
        tree[Front(path)][i] = [name |-> Last(path), kind |-> "file"]

existing_file(tree, cwd, body) ==
    LET path == lexically_normalize(
                    IF Head(body) = "/" THEN components(body) ELSE cwd \o components(body))
    IN  IF IsFile(tree, path) THEN <<path>> ELSE << >>

\* << >> or <<path>>.
RECURSIVE resolve_file(_, _, _)
resolve_file(tree, cwd, body) ==
    IF body = << >> THEN << >>
    ELSE LET found == existing_file(tree, cwd, body)
         IN  IF found # << >> THEN found
             ELSE IF Last(body) \in Trailing THEN resolve_file(tree, cwd, Front(body)) ELSE << >>

-----------------------------------------------------------------------------
(***************************************************************************)
(* Reading.  A content is a sequence of characters by their bytes; 0 is a   *)
(* byte that is none.                                                      *)
(***************************************************************************)
Size(content, k) ==
    FoldSeq(LAMBDA c, n : n + IF c = 0 THEN 1 ELSE c, 0, SubSeq(content, 1, k))

read_file_text(content, max) ==
    LET whole == Max({k \in 0..Len(content) : Size(content, k) <= max})
        read == SubSeq(content, 1, whole)
    IN  IF 0 \in ToSet(read) THEN <<"unreadable">> ELSE <<"text", read>>

\* Every file once, where it is mentioned first.
Distinct(paths) ==
    FoldLeft(LAMBDA seen, p : IF p \in ToSet(seen) THEN seen ELSE Append(seen, p),
             << >>, paths)
Read(paths, contents, max) ==
    LET once == Distinct(paths)
    IN  [n \in DOMAIN once |->
            [path |-> once[n],
             content |-> read_file_text(contents[once[n]], max)]]

resolve_mentioned_files(prompt, tree, cwd, contents, max) ==
    LET bodies == extract_mentions(prompt)
    IN  Read(FlattenSeq([n \in DOMAIN bodies |-> resolve_file(tree, cwd, bodies[n])]),
             contents, max)

-----------------------------------------------------------------------------
(***************************************************************************)
(* VS Code: the label of a file, without its directory.                    *)
(***************************************************************************)
strip_file_scheme(body) == IF Head(body) = "file:" THEN Tail(body) ELSE body

\* The label, and what is left of it without the symbols at its end.
label_candidates(label) ==
    LET Bare(k) == \A j \in (k + 1)..Len(label) : label[j] \notin Alphanumeric
    IN  {SubSeq(label, 1, k) : k \in {k \in DOMAIN label : Bare(k)}}

\* The entries of one directory: what is found, the directories to come, and
\* whether a bound is reached.
Visit(tree, todo, depth, candidates, found, visited) ==
    LET dir == todo[1]
        Step(s, e) ==
            IF s.over THEN s
            ELSE IF s.visited = MAX_SEARCH_ENTRIES THEN [s EXCEPT !.over = TRUE]
            ELSE LET t == [s EXCEPT !.visited = @ + 1]
                 IN  CASE e.kind = "dir" /\ depth < MAX_SEARCH_DEPTH /\ e.name \notin SKIPPED_DIRS ->
                            [t EXCEPT !.dirs = Append(@, <<Append(dir, e.name), depth + 1>>)]
                       [] e.kind = "file" /\ e.name \in candidates ->
                            [t EXCEPT !.found = Append(@, Append(dir, e.name)),
                                      !.over = Len(s.found) + 1 >= MAX_SEARCH_MATCHES]
                       [] OTHER -> t
        entries == IF dir \in DOMAIN tree THEN tree[dir] ELSE << >>
    IN  FoldLeft(Step, [found |-> found, dirs |-> << >>, visited |-> visited, over |-> FALSE],
                 entries)

RECURSIVE Search(_, _, _, _, _)
Search(tree, queue, candidates, found, visited) ==
    IF queue = << >> THEN found
    ELSE LET s == Visit(tree, queue[1], queue[1][2], candidates, found, visited)
         IN  IF s.over THEN s.found
             ELSE Search(tree, Tail(queue) \o s.dirs, candidates, s.found, s.visited)

find_by_basename(tree, root, candidates) == Search(tree, << <<root, 0>> >>, candidates, << >>, 0)

\* A path that did not resolve is not a label.
HasSeparator(body) == {"/", "\\"} \cap ToSet(body) # {}

resolve_body(tree, cwd, written) ==
    LET body == strip_file_scheme(written)
        direct == resolve_file(tree, cwd, body)
    IN  IF direct # << >> THEN direct
        ELSE IF body = << >> \/ HasSeparator(body) THEN << >>
        ELSE find_by_basename(tree, cwd, label_candidates(body))

resolve_prompt_mentions(prompt, tree, cwd, contents, max) ==
    LET bodies == extract_mentions(prompt)
    IN  Read(FlattenSeq([n \in DOMAIN bodies |-> resolve_body(tree, cwd, bodies[n])]),
             contents, max)

-----------------------------------------------------------------------------
(***************************************************************************)
(* Properties.                                                             *)
(***************************************************************************)
Paths(reads) == {reads[n].path : n \in DOMAIN reads}
Files(tree) ==
    UNION {{Append(d, tree[d][i].name) : i \in DOMAIN tree[d]} : d \in DOMAIN tree}

\* A body without some of the punctuation at its end.
Spellings(body) ==
    {k \in DOMAIN body : \A j \in (k + 1)..Len(body) : body[j] \in Trailing}
\* What a spelling is the path of.
Spelled(cwd, body, k) ==
    LET b == SubSeq(body, 1, k)
    IN  lexically_normalize(IF b[1] = "/" THEN components(b) ELSE cwd \o components(b))

\* A file that a mention names, with punctuation after it or not, is read: the
\* one with the longest name if there are two; every file once, under the path a
\* read of the agent's would carry, in the order of the first mentions; and what
\* is read of it is text within the limit (core/src/mention.rs:89-98).
MentionedFilesAreRead(prompt, tree, cwd, contents, max) ==
    LET reads == resolve_mentioned_files(prompt, tree, cwd, contents, max)
        bodies == extract_mentions(prompt)
        Named(n) == {k \in Spellings(bodies[n]) : IsFile(tree, Spelled(cwd, bodies[n], k))}
        Meant(n) == Spelled(cwd, bodies[n], Max(Named(n)))
        naming == {n \in DOMAIN bodies : Named(n) # {}}
        First(path) == Min({n \in naming : Meant(n) = path})
    IN  /\ Paths(reads) = {Meant(n) : n \in naming}
        /\ \A m, n \in DOMAIN reads : m < n => First(reads[m].path) < First(reads[n].path)
        /\ \A n \in DOMAIN reads :
            LET text == contents[reads[n].path]
                got == reads[n].content
            IN  \/ got = <<"unreadable">> /\ 0 \in ToSet(text)
                \/ /\ got[1] = "text" /\ IsPrefix(got[2], text) /\ 0 \notin ToSet(got[2])
                   /\ Size(got[2], Len(got[2])) <= max
                   /\ Len(got[2]) < Len(text) =>
                        Size(text, Len(got[2]) + 1) > max

\* A label that names no file in the working directory is read in every place
\* below it, but in the directories that are left out, below the depth or when
\* the bounds of the search are reached; and nothing that no label names is read.
LabelledFilesAreRead(prompt, tree, cwd, contents, max) ==
    LET reads == resolve_prompt_mentions(prompt, tree, cwd, contents, max)
        bodies == extract_mentions(prompt)
        Label(n) == strip_file_scheme(bodies[n])
        entries == FoldSet(LAMBDA d, n : n + Len(tree[d]), 0, {d \in DOMAIN tree : IsPrefix(cwd, d)})
        Reachable(f) ==
            /\ IsPrefix(cwd, f) /\ Len(f) - Len(cwd) <= MAX_SEARCH_DEPTH + 1
            /\ \A i \in (Len(cwd) + 1)..(Len(f) - 1) : f[i] \notin SKIPPED_DIRS
        Named(n) ==
            IF Label(n) = << >> THEN {}
            ELSE LET direct == {k \in Spellings(Label(n)) : IsFile(tree, Spelled(cwd, Label(n), k))}
                 IN  IF direct # {} THEN {Spelled(cwd, Label(n), Max(direct))}
                     ELSE IF HasSeparator(Label(n)) THEN {}
                     ELSE {f \in Files(tree) : /\ IsFile(tree, f) /\ Reachable(f)
                                               /\ Last(f) \in label_candidates(Label(n))}
    IN  /\ Paths(reads) \subseteq UNION {Named(n) : n \in DOMAIN bodies}
        /\ \A n \in DOMAIN bodies :
            entries <= MAX_SEARCH_ENTRIES /\ Cardinality(Named(n)) <= MAX_SEARCH_MATCHES
                => Named(n) \subseteq Paths(reads)
        /\ \A f, g \in DOMAIN reads : f # g => reads[f].path # reads[g].path
=============================================================================
