------------------------------ MODULE SizeLimits ------------------------------
(***************************************************************************)
(* What the program cuts to keep within a size: the texts of one event      *)
(* before it is sent (hooks/claude/src/truncate.rs), the events of a run in *)
(* the prompt of a scan (trajectory/src/rubric.rs), and the rows that the   *)
(* MCP tools list (mcp/src/baseline.rs, mcp/src/features.rs).               *)
(*                                                                         *)
(* A character is its bytes in UTF-8; 0 is a quotation mark, one byte that  *)
(* JSON writes as two.                                                     *)
(***************************************************************************)
EXTENDS Naturals, Sequences, SequencesExt, FiniteSetsExt

\* Lengths in bytes: of the two truncation markers, of a prompt's block around
\* an event and of the note of a gap, both but for their numbers; the base the
\* numbers are written in.
CONSTANTS MARKER, JSON_MARKER, BLOCK, GAP, RADIX

Sum(sizes) == FoldSeq(LAMBDA x, total : x + total, 0, sizes)
\* As many of the first as fit.
Fitting(sizes, budget) == Max({k \in 0..Len(sizes) : Sum(SubSeq(sizes, 1, k)) <= budget})

Width(c) == IF c = 0 THEN 1 ELSE c
Bytes(text) == Sum([i \in DOMAIN text |-> Width(text[i])])
\* The longest prefix that ends at a character boundary.
UpTo(text, max) == SubSeq(text, 1, Fitting([i \in DOMAIN text |-> Width(text[i])], max))

-----------------------------------------------------------------------------
(***************************************************************************)
(* The content of one event.                                               *)
(***************************************************************************)
Texts(names) == [i \in DOMAIN names |-> [name |-> names[i], json |-> FALSE]]
JsonField(name) == <<[name |-> name, json |-> TRUE]>>

ActionFields ==
    [ShellCommand |-> Texts(<<"command", "working_dir">>),
     FileOperation |-> Texts(<<"content", "old_content">>),
     WebFetch |-> Texts(<<"prompt", "url">>),
     ToolCall |-> JsonField("arguments")]
ObservationFields ==
    [Prompt |-> Texts(<<"content">>), Thought |-> Texts(<<"thought">>),
     ToolOutput |-> JsonField("output") \o Texts(<<"error">>),
     ShellCommandOutput |-> Texts(<<"stdout", "stderr">>),
     WebFetchOutput |-> Texts(<<"result", "url">>),
     FileOperationResult |-> Texts(<<"content", "error">>)]
ControlFields ==
    [Started |-> Texts(<<"task">>), Completed |-> Texts(<<"summary">>),
     Failed |-> Texts(<<"reason">>), Terminated |-> Texts(<<"reason", "terminated_by">>),
     Suspended |-> Texts(<<"reason">>), Resumed |-> Texts(<<"resumed_by">>),
     Adjudicated |-> << >>, Scanned |-> << >>]

\* A value is a string (string |-> TRUE) or other JSON as it is serialized.
Serialized(v) ==
    Sum([i \in DOMAIN v.text |-> IF v.string /\ v.text[i] = 0 THEN 2 ELSE Width(v.text[i])])
    + IF v.string THEN 2 ELSE 0

Whole(v) == [text |-> v.text, string |-> v.string, cut |-> FALSE]
\* What is cut ends in the marker, and is a string.
Cut(v, max) == [text |-> UpTo(v.text, max), string |-> TRUE, cut |-> TRUE]
truncate_event_text(v, max) == IF Bytes(v.text) <= max THEN Whole(v) ELSE Cut(v, max)

cap_json_value(v, max) ==
    IF v.string THEN truncate_event_text(v, max)
    ELSE IF Serialized(v) <= max THEN Whole(v) ELSE Cut(v, max)

Less(budget, charged) == IF charged > budget THEN 0 ELSE budget - charged

ConsumeString(capped, budget) == Less(budget, Bytes(capped.text))

\* A JSON value that is not cut is charged as it is serialized.
ConsumeJson(capped, budget) ==
    Less(budget, IF capped.cut THEN Bytes(capped.text) ELSE Serialized(capped))

\* values: the fields that are there.
cap_strings(fields, values, max) ==
    LET Step(done, f) ==
            LET v == values[f.name]
                capped == IF f.json THEN cap_json_value(v, done.budget)
                          ELSE truncate_event_text(v, done.budget)
            IN  [budget |-> IF f.json THEN ConsumeJson(capped, done.budget)
                            ELSE ConsumeString(capped, done.budget),
                 fields |-> Append(done.fields, capped)]
        present == SelectSeq(fields, LAMBDA f : f.name \in DOMAIN values)
    IN  FoldLeft(Step, [budget |-> max, fields |-> << >>], present).fields

-----------------------------------------------------------------------------
(***************************************************************************)
(* A run in the prompt of a scan.  lens: the lengths of the events' JSON.   *)
(***************************************************************************)
truncate_event_json(text, max) ==
    IF Bytes(text) <= max THEN Bytes(text)
    ELSE Bytes(UpTo(text, Less(max, JSON_MARKER))) + JSON_MARKER

Digits(n) == 1 + Cardinality({k \in 1..n : RADIX ^ k <= n})
event_block_len(i, lens) == BLOCK + Digits(i) + lens[i + 1]
Blocks(lens, from, to) ==
    Sum([k \in 1..(IF from < to THEN to - from ELSE 0) |-> event_block_len(from + k - 1, lens)])

gap_marker(head, tail) ==
    IF tail <= head THEN 0 ELSE GAP + Digits(tail - head) + Digits(head) + Digits(tail - 1)

HeadEnd(lens, available) ==
    Max({h \in 0..Len(lens) : Blocks(lens, 0, h) <= available \div 2})

\* From the end towards the head, until one does not fit.
TailFrom(lens, head, available, Gap(_, _)) ==
    Min({t \in head..Len(lens) :
            \A i \in t..(Len(lens) - 1) :
                Blocks(lens, 0, head) + Blocks(lens, i, Len(lens)) + Gap(head, i) <= available})
\* Mutant: the note of the gap takes no room.
TailWithoutTheGap(lens, head, available) == TailFrom(lens, head, available, LAMBDA h, t : 0)
TailStart(lens, head, available) == TailFrom(lens, head, available, gap_marker)

render_transcript_prompt(preamble, lens, max) ==
    LET available == Less(max, preamble)
        head == HeadEnd(lens, available)
    IN  IF preamble + Blocks(lens, 0, Len(lens)) <= max
        THEN [head |-> Len(lens), tail |-> Len(lens)]
        ELSE [head |-> head, tail |-> TailStart(lens, head, available)]

-----------------------------------------------------------------------------
(***************************************************************************)
(* Lists of rows.  A filter is absent ("") or a value.                      *)
(***************************************************************************)
Shown(matched, budget) == Fitting([i \in DOMAIN matched |-> matched[i].size], budget)
Listing(matched, budget) ==
    [rows |-> SubSeq(matched, 1, Shown(matched, budget)), match_count |-> Len(matched),
     omitted |-> SubSeq(matched, Shown(matched, budget) + 1, Len(matched))]

\* A row: id, actions (of a policy; none is every action), categories, words (of
\* what is searched) and size.
BaselineMatches(row, filter) ==
    /\ filter.action # "" => row.actions = {} \/ filter.action \in row.actions
    /\ filter.category # "" => filter.category \in row.categories
    /\ filter.id # "" => row.id = filter.id
    /\ filter.query \subseteq row.words

query(rows, filter, declared, budget) ==
    [listing |-> Listing(SelectSeq(rows, LAMBDA r : BaselineMatches(r, filter)), budget),
     unknown |-> filter.action # "" /\ declared # {} /\ filter.action \notin declared]

\* Rules are listed only for a category or a query.
signatures(rules, filter, budget) ==
    LET matched == SelectSeq(rules, LAMBDA r :
            /\ filter.category # "" => filter.category \in r.categories
            /\ filter.query \subseteq r.words)
        filtering == filter.category # "" \/ filter.query # {}
        known == UNION {rules[i].categories : i \in DOMAIN rules}
    IN  [listing |-> IF filtering THEN Listing(matched, budget) ELSE Listing(<< >>, budget),
         unknown |-> filter.category # "" /\ filter.category \notin known]

-----------------------------------------------------------------------------
(***************************************************************************)
(* Properties.                                                             *)
(***************************************************************************)
\* The fields of an event together keep no more than the cap; each is whole or a
\* prefix of whole characters that says it is cut; one is cut only when its next
\* character does not fit beside what the fields before it take; and an event
\* that fits is sent as it is (truncate.rs:13-35).
EventFits(fields, values, max) ==
    LET present == SelectSeq(fields, LAMBDA f : f.name \in DOMAIN values)
        out == cap_strings(fields, values, max)
        Given(i) == values[present[i].name]
        Taken(i) == IF present[i].json /\ ~out[i].cut THEN Serialized(out[i])
                    ELSE Bytes(out[i].text)
        Before(i) == Sum([k \in 1..(i - 1) |-> Taken(k)])
        Full(i) == IF present[i].json THEN Serialized(Given(i)) ELSE Bytes(Given(i).text)
    IN  /\ Len(out) = Len(present)
        /\ Sum([i \in DOMAIN out |-> Bytes(out[i].text)]) <= max
        /\ \A i \in DOMAIN out :
            /\ IsPrefix(out[i].text, Given(i).text)
            /\ ~out[i].cut => out[i].text = Given(i).text /\ out[i].string = Given(i).string
            /\ out[i].cut =>
                /\ Len(out[i].text) < Len(Given(i).text)
                /\ Before(i) + Bytes(out[i].text)
                    + Width(Given(i).text[Len(out[i].text) + 1]) > max
        /\ Sum([i \in DOMAIN out |-> Full(i)]) <= max => \A i \in DOMAIN out : ~out[i].cut

\* The prompt of a scan is never longer than the limit; it holds the run whole,
\* or its beginning and its end around one gap, and one more event of the end
\* would not have fit.
PromptFits(preamble, lens, max) ==
    LET n == Len(lens)
        p == render_transcript_prompt(preamble, lens, max)
        Size(head, tail) ==
            preamble + Blocks(lens, 0, head) + gap_marker(head, tail) + Blocks(lens, tail, n)
    IN  /\ Size(p.head, p.tail) <= max
        /\ p.head <= p.tail /\ p.tail <= n
        /\ preamble + Blocks(lens, 0, n) <= max => p.head = n
        /\ p.tail > p.head => Size(p.head, p.tail - 1) > max

\* An event of the prompt is no longer than the limit.
EventJsonFits(text, max) == truncate_event_json(text, max) <= max

\* A list is the rows that match: the ones shown, within the limit, and the ids
\* of the others, that do not fit; and an unknown name is told from one that has
\* no rows.
ListIsHonest(rows, filter, declared, budget) ==
    LET a == query(rows, filter, declared, budget)
        l == a.listing
        Wanted(r) ==
            /\ filter.action \in {""} \cup r.actions \/ r.actions = {}
            /\ filter.category \in {""} \cup r.categories
            /\ filter.id \in {"", r.id}
            /\ \A w \in filter.query : w \in r.words
    IN  /\ ToSet(l.rows) \cup ToSet(l.omitted) = {r \in ToSet(rows) : Wanted(r)}
        /\ ToSet(l.rows) \cap ToSet(l.omitted) = {}
        /\ l.match_count = Len(l.rows) + Len(l.omitted)
        /\ Sum([i \in DOMAIN l.rows |-> l.rows[i].size]) <= budget
        /\ l.omitted # << >> =>
            Sum([i \in DOMAIN l.rows |-> l.rows[i].size]) + Head(l.omitted).size > budget
=============================================================================
