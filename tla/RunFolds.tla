------------------------------ MODULE RunFolds ------------------------------
(***************************************************************************)
(* What the console says of a run, as folds over its events: the rollup of *)
(* types/trajectory/summary.rs, the folded details, the activity strip of  *)
(* console/sparkline.rs with the terminal's own narrowing of it, and the   *)
(* tree of the transcript screen.  Text is left out: a title, a summary or *)
(* the scan of a run is the id of the event it comes from, 0 if none; the  *)
(* scan of an event is that event's id and what was found in it.           *)
(***************************************************************************)
EXTENDS Naturals, Sequences, FiniteSets, SequencesExt

CONSTANTS
    MAX_SPARKLINE_CELLS, \* at least 3
    Hits                 \* policy ids a verdict can cite

ASSUME CellsAssumption == MAX_SPARKLINE_CELLS \in Nat \ (0..2)

None == "none"
Decisions == {"Allow", "Escalate", "Deny"}

Actions == {"tool", "shell", "web", "file"}
Outputs == {"tool_output", "shell_output", "web_output", "file_output"}
Observed == Outputs \cup {"prompt", "reply", "thought"}
Initials == {"started"}
Terminals == {"completed", "failed", "terminated"}
RunScans == {"digest", "transcript_scan"}
Governances == {"adjudicated", "message_scan"} \cup RunScans
Controls == Initials \cup Terminals \cup {"suspended", "resumed"} \cup Governances
Bodies == Actions \cup Observed \cup Controls \cup {"snapshot"}

\* Event: a row of trajectory_events.  call is the call id of an action or of
\* an output, cause the causation_id; decision and hit are an adjudication's, or
\* hit is a scan's finding.
EventOf(ids, times, calls) ==
    [id : ids, time : times, body : Bodies, call : calls \cup {None},
     cause : ids \cup {0}, decision : Decisions, hit : Hits \cup {None}]

\* EVENT_ORDER, for the events of one run.
InEventOrder(e, f) == e.time < f.time \/ (e.time = f.time /\ e.id < f.id)
\* The i-th event has i - 1 before it.
Before(events, e) == {f \in events : InEventOrder(f, e)}
Ordered(events) ==
    [i \in 1..Cardinality(events) |->
        CHOOSE e \in events : Cardinality(Before(events, e)) = i - 1]

Newest(events, Test(_)) ==
    LET found == {i \in DOMAIN events : Test(events[i])}
    IN  IF found = {} THEN 0 ELSE CHOOSE i \in found : \A j \in found : j <= i

-----------------------------------------------------------------------------
(***************************************************************************)
(* Rollups.                                                                *)
(***************************************************************************)
Severity(decision) ==
    CASE decision = "Deny" -> 2 [] decision = "Escalate" -> 1
      [] decision = "Allow" -> 0

Worst(decisions) ==
    IF decisions = {} THEN None
    ELSE CHOOSE d \in decisions : \A c \in decisions : Severity(c) <= Severity(d)

IsFoldedControl(event) == event.body \in Governances

FromControl(body) ==
    CASE body \in {"started", "resumed"} -> "running"
      [] body \in Terminals \cup {"suspended"} -> body
      [] body \in Governances -> "running"

\* run_status: the scanner's and the engine's own records do not move it.
RunStatus(events) ==
    LET Lifecycle(e) == e.body \in Controls /\ ~IsFoldedControl(e)
        at == Newest(events, Lifecycle)
    IN  IF at = 0 THEN "pending" ELSE FromControl(events[at].body)

LatestRecord(events, body) ==
    LET OfBody(e) == e.body = body
        at == Newest(events, OfBody)
    IN  IF at = 0 THEN 0 ELSE events[at].id
LatestDigest(events) == LatestRecord(events, "digest")
LatestScan(events) == LatestRecord(events, "transcript_scan")

RunSummary(events, digest) ==
    LET Ends(e) == e.body \in Terminals
        at == Newest(events, Ends)
    IN  IF digest # 0 THEN digest ELSE IF at = 0 THEN 0 ELSE events[at].id

Adjudications(events) == SelectSeq(events, LAMBDA e : e.body = "adjudicated")

RunDecision(events) == Worst({e.decision : e \in ToSet(Adjudications(events))})

RunPolicyHits(events) ==
    LET fired == SelectSeq(Adjudications(events),
                           LAMBDA e : e.decision # "Allow" /\ e.hit # None)
        First(i) == \A j \in 1..(i - 1) : fired[j].hit # fired[i].hit
    IN  [i \in 1..Cardinality({k \in DOMAIN fired : First(k)}) |->
            fired[CHOOSE k \in DOMAIN fired :
                    First(k) /\ Cardinality({j \in 1..k : First(j)}) = i].hit]

\* The last of a run's records of one kind that names an event.
FoldedOnto(events, body, id) ==
    LET Names(e) == e.body = body /\ e.cause = id /\ e.cause # 0
    IN  Newest(events, Names)

\* EventScanResult, as the record of a scan carries it.
NoScan == [of |-> 0, hit |-> None]
ScanOf(record) == [of |-> record.cause, hit |-> record.hit]

Detail(events, event) ==
    LET verdict == FoldedOnto(events, "adjudicated", event.id)
        scan == FoldedOnto(events, "message_scan", event.id)
    IN  [event |-> event,
         adjudication |-> IF verdict = 0 THEN 0 ELSE events[verdict].id,
         summary |-> IF scan = 0 THEN NoScan ELSE ScanOf(events[scan])]

\* The events, which come in event order, without those folded onto another.
FoldEventDetails(events) ==
    LET kept == Ordered({e \in {events[i] : i \in DOMAIN events} : ~IsFoldedControl(e)})
    IN  [i \in DOMAIN kept |-> Detail(events, kept[i])]

\* attach_event_scans: a row of event_scan_results replaces the folded one.
AttachEventScans(details, table) ==
    [i \in DOMAIN details |->
        IF details[i].event.id \in DOMAIN table
        THEN [details[i] EXCEPT !.summary = table[details[i].event.id]]
        ELSE details[i]]

Summarize(events) ==
    [started |-> events[1].time,
     updated |-> events[Len(events)].time,
     decision |-> RunDecision(events),
     count |-> Len(FoldEventDetails(events)),
     hits |-> RunPolicyHits(events),
     summary |-> RunSummary(events, 0),
     status |-> RunStatus(events),
     digest |-> 0, scan |-> 0]

DetailRollup(events) ==
    [Summarize(events) EXCEPT
        !.summary = RunSummary(events, LatestDigest(events)),
        !.digest = LatestDigest(events), !.scan = LatestScan(events)]

AttachScans(rollup, digest, scan) ==
    LET titled == IF digest = 0 THEN rollup
                  ELSE [rollup EXCEPT !.summary = digest, !.digest = digest]
    IN  IF scan = 0 THEN titled ELSE [titled EXCEPT !.scan = scan]

FilterMatches(filter, rollup) ==
    /\ filter.status \in {None, rollup.status}
    /\ filter.decision \in {None, rollup.decision}

-----------------------------------------------------------------------------
(***************************************************************************)
(* The activity strip.  A cell stands for one or more events.              *)
(***************************************************************************)
CellKind(events, i) ==
    LET body == events[i].body
        firstStart == {j \in DOMAIN events : events[j].body \in Initials}
        lastEnd == {j \in DOMAIN events : events[j].body \in Terminals}
    IN  CASE body \in {"tool", "tool_output"} -> "tool"
          [] body \in {"shell", "shell_output"} -> "shell"
          [] body \in {"web", "web_output"} -> "web"
          [] body \in {"file", "file_output"} -> "file"
          [] body \in {"prompt", "reply", "thought"} -> body
          [] body \in Governances -> None
          [] body \in Controls \ Governances ->
                IF \/ firstStart # {} /\ i = Min(firstStart)
                   \/ lastEnd # {} /\ i = Max(lastEnd)
                THEN "control" ELSE None
          [] body = "snapshot" -> "state"

Salience(kind) ==
    LET order == <<"control", "state", "thought", "reply", "prompt", "tool",
                   "web", "file", "shell">>
    IN  CHOOSE i \in DOMAIN order : order[i] = kind

\* folded_adjudications: what fired on an event, the strongest verdict with a
\* policy it cites, its own if it has one.
FoldedAdjudication(events, id) ==
    LET fired == SelectSeq(Adjudications(events),
                           LAMBDA e : e.decision # "Allow" /\ e.cause = id)
        Take(fold, e) ==
            IF fold.decision = None
            THEN [decision |-> e.decision, hit |-> e.hit]
            ELSE IF Severity(e.decision) > Severity(fold.decision)
            THEN [decision |-> e.decision,
                  hit |-> IF e.hit # None THEN e.hit ELSE fold.hit]
            ELSE IF fold.hit = None THEN [fold EXCEPT !.hit = e.hit] ELSE fold
    IN  FoldLeft(Take, [decision |-> None, hit |-> None], fired)

Cells(events) ==
    LET kept == SetToSortSeq({i \in DOMAIN events : CellKind(events, i) # None},
                             LAMBDA i, j : i < j)
    IN  [n \in DOMAIN kept |->
            LET fold == FoldedAdjudication(events, events[kept[n]].id)
            IN  [kind |-> CellKind(events, kept[n]),
                 decision |-> fold.decision, hit |-> fold.hit]]

\* summarize_bucket and the terminal's summarize: the most salient kind, and
\* the last of the strongest verdicts.
Bucket(cells) ==
    LET fired == {i \in DOMAIN cells : cells[i].decision # None}
        worst == {i \in fired : \A j \in fired :
                    Severity(cells[j].decision) <= Severity(cells[i].decision)}
    IN  [kind |-> CHOOSE k \in {c.kind : c \in ToSet(cells)} :
                    \A c \in ToSet(cells) : Salience(c.kind) <= Salience(k),
         decision |-> IF fired = {} THEN None ELSE cells[Max(worst)].decision,
         hit |-> IF fired = {} THEN None ELSE cells[Max(worst)].hit]

\* Bucket n of of: its first and last cell.
Span(n, of, len) ==
    (((n - 1) * len) \div of + 1)..((n * len) \div of)

Narrow(cells, width) ==
    LET spans == {n \in 1..width : Span(n, width, Len(cells)) # {}}
        kept == SetToSortSeq(spans, LAMBDA a, b : a < b)
        Piece(n) == SubSeq(cells, Min(Span(n, width, Len(cells))),
                           Max(Span(n, width, Len(cells))))
    IN  [i \in DOMAIN kept |-> Bucket(Piece(kept[i]))]

KeepEnds(cells, width) ==
    <<cells[1]>> \o Narrow(SubSeq(cells, 2, Len(cells) - 1), width - 2)
        \o <<cells[Len(cells)]>>

Sparkline(events) ==
    LET cells == Cells(events)
        truncated == Len(cells) > MAX_SPARKLINE_CELLS
    IN  [cells |-> IF truncated THEN KeepEnds(cells, MAX_SPARKLINE_CELLS)
                   ELSE cells,
         decision |-> RunDecision(events),
         truncated |-> truncated]

\* Sparkline::strip, for a column of the given width.
Strip(cells, width) ==
    IF width = 0 THEN << >>
    ELSE IF Len(cells) <= width THEN cells
    ELSE IF width < 3 THEN Narrow(cells, width)
    ELSE KeepEnds(cells, width)

-----------------------------------------------------------------------------
(***************************************************************************)
(* The transcript: an output nests under the newest action of its call.    *)
(***************************************************************************)
Step(root) == [root |-> root, children |-> << >>]

\* Where node n of the list goes: the step its call opened, or a new one.
Placed(tree, node, n) ==
    IF node.body \in Outputs /\ node.call \in DOMAIN tree.open
    THEN [tree EXCEPT
            !.steps[tree.open[node.call]].children = Append(@, n)]
    ELSE [steps |-> Append(tree.steps, Step(n)),
          open |-> IF node.body \in Actions
                   THEN [c \in DOMAIN tree.open \cup {node.call} |->
                            IF c = node.call THEN Len(tree.steps) + 1
                            ELSE tree.open[c]]
                   ELSE tree.open]

EmptyTree == [steps |-> << >>, open |-> << >>]

\* build_steps: the nodes are placed one after the other.
BuildTree(nodes) ==
    LET tree[n \in 0..Len(nodes)] ==
            IF n = 0 THEN EmptyTree ELSE Placed(tree[n - 1], nodes[n], n)
    IN  tree[Len(nodes)]
BuildSteps(nodes) == BuildTree(nodes).steps

\* Transcript::rows: the visible rows, given the expanded steps.
TreeRows(steps, expanded) ==
    LET Below(s) == IF s \in expanded THEN steps[s].children ELSE << >>
        RowsOf(s) ==
            <<[node |-> steps[s].root, step |-> s, depth |-> 0]>>
            \o [i \in DOMAIN Below(s) |->
                    [node |-> Below(s)[i], step |-> s, depth |-> 1]]
    IN  FlattenSeq([s \in DOMAIN steps |-> RowsOf(s)])
=============================================================================
