----------------------------- MODULE Transcript -----------------------------
(***************************************************************************)
(* The transcript screen of the terminal console on one run: the run's     *)
(* rows as hooks and scanners write them, the event tail that streams them *)
(* (EventTail, here one batch for a poll), the fold that the screen makes  *)
(* of the stream event by event (TranscriptTail), and the cursor, the open *)
(* steps and the panes of the reader.                                      *)
(***************************************************************************)
EXTENDS RunFolds

CONSTANTS
    Written,   \* the bodies of the rows written
    Calls,     \* call ids
    Found,     \* what a scan can find, None for nothing
    Times,     \* timestamps; an event is stamped before it is inserted
    MaxRows,   \* bound: rows of the run
    MaxScans   \* bound: scans that are stored

ASSUME TimesAssumption == Times \subseteq Nat
ASSUME FoundAssumption == Found \subseteq Hits \cup {None}

VARIABLES
    rows,       \* trajectory_events of the run
    table,      \* event_scan_results, by the event scanned
    cursor, queue,   \* the tail: the row it reads past, and what it sent
    load,       \* transcript_load
    nodes,      \* the transcript's events, with what is folded onto them
    tree,       \* its steps, and the step each call id opened last
    verdicts, scans,   \* TranscriptTail: governance, by the event it grades
    insight,    \* whether the header carries a digest or a scan
    expanded, selected, pane
ledger == <<rows, table>>
tail == <<cursor, queue>>
content == <<load, nodes, tree, verdicts, scans, insight>>
reader == <<expanded, selected, pane>>
vars == <<ledger, tail, content, reader>>

Panes == {"Tree", "Insight", "Detail"}
Ids == 1..MaxRows
Unscanned == [i \in {} |-> 0]

Init ==
    /\ rows = {} /\ table = Unscanned
    /\ cursor = 0 /\ queue = << >>
    /\ load = "Loading" /\ nodes = << >> /\ tree = EmptyTree
    /\ verdicts = Unscanned /\ scans = Unscanned /\ insight = FALSE
    /\ expanded = {} /\ selected = 1 /\ pane = "Tree"

-----------------------------------------------------------------------------
(***************************************************************************)
(* The ledger.                                                             *)
(***************************************************************************)
RowIn(id) == CHOOSE r \in rows : r.id = id
Ledger == Ordered(rows)
HasInsight == \E r \in rows : r.body \in RunScans

With(f, key, value) == [k \in DOMAIN f \cup {key} |-> IF k = key THEN value ELSE f[k]]

\* An event is adjudicated once, which records one verdict.  The record of its
\* scan carries the result that is in the table, and it may never come.  What a
\* verdict cites is left out, and Deny stands for Escalate too.
InsertRow ==
    /\ Cardinality(rows) < MaxRows
    /\ \E body \in Written, time \in Times, callId \in Calls \cup {None},
          cause \in {r.id : r \in rows} \cup {0}, decision \in {"Allow", "Deny"},
          hit \in Found \cup {None} :
        /\ callId # None <=> body \in Actions \cup Outputs
        /\ cause # 0 <=> body \in Governances
        /\ body # "adjudicated" => decision = "Allow"
        /\ body # "message_scan" => hit = None
        /\ body = "message_scan" => cause \in DOMAIN table /\ hit = table[cause].hit
        /\ cause # 0 => /\ RowIn(cause).body \notin Governances
                        /\ \A r \in rows : r.body = body => r.cause # cause
                        /\ RowIn(cause).time <= time
        /\ rows' = rows \cup {[id |-> Cardinality(rows) + 1, time |-> time, body |-> body,
                              call |-> callId, cause |-> cause,
                              decision |-> decision, hit |-> hit]}
    /\ UNCHANGED <<table, tail, content, reader>>

\* record_event_scan: the result of an event's one scan enters its table.
PersistScan ==
    /\ Cardinality(DOMAIN table) < MaxScans
    /\ \E r \in rows, hit \in Found :
        /\ r.body \notin Governances /\ r.id \notin DOMAIN table
        /\ table' = With(table, r.id, [of |-> r.id, hit |-> hit])
    /\ UNCHANGED <<rows, tail, content, reader>>

\* What list_trajectory_events answers, as the whole list of pages.
Page == AttachEventScans(FoldEventDetails(Ledger), table)

-----------------------------------------------------------------------------
(***************************************************************************)
(* The tail, and the fold of its events.                                   *)
(***************************************************************************)
EventsAfter == Ordered({r \in rows : r.id > cursor})

\* A poll sends its rows in event order; the cursor is the last of them.
Poll ==
    /\ load = "Live"
    /\ EventsAfter # << >>
    /\ queue' = queue \o EventsAfter
    /\ cursor' = EventsAfter[Len(EventsAfter)].id
    /\ UNCHANGED <<ledger, content, reader>>

\* apply_governance.
Graded(event, over, under) ==
    [event |-> event,
     adjudication |-> IF event.id \in DOMAIN over THEN over[event.id] ELSE 0,
     summary |-> IF event.id \in DOMAIN under THEN under[event.id] ELSE NoScan]

\* governance: transcript-level records are none.
GovernanceOf(event) == event.body \in {"adjudicated", "message_scan"}
Known(screen, event) == \E n \in DOMAIN screen.nodes :
                            screen.nodes[n].event.id = event.id

\* Mutants: governance waits for its event but does not reach one that is
\* there, or an output is a row of its own.
IngestParkedOnly(screen, event) ==
    IF GovernanceOf(event)
    THEN IF event.body = "adjudicated"
         THEN [screen EXCEPT !.verdicts = With(@, event.cause, event.id)]
         ELSE [screen EXCEPT !.scans = With(@, event.cause, ScanOf(event))]
    ELSE IF Known(screen, event) THEN screen
    ELSE LET n == Len(screen.nodes) + 1
         IN  [screen EXCEPT
                !.nodes = Append(@, Graded(event, screen.verdicts, screen.scans)),
                !.tree = Placed(@, event, n)]

IngestFlat(screen, event) ==
    IF GovernanceOf(event) \/ Known(screen, event) THEN screen
    ELSE LET n == Len(screen.nodes) + 1
         IN  [screen EXCEPT
                !.nodes = Append(@, Graded(event, screen.verdicts, screen.scans)),
                !.tree.steps = Append(@, Step(n))]

\* TranscriptTail::ingest, on [nodes, tree, verdicts, scans].
Ingest(screen, event) ==
    IF GovernanceOf(event)
    THEN LET over == IF event.body = "adjudicated"
                     THEN With(screen.verdicts, event.cause, event.id)
                     ELSE screen.verdicts
             under == IF event.body = "message_scan"
                      THEN With(screen.scans, event.cause, ScanOf(event))
                      ELSE screen.scans
         IN  [screen EXCEPT
                !.verdicts = over, !.scans = under,
                !.nodes = [n \in DOMAIN @ |->
                    IF @[n].event.id = event.cause
                    THEN Graded(@[n].event, over, under) ELSE @[n]]]
    ELSE IF Known(screen, event) THEN screen
    ELSE LET n == Len(screen.nodes) + 1
         IN  [screen EXCEPT
                !.nodes = Append(@, Graded(event, screen.verdicts, screen.scans)),
                !.tree = Placed(@, event, n)]

\* The first events of the queue, one after the other.
Ingested(screen, arrived) ==
    LET after[n \in 0..arrived] ==
            IF n = 0 THEN screen ELSE Ingest(after[n - 1], queue[n])
    IN  after[arrived]

Visible == TreeRows(tree.steps, expanded)
SelectedNode == IF selected \in DOMAIN Visible THEN Visible[selected].node ELSE 0
Clamped(row, count) == IF count = 0 THEN 1 ELSE IF row > count THEN count ELSE row
RowOf(node, visible) == {i \in DOMAIN visible : visible[i].node = node}

\* ingest_live_events: what has arrived, at once.  A new step is open; if an
\* output went under an older one, the cursor follows the row it is on.
Anchored(visible, shifted) ==
    IF shifted /\ SelectedNode # 0 /\ RowOf(SelectedNode, visible) # {}
    THEN Min(RowOf(SelectedNode, visible)) ELSE selected

IngestLive(arrived) ==
    /\ load = "Live"
    /\ LET before == [nodes |-> nodes, tree |-> tree,
                      verdicts |-> verdicts, scans |-> scans]
           after == Ingested(before, arrived)
           steps == Len(after.tree.steps)
           shifted == Len(after.nodes) - Len(nodes) > steps - Len(tree.steps)
           open == expanded \cup (Len(tree.steps) + 1)..steps
           visible == TreeRows(after.tree.steps, open)
       IN  /\ nodes' = after.nodes /\ tree' = after.tree
           /\ verdicts' = after.verdicts /\ scans' = after.scans
           /\ expanded' = open
           /\ selected' = Clamped(Anchored(visible, shifted), Len(visible))
    /\ queue' = SubSeq(queue, arrived + 1, Len(queue))
    /\ UNCHANGED <<ledger, cursor, load, insight, pane>>

Ingests == \E arrived \in DOMAIN queue : IngestLive(arrived)

-----------------------------------------------------------------------------
(***************************************************************************)
(* Loading.                                                                *)
(***************************************************************************)
\* set_transcript: a page, or the header of a live run, opens at its first
\* row with the steps that have children open.
Show(list, steps, state) ==
    /\ nodes' = list
    /\ tree' = [steps |-> steps, open |-> EmptyTree.open]
    /\ expanded' = {s \in DOMAIN steps : steps[s].children # << >>}
    /\ verdicts' = Unscanned /\ scans' = Unscanned
    /\ insight' = HasInsight
    /\ load' = state
    /\ selected' = 1
    /\ pane' = IF pane = "Insight" /\ ~HasInsight THEN "Tree" ELSE pane
    /\ cursor' = 0 /\ queue' = << >>

BeginLive ==
    /\ load = "Loading"
    /\ Show(<< >>, << >>, "Live")
    /\ UNCHANGED ledger

\* The stream could not be opened, or was not asked for.
SetTranscript ==
    /\ load = "Loading"
    /\ Show(Page, BuildSteps([n \in DOMAIN Page |-> Page[n].event]), "Ready")
    /\ UNCHANGED ledger

LoadFails ==
    /\ load = "Loading"
    /\ load' = "Failed"
    /\ UNCHANGED <<ledger, tail, nodes, tree, verdicts, scans, insight, reader>>

\* end_live.
EndLive ==
    /\ load = "Live"
    /\ load' = "Ready"
    /\ UNCHANGED <<ledger, tail, nodes, tree, verdicts, scans, insight, reader>>

Reload ==
    /\ load # "Loading"
    /\ load' = "Loading"
    /\ UNCHANGED <<ledger, tail, nodes, tree, verdicts, scans, insight, reader>>

-----------------------------------------------------------------------------
(***************************************************************************)
(* Keys.                                                                   *)
(***************************************************************************)
Moves == UNCHANGED <<ledger, tail, content>>

MoveRow ==
    /\ pane = "Tree"
    /\ \E to \in {selected - 1, selected + 1, 1, Len(Visible)} :
        selected' = IF to < 1 THEN 1 ELSE Clamped(to, Len(Visible))
    /\ Moves /\ UNCHANGED <<expanded, pane>>

\* toggle_expanded: a child first moves the cursor to its step.
ToggleExpanded ==
    /\ pane = "Tree" /\ SelectedNode # 0
    /\ LET step == Visible[selected].step
           open == IF step \in expanded THEN expanded \ {step}
                   ELSE expanded \cup {step}
           at == CHOOSE i \in DOMAIN Visible :
                    Visible[i].step = step /\ Visible[i].depth = 0
       IN  /\ expanded' = open
           /\ selected' = Clamped(at, Len(TreeRows(tree.steps, open)))
    /\ Moves /\ UNCHANGED pane

ExpandAll ==
    /\ expanded' = DOMAIN tree.steps
    /\ Moves /\ UNCHANGED <<selected, pane>>

CollapseAll ==
    /\ expanded' = {}
    /\ selected' = Clamped(selected, Len(tree.steps))
    /\ Moves /\ UNCHANGED pane

\* steps_where.
Fired(n) ==
    /\ nodes[n].adjudication # 0
    /\ RowIn(nodes[n].adjudication).decision # "Allow"
Signalled(n) == nodes[n].summary.hit # None
OfStep(s) == {tree.steps[s].root} \cup ToSet(tree.steps[s].children)
FiredSteps == {s \in DOMAIN tree.steps : \E n \in OfStep(s) : Fired(n)}
SignalledSteps == {s \in DOMAIN tree.steps : \E n \in OfStep(s) : Signalled(n)}

\* jump_to_next_step: the next of the steps after the cursor, or the first.
JumpTo(steps) ==
    /\ steps # {}
    /\ LET current == IF SelectedNode = 0 THEN 1 ELSE Visible[selected].step
           later == {s \in steps : s > current}
           next == IF later = {} THEN Min(steps) ELSE Min(later)
       IN  selected' = CHOOSE i \in DOMAIN Visible :
                            Visible[i].step = next /\ Visible[i].depth = 0
    /\ Moves /\ UNCHANGED <<expanded, pane>>

JumpToNextFire == JumpTo(FiredSteps)
JumpToNextSignal == JumpTo(SignalledSteps)

TogglePane ==
    /\ pane' = CASE pane = "Tree" -> IF insight THEN "Insight" ELSE "Detail"
                 [] pane = "Insight" -> "Detail"
                 [] pane = "Detail" -> "Tree"
    /\ Moves /\ UNCHANGED <<expanded, selected>>

Key ==
    \/ MoveRow \/ ToggleExpanded \/ ExpandAll \/ CollapseAll
    \/ JumpToNextFire \/ JumpToNextSignal \/ TogglePane

Next ==
    \/ InsertRow \/ PersistScan \/ Poll \/ Ingests
    \/ BeginLive \/ SetTranscript \/ LoadFails \/ EndLive \/ Reload
    \/ Key

Spec == Init /\ [][Next]_vars

-----------------------------------------------------------------------------
Streamed == load = "Live" /\ queue = << >> /\ EventsAfter = << >>
Shown == {nodes[n].event.id : n \in DOMAIN nodes}

\* What a stream can bring of a line of the page: the ledger, and the scan only
\* if its record is there.
Announced(id) == \E r \in rows : r.body = "message_scan" /\ r.cause = id
Streamable(detail) ==
    IF Announced(detail.event.id) THEN detail ELSE [detail EXCEPT !.summary = NoScan]

\* A caught-up live transcript has one node for every event that the page of the
\* console lists, with the verdict that the page gives it and with the scan, in
\* whatever order the rows were written and streamed.  The page may show one
\* thing more: a scan whose result is stored and whose record is not in the
\* ledger, because it is not yet written or because that failed
\* (scan.rs:396-402); the node of that event has no scan.
VerdictsReachTheirRows ==
    Streamed =>
        /\ \A i \in DOMAIN Page : \E n \in DOMAIN nodes : nodes[n] = Streamable(Page[i])
        /\ Cardinality(Shown) = Len(nodes)

InOrder == \A r, s \in rows : r.id < s.id => r.time <= s.time
EventsIn(list) == [n \in DOMAIN list |-> list[n].event]
OfEvents(steps, of) ==
    [s \in DOMAIN steps |->
        <<of[steps[s].root].id,
          [c \in DOMAIN steps[s].children |-> of[steps[s].children[c]].id]>>]

\* If rows were inserted in the order of their times, and the run was not
\* scanned as a whole, the steps are those of the page too.
SameTreeAsPage ==
    LET list == EventsIn(Page)
    IN  Streamed /\ InOrder /\ ~HasInsight =>
            OfEvents(tree.steps, EventsIn(nodes)) = OfEvents(BuildSteps(list), list)

=============================================================================
