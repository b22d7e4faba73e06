------------------------------- MODULE Console -------------------------------
(***************************************************************************)
(* The console API (console/src) over the Turso store: events are inserted *)
(* and deleted, agents registered and removed, while callers list runs,    *)
(* agents and a run's events page by page.  A page is cut from a list that *)
(* every call projects anew, and its token is only an offset, so what a    *)
(* walk over the pages shows depends on what happens between its calls.    *)
(*                                                                         *)
(* A list is one read here.  Time is in half days, after which midnight,   *)
(* the window of the deny rate and going offline are two steps apart.      *)
(***************************************************************************)
EXTENDS RunFolds

CONSTANTS
    Runs,              \* numbers: the store groups by the id of a run
    Agents,            \* numbers as well
    Providers,
    Queries,           \* [over, run, agent, provider, status, decision, order, descending, size]
    Inserts,           \* [run, agent, provider, body, decision, back, two]
    DEFAULT_PAGE_SIZE, MAX_PAGE_SIZE,
    MaxWrites, MaxTime

VARIABLES
    rows,      \* trajectory_events: events with their run, agent and provider
    agents,    \* the table of agents, in the order of their registration
    pending,   \* inserts that have registered their agents, not more yet
    now,
    walk,      \* a walk over the pages of one list
    raced,     \* agents deleted while an insert of theirs was pending
    writes
vars == <<rows, agents, pending, now, walk, raced, writes>>

NoWalk == [state |-> "off"]

ConsoleInit ==
    /\ rows = {} /\ agents = << >> /\ pending = {} /\ now = 0
    /\ walk = NoWalk /\ raced = {} /\ writes = 0

EventsOf(r) == Ordered({e \in rows : e.run = r})
Ids(seq) == [i \in DOMAIN seq |-> seq[i].id]

-----------------------------------------------------------------------------
(***************************************************************************)
(* What is listed.                                                         *)
(***************************************************************************)
\* sort_by_key is stable; reversing it reverses ties as well.
Sorted(items, Key(_), descending) ==
    LET before(i, j) == Key(items[i]) < Key(items[j])
                        \/ (Key(items[i]) = Key(items[j]) /\ i < j)
        order == SetToSortSeq(DOMAIN items, before)
        sorted == [i \in DOMAIN items |-> items[order[i]]]
    IN  IF descending THEN Reverse(sorted) ELSE sorted

\* trajectories_matching: the runs with a row of the agent, in the order of
\* their ids; a run belongs to the agent of its first event all the same.
Rollups(q) ==
    LET found == SetToSortSeq({e.run : e \in {f \in rows : q.agent \in {0, f.agent}}}, <)
        all == [i \in DOMAIN found |->
                    [id |-> found[i], fold |-> Summarize(EventsOf(found[i]))]]
    IN  SelectSeq(all, LAMBDA t : FilterMatches(q, t.fold))

RunKey(order, t) ==
    CASE order = "event_count" -> t.fold.count
      [] order = "update_time" -> t.fold.updated
      [] OTHER -> t.fold.started

ListTrajectories(q) ==
    LET Key(t) == RunKey(q.order, t) IN Sorted(Rollups(q), Key, q.descending)

Of(id) == {e \in rows : e.agent = id}
LastActive(id) == IF Of(id) = {} THEN 0 - 1 ELSE Max({e.time : e \in Of(id)})
RunsToday(id) ==
    Cardinality({e.run : e \in {f \in Of(id) : f.time >= now - (now % 2)}})

\* agent_deny_rate, as the verdicts that fired and all of them.
DenyRate(id) ==
    LET recent == {e \in Of(id) : e.body = "adjudicated" /\ e.time + 2 >= now}
    IN  [fired |-> Cardinality({e \in recent : e.decision # "Allow"}),
         all |-> Cardinality(recent)]

HealthScore(rate) ==
    IF rate.all = 0 THEN 100 ELSE (200 * (rate.all - rate.fired) + rate.all) \div (2 * rate.all)

Status(last, rate) ==
    CASE last < 0 \/ now - last > 2 -> "offline"
      [] last >= 0 /\ now - last <= 2 /\ 10 * rate.fired > 3 * rate.all -> "degraded"
      [] OTHER -> "healthy"

ProjectAgent(a) ==
    [id |-> a.id, provider |-> a.provider,
     status |-> Status(LastActive(a.id), DenyRate(a.id)),
     health |-> HealthScore(DenyRate(a.id)),
     last |-> LastActive(a.id), runs |-> RunsToday(a.id)]

AgentFilterMatches(q, a) == q.agent \in {0, a.id} /\ q.provider \in {None, a.provider}

AgentsMatching(q) ==
    LET kept == SelectSeq(agents, LAMBDA a : AgentFilterMatches(q, a))
    IN  [i \in DOMAIN kept |-> ProjectAgent(kept[i])]

AgentKey(order, a) ==
    CASE order = "display_name" -> a.id
      [] order = "runs_today" -> a.runs
      [] OTHER -> a.last

ListAgents(q) ==
    LET Key(a) == AgentKey(q.order, a) IN Sorted(AgentsMatching(q), Key, q.descending)

\* AgentStats::tally.
Tally(list) ==
    [s \in {"healthy", "degraded", "offline"} |->
        Cardinality({i \in DOMAIN list : list[i].status = s})]
AnalyzeAgents(q) == Tally(AgentsMatching(q))

ListEvents(q) ==
    LET details == FoldEventDetails(EventsOf(q.run))
    IN  [i \in DOMAIN details |-> [id |-> details[i].event.id, detail |-> details[i]]]

Listed(q) ==
    CASE q.over = "runs" -> ListTrajectories(q)
      [] q.over = "agents" -> ListAgents(q)
      [] q.over = "events" -> ListEvents(q)

-----------------------------------------------------------------------------
(***************************************************************************)
(* Pages.  A token is an offset; 0 stands for none, or for one that does   *)
(* not parse.                                                              *)
(***************************************************************************)
Limit(size) == IF size <= 0 THEN DEFAULT_PAGE_SIZE ELSE Min({size, MAX_PAGE_SIZE})

Slice(all, offset, limit) ==
    [items |-> SubSeq(all, offset + 1, Min({offset + limit, Len(all)})),
     total |-> Len(all)]

\* Mutant: the next page starts at what the caller asked for, not at what it got.
TokenOfRequest(offset, returned, size, total) ==
    IF returned = 0 \/ offset + returned >= total THEN 0
    ELSE offset + (IF size <= 0 THEN DEFAULT_PAGE_SIZE ELSE size)

NextPageToken(offset, returned, size, total) ==
    IF returned = 0 \/ offset + returned >= total THEN 0 ELSE offset + returned

\* One call of a walk.
NextPage(q) ==
    /\ walk.state = "off" \/ (walk.state = "open" /\ walk.q = q)
    /\ LET first == walk.state = "off"
           offset == IF first THEN 0 ELSE walk.token
           page == Slice(Listed(q), offset, Limit(q.size))
           token == NextPageToken(offset, Len(page.items), q.size, page.total)
       IN  walk' = [state |-> IF token = 0 THEN "done" ELSE "open", q |-> q,
                    token |-> token,
                    got |-> (IF first THEN << >> ELSE walk.got) \o page.items,
                    start |-> IF first THEN ToSet(Ids(Listed(q))) ELSE walk.start,
                    quiet |-> IF first THEN TRUE ELSE walk.quiet,
                    steady |-> IF first THEN TRUE ELSE walk.steady]
    /\ UNCHANGED <<rows, agents, pending, now, raced, writes>>

Disturbed(steady) ==
    walk' = IF walk.state # "open" THEN NoWalk
            ELSE [walk EXCEPT !.quiet = FALSE, !.steady = @ /\ steady]

-----------------------------------------------------------------------------
(***************************************************************************)
(* What a request asks for (console/src/query.rs).  A filter is a sequence *)
(* of clauses, and a clause <<key, value>>, or <<word>> without a "=".      *)
(***************************************************************************)
\* The value that a clause gives its field, when it has one.
ClauseValue(over, clause, agentIds, statuses) ==
    LET value == clause[2]
    IN  CASE clause[1] = "agent" /\ value \in agentIds -> {value}
          [] clause[1] \in {"provider", "platform"} /\ over = "agents" -> {value}
          [] clause[1] = "status" /\ over = "runs" /\ value \in statuses -> {value}
          [] clause[1] = "decision" /\ over = "runs"
                /\ value \in {"allow", "deny", "escalate"} -> {value}
          [] OTHER -> {}

\* agent_filter, trajectory_filter: one clause that is not understood refuses
\* the request; of two clauses for one key the later stands.
ParseFilter(over, filter, agentIds, statuses) ==
    LET keys == {filter[i][1] : i \in DOMAIN filter}
        last(k) == Max({i \in DOMAIN filter : filter[i][1] = k})
    IN  IF \A i \in DOMAIN filter :
                Len(filter[i]) = 2 /\ ClauseValue(over, filter[i], agentIds, statuses) # {}
        THEN [ok |-> TRUE, fields |-> [k \in keys |-> filter[last(k)][2]]]
        ELSE [ok |-> FALSE]

\* order_parts, of the words of an order.
OrderParts(words) ==
    IF Len(words) > 1 /\ Last(words) \in {"asc", "desc"}
    THEN <<Front(words), Last(words) = "desc">> ELSE <<words, TRUE>>

\* An order that is not known is the default of its collection.
ParseOrder(over, words) ==
    LET parts == OrderParts(words)
        fields == IF over = "agents" THEN {"display_name", "runs_today"}
                  ELSE {"event_count", "update_time"}
        default == IF over = "agents" THEN "last_active_time" ELSE "start_time"
    IN  [order |-> IF Len(parts[1]) = 1 /\ parts[1][1] \in fields THEN parts[1][1] ELSE default,
         descending |-> parts[2]]

-----------------------------------------------------------------------------
(***************************************************************************)
(* The scan tables (storage/src/turso/scan.rs): what the scanner wrote of a *)
(* run and its events, as the single reads and the lists join it.  A        *)
(* history is a sequence of writes [kind, event, run, at, good, value], good *)
(* when the stored text still decodes, and of deletions [kind |-> "delete", *)
(* run].                                                                   *)
(***************************************************************************)
\* A row that is written again keeps its place in the table.
PutScan(table, w) ==
    LET same == {i \in DOMAIN table : table[i].kind = w.kind /\ table[i].event = w.event}
    IN  IF same = {} THEN Append(table, w) ELSE [table EXCEPT ![Min(same)] = w]

DeleteRunScans(table, run) == SelectSeq(table, LAMBDA r : r.run # run)

ScanTable(history) ==
    FoldLeft(LAMBDA t, w : IF w.kind = "delete" THEN DeleteRunScans(t, w.run) ELSE PutScan(t, w),
             << >>, history)

\* ORDER BY created_at DESC, rowid DESC.
NewestFirst(table, kind) ==
    LET places == {i \in DOMAIN table : table[i].kind = kind}
        order == SetToSortSeq(places, LAMBDA i, j :
                    table[i].at > table[j].at \/ (table[i].at = table[j].at /\ i > j))
    IN  [n \in DOMAIN order |-> table[order[n]]]

Decoded(row) == IF row.good THEN {row.value} ELSE {}

\* latest_digest, latest_scan: one row, decoded or absent.
LatestOf(table, kind, run) ==
    LET newest == SelectSeq(NewestFirst(table, kind), LAMBDA r : r.run = run)
    IN  IF newest = << >> THEN {} ELSE Decoded(newest[1])

\* transcript_scans.
TranscriptScans(table, run) ==
    [digest |-> LatestOf(table, "digest", run), scan |-> LatestOf(table, "scan", run)]

\* The first row of the run that decodes is kept.
KeptOf(table, kind, run) ==
    LET good == SelectSeq(NewestFirst(table, kind), LAMBDA r : r.run = run /\ r.good)
    IN  IF good = << >> THEN {} ELSE {good[1].value}

\* latest_transcript_scans, of one run.
LatestTranscriptScans(table, run) ==
    [digest |-> KeptOf(table, "digest", run), scan |-> KeptOf(table, "scan", run)]

\* event_scans.
EventScans(table, run) ==
    LET found == {r \in ToSet(table) : r.kind = "event" /\ r.run = run /\ r.good}
    IN  [e \in {r.event : r \in found} |-> (CHOOSE r \in found : r.event = e).value]

-----------------------------------------------------------------------------
(***************************************************************************)
(* Writes.                                                                 *)
(***************************************************************************)
\* register_agent: a known agent keeps its place.
Register(a, table) ==
    IF \E i \in DOMAIN table : table[i].id = a.id
    THEN [i \in DOMAIN table |-> IF table[i].id = a.id THEN a ELSE table[i]]
    ELSE Append(table, a)

RegisterAll(batch, table) ==
    FoldLeft(LAMBDA t, e : Register([id |-> e.agent, provider |-> e.provider], t),
             table, SetToSortSeq(batch, LAMBDA e, f : e.id < f.id))

Write(n) == writes + n <= MaxWrites /\ writes' = writes + n

UpsertAgent(a) ==
    /\ Write(1) /\ agents' = Register(a, agents) /\ raced' = raced \ {a.id}
    /\ Disturbed(TRUE)
    /\ UNCHANGED <<rows, pending, now>>

\* insert_event and insert_events: the agents first, each in a statement of
\* its own, then the rows, all of them or none.
RegisterAgents(batch) ==
    /\ Write(Cardinality(batch)) /\ pending = {} /\ pending' = {batch}
    /\ agents' = RegisterAll(batch, agents)
    /\ raced' = raced \ {e.agent : e \in batch}
    /\ Disturbed(TRUE)
    /\ UNCHANGED <<rows, now>>

\* A row never leads its run here: its stamp is not the run's earliest.
Follows(e) == {f \in rows : f.run = e.run} = {}
              \/ \E f \in rows : f.run = e.run /\ f.time <= e.time

InsertEvents(batch) ==
    /\ batch \in pending /\ pending' = pending \ {batch}
    /\ \E stored \in BOOLEAN :
        /\ rows' = IF stored THEN rows \cup batch ELSE rows
        /\ Disturbed(\A e \in batch : Follows(e))
    /\ UNCHANGED <<agents, now, raced, writes>>

\* delete_agent: one transaction, that no insert in flight is part of.
DeleteAgent(id) ==
    /\ Write(1)
    /\ agents' = SelectSeq(agents, LAMBDA a : a.id # id)
    /\ rows' = {e \in rows : e.agent # id}
    /\ raced' = IF \E batch \in pending : \E e \in batch : e.agent = id
                THEN raced \cup {id} ELSE raced
    /\ Disturbed(FALSE) /\ UNCHANGED <<pending, now>>

DeleteTrajectory(r) ==
    /\ Write(1) /\ rows' = {e \in rows : e.run # r}
    /\ Disturbed(FALSE) /\ UNCHANGED <<agents, pending, now, raced>>

Tick ==
    /\ now < MaxTime /\ now' = now + 1 /\ Disturbed(TRUE)
    /\ UNCHANGED <<rows, agents, pending, raced, writes>>

\* New rows: their ids grow with each write; an event may be stamped before
\* now, and two may come in one batch.
Fresh(insert) ==
    LET e == [id |-> writes + 1, time |-> IF insert.back THEN 0 ELSE now,
              body |-> insert.body, call |-> None, cause |-> 0,
              decision |-> insert.decision, hit |-> None, run |-> insert.run,
              agent |-> insert.agent, provider |-> insert.provider]
    IN  IF insert.two THEN {e, [e EXCEPT !.id = @ + 1]} ELSE {e}

ConsoleNext ==
    \/ \E q \in Queries : NextPage(q)
    \/ \E insert \in Inserts : RegisterAgents(Fresh(insert))
    \/ \E batch \in pending : InsertEvents(batch)
    \/ \E a \in Agents, p \in Providers : UpsertAgent([id |-> a, provider |-> p])
    \/ \E a \in Agents : DeleteAgent(a)
    \/ \E r \in Runs : DeleteTrajectory(r)
    \/ Tick

-----------------------------------------------------------------------------
(***************************************************************************)
(* Properties.                                                             *)
(***************************************************************************)
\* A walk during which nothing was written and no time passed shows the list:
\* each match once, in order, whatever page size was asked for (query.rs:27,
\* :45, page.rs:31); and what AnalyzeAgents counts is what a roster so walked
\* shows.
QuietWalkIsTheList ==
    walk.state = "done" /\ walk.quiet =>
        /\ walk.got = Listed(walk.q)
        /\ walk.q.over = "agents" => Tally(walk.got) = AnalyzeAgents(walk.q)

KeepsPlaces(q) ==
    \/ q.over = "events"
    \/ q.over = "runs" /\ q.order = "" /\ q.status = None /\ q.decision = None
    \/ q.over = "agents" /\ q.order = "display_name" /\ q.provider = None

\* While runs only start and grow, a walk in the default order of runs, over a
\* run's events or over the agents by name misses nothing that was there when
\* it began: new entries push others onto later pages, never onto earlier ones.
GrowingWalkMissesNothing ==
    walk.state = "done" /\ walk.steady /\ KeepsPlaces(walk.q) =>
        walk.start \subseteq ToSet(Ids(walk.got))

\* An agent with events is on the roster, unless it was deleted while an event
\* of its own was between the agent's registration and its row
\* (trajectory.rs:66, agent.rs:52).
ActorsAreListed ==
    {e.agent : e \in rows} \subseteq ToSet(Ids(agents)) \cup raced

\* A request is refused or asks for no less than it says: every clause it gives
\* constrains the list, unless a later one is for the same key, and what it
\* leaves out does not; an order that is not understood never refuses it
\* (query.rs:10-13).
FilterIsHonoured(over, filter, words, agentIds, statuses) ==
    LET parsed == ParseFilter(over, filter, agentIds, statuses)
        order == ParseOrder(over, words)
    IN  /\ parsed.ok =>
            /\ DOMAIN parsed.fields = {filter[i][1] : i \in DOMAIN filter}
            /\ \A i \in DOMAIN filter :
                \/ parsed.fields[filter[i][1]] = filter[i][2]
                \/ \E j \in DOMAIN filter : j > i /\ filter[j][1] = filter[i][1]
        /\ words = <<"desc">> \/ words = <<"asc">> \/ words = << >> => order.descending

\* A list of runs shows of each what the page of the run shows, unless the
\* newest row does not decode, and then an older one rather than nothing; with
\* a clock that moves, both are what was written last and not deleted since,
\* however often the events were scanned; and so is the scan of each event
\* (scan.rs:7-15, :250-260).
ScansAreTheLast(history, runs) ==
    LET table == ScanTable(history)
        Alive(i) == \A j \in DOMAIN history :
            j > i => ~(history[j].kind = "delete" /\ history[j].run = history[i].run)
        Standing(kind, run) ==
            {i \in DOMAIN history : /\ history[i].kind = kind /\ history[i].run = run /\ Alive(i)}
        Value(s) == IF s = {} THEN {} ELSE Decoded(history[Max(s)])
        moves == \A i, j \in DOMAIN history :
            i < j /\ "delete" \notin {history[i].kind, history[j].kind}
                => history[i].at < history[j].at
    IN  \A r \in runs :
        LET page == TranscriptScans(table, r)
            list == LatestTranscriptScans(table, r)
            events == EventScans(table, r)
        IN  /\ page.digest \in {list.digest, {}} /\ page.scan \in {list.scan, {}}
            /\ moves => /\ page.digest = Value(Standing("digest", r))
                        /\ page.scan = Value(Standing("scan", r))
            /\ \A e \in {w.event : w \in {v \in ToSet(history) : v.kind # "delete"}} :
                LET of == {i \in Standing("event", r) : history[i].event = e}
                IN  Value(of) = IF e \in DOMAIN events THEN {events[e]} ELSE {}
=============================================================================
