-------------------------------- MODULE Feed --------------------------------
(***************************************************************************)
(* The run feed, from the ledger to the terminal: the roster tail of the   *)
(* Turso store (stream.rs), the console calls that list runs, read agents  *)
(* and build activity strips, and the terminal's event loop, which runs    *)
(* each call as a task and takes their answers from one channel (events.rs,*)
(* state.rs).  A run is how many rows it has and how far its stamps reach; *)
(* its strip is the rows that it was built from.                           *)
(*                                                                         *)
(* A list is one read here, and a page holds every run.                    *)
(***************************************************************************)
EXTENDS Naturals, Sequences, FiniteSets, TLC

LOCAL INSTANCE SequencesExt

CONSTANTS
    Runs, Agents,
    Owner,     \* the agent of each run
    MaxWrites,     \* how many times the ledger changes
    MaxTroubles    \* how many calls fail or feeds are reloaded

ASSUME OwnerAssumption == Owner \in [Runs -> Agents]

VARIABLES
    store,     \* per run: [count, shown, last]; count 0: no rows
    agents,    \* agents with a row in agents
    late,      \* runs with a row stamped no later than one before it
    tail,      \* the roster tail: [pc, prints, seen, out]
    task,      \* feed_task
    inbox,     \* the channel of loaded messages
    fetches,   \* agent roster reads in flight: the generation of each
    strips,    \* the strip request in flight: [busy, gen, asked, got]
    app,       \* the screen's state
    gen,       \* feed_generation
    used       \* how much of each bound is spent
server == <<store, agents, late>>
vars == <<server, tail, task, inbox, fetches, strips, app, gen, used>>

None == [r \in {} |-> 0]
NoRows == [count |-> 0, shown |-> 0, last |-> 0]
Live(r) == store[r].count > 0
Bounds == [writes |-> MaxWrites, troubles |-> MaxTroubles]
Spend(what) ==
    /\ used[what] < Bounds[what]
    /\ used' = [used EXCEPT ![what] = @ + 1]

Over(f, g) == [k \in DOMAIN f \cup DOMAIN g |-> IF k \in DOMAIN f THEN f[k] ELSE g[k]]
With(f, key, value) == Over([k \in {key} |-> value], f)
Only(f, keys) == [k \in DOMAIN f \cap keys |-> f[k]]

TailOff == [pc |-> "off", prints |-> None, seen |-> None, out |-> << >>]
Idle == [busy |-> FALSE, gen |-> 0, asked |-> {}, got |-> None]

\* App::new, and EventLoop::run before its loop.
Init ==
    /\ store = [r \in Runs |-> NoRows] /\ agents = {} /\ late = {}
    /\ tail = TailOff /\ task = "listing" /\ inbox = << >>
    /\ fetches = << >> /\ strips = Idle
    /\ app = [rows |-> None, load |-> "Loading", strips |-> None,
              pending |-> None, failed |-> FALSE, known |-> {}, asked |-> {}]
    /\ gen = 1
    /\ used = [b \in DOMAIN Bounds |-> 0]

-----------------------------------------------------------------------------
(***************************************************************************)
(* The ledger.  Verdicts and scans are rows that a run's count leaves out. *)
(***************************************************************************)

InsertEvent(r, shown, newer) ==
    /\ Spend("writes")
    /\ store' = [store EXCEPT ![r] =
                    [count |-> @.count + 1,
                     shown |-> IF shown THEN @.shown + 1 ELSE @.shown,
                     last |-> IF newer \/ @.count = 0 THEN @.last + 1 ELSE @.last]]
    /\ late' = IF newer \/ store[r].count = 0 THEN late ELSE late \cup {r}
    /\ agents' = agents \cup {Owner[r]}
    /\ UNCHANGED <<tail, task, inbox, fetches, strips, app, gen>>

\* delete_agent: every run of the agent, and the agent, at once.  The clock
\* goes on: a run that comes back is stamped later than it was.
DeleteAgent(a) ==
    /\ Spend("writes")
    /\ \E r \in Runs : Owner[r] = a /\ Live(r)
    /\ store' = [r \in Runs |-> IF Owner[r] = a
                                THEN [NoRows EXCEPT !.last = store[r].last]
                                ELSE store[r]]
    /\ agents' = agents \ {a}
    /\ UNCHANGED <<late, tail, task, inbox, fetches, strips, app, gen>>

-----------------------------------------------------------------------------
(***************************************************************************)
(* spawn_trajectory_stream: fingerprints first, then each changed run.     *)
(***************************************************************************)
\* Mutant: a change is a later stamp only.
PrintOfStamp(r) == <<store[r].last>>

Fingerprint(r) == <<store[r].count, store[r].last>>

Changed(r) == ~(r \in DOMAIN tail.seen /\ tail.seen[r] = Fingerprint(r))

ReadFingerprints ==
    /\ tail.pc = "poll"
    /\ \E r \in Runs : Live(r) /\ Changed(r)
    /\ tail' = [tail EXCEPT
                    !.pc = "rollup",
                    !.prints = [r \in {q \in Runs : Live(q) /\ Changed(q)} |->
                                    Fingerprint(r)]]
    /\ UNCHANGED <<server, task, inbox, fetches, strips, app, gen, used>>

Rollup(r) ==
    /\ tail.pc = "rollup" /\ r \in DOMAIN tail.prints
    /\ tail' = [tail EXCEPT
                    !.seen = With(@, r, tail.prints[r]),
                    !.prints = Only(@, DOMAIN @ \ {r}),
                    !.out = IF Live(r) THEN Append(@, <<r, store[r]>>) ELSE @,
                    !.pc = IF DOMAIN tail.prints = {r} THEN "send" ELSE @]
    /\ UNCHANGED <<server, task, inbox, fetches, strips, app, gen, used>>

\* The rows of a pass are sent oldest change first, and the client's task
\* forwards each as it comes.
Send ==
    /\ tail.pc = "send"
    /\ IF tail.out = << >>
       THEN tail' = [tail EXCEPT !.pc = "poll"] /\ UNCHANGED inbox
       ELSE \E i \in DOMAIN tail.out :
            /\ \A j \in DOMAIN tail.out :
                    tail.out[i][2].last <= tail.out[j][2].last
            /\ inbox' = Append(inbox, [kind |-> "update", gen |-> gen,
                                       row |-> tail.out[i]])
            /\ tail' = [tail EXCEPT !.out = RemoveAt(@, i)]
    /\ UNCHANGED <<server, task, fetches, strips, app, gen, used>>

-----------------------------------------------------------------------------
(***************************************************************************)
(* load_trajectories: the task that lists runs, then follows the stream.   *)
(***************************************************************************)
Rows == [r \in {q \in Runs : Live(q)} |-> store[r]]
Says(message) == inbox' = Append(inbox, message)

ListReplies ==
    /\ task = "listing"
    /\ Says([kind |-> "list", gen |-> gen, ok |-> TRUE, rows |-> Rows])
    /\ task' = "opening"
    /\ UNCHANGED <<server, tail, fetches, strips, app, gen, used>>

ListFails ==
    /\ task = "listing"
    /\ Spend("troubles")
    /\ Says([kind |-> "list", gen |-> gen, ok |-> FALSE, rows |-> None])
    /\ task' = "ended"
    /\ UNCHANGED <<server, tail, fetches, strips, app, gen>>

StreamOpens ==
    /\ task = "opening"
    /\ Says([kind |-> "live", gen |-> gen])
    /\ task' = "streaming"
    /\ tail' = [TailOff EXCEPT !.pc = "poll"]
    /\ UNCHANGED <<server, fetches, strips, app, gen, used>>

\* The stream cannot be opened, or ends: a failed poll, a lost connection.
StreamEnds ==
    /\ task \in {"opening", "streaming"}
    /\ Spend("troubles")
    /\ Says([kind |-> "ended", gen |-> gen])
    /\ task' = "ended"
    /\ tail' = TailOff
    /\ UNCHANGED <<server, fetches, strips, app, gen>>

-----------------------------------------------------------------------------
(***************************************************************************)
(* Calls in flight.  A strip is built from what its run holds when the     *)
(* console comes to it; a run that is gone has none.                       *)
(***************************************************************************)
AgentsReply(i) ==
    /\ Says([kind |-> "agents", gen |-> fetches[i], got |-> agents])
    /\ fetches' = RemoveAt(fetches, i)
    /\ UNCHANGED <<server, tail, task, strips, app, gen, used>>

AgentsFail(i) ==
    /\ Spend("troubles")
    /\ fetches' = RemoveAt(fetches, i)
    /\ UNCHANGED <<server, tail, task, inbox, strips, app, gen>>

BuildStrip(r) ==
    /\ strips.busy /\ r \in strips.asked
    /\ strips' = [strips EXCEPT
                    !.asked = @ \ {r},
                    !.got = IF Live(r) THEN With(@, r, store[r]) ELSE @]
    /\ UNCHANGED <<server, tail, task, inbox, fetches, app, gen, used>>

StripsReply(ok) ==
    /\ strips.busy /\ strips.gen > 0 /\ strips.asked = {}
    /\ IF ok THEN UNCHANGED used ELSE Spend("troubles")
    /\ Says([kind |-> "strips", gen |-> strips.gen, ok |-> ok, rows |-> strips.got])
    /\ strips' = [strips EXCEPT !.gen = 0]
    /\ UNCHANGED <<server, tail, task, fetches, app, gen>>

-----------------------------------------------------------------------------
(***************************************************************************)
(* The event loop: one message at a time.                                  *)
(***************************************************************************)
Revision(row) == <<row.shown, row.last>>

Stale(a) == {r \in DOMAIN a.rows :
                r \notin DOMAIN a.strips
                \/ a.strips[r].revision # Revision(a.rows[r])}

\* load_sparklines, with the batch in flight afterwards.
LoadStrips(a, flight) ==
    IF flight.busy THEN app' = a /\ strips' = flight
    ELSE /\ app' = [a EXCEPT !.pending = [r \in Stale(a) |-> Revision(a.rows[r])]]
         /\ strips' = IF Stale(a) = {} THEN Idle
                      ELSE [busy |-> TRUE, gen |-> gen, asked |-> Stale(a),
                            got |-> None]

\* needs_agent_roster.
Missing(a) == {Owner[r] : r \in DOMAIN a.rows} \ (a.known \cup a.asked)

\* A page replaces the rows, and keeps the strips of the runs still on it.
set_trajectories(a, rows) ==
    [a EXCEPT !.rows = rows, !.load = "Ready", !.strips = Only(@, DOMAIN rows)]

upsert_trajectory(a, name, row) == [a EXCEPT !.rows = With(@, name, row)]

set_agents(a, roster) == [a EXCEPT !.known = roster]

TakeList(m) ==
    IF m.ok
    THEN /\ LoadStrips([set_trajectories(app, m.rows) EXCEPT !.asked = {}], strips)
         /\ fetches' = Append(fetches, gen)
         /\ UNCHANGED task
    ELSE /\ app' = [app EXCEPT !.load = "Failed"]
         /\ task' = "none"
         /\ UNCHANGED <<fetches, strips>>

TakeUpdate(m) ==
    LET a == upsert_trajectory(app, m.row[1], m.row[2])
    IN  /\ LoadStrips([a EXCEPT !.asked = @ \cup Missing(a)], strips)
        /\ fetches' = IF Missing(a) = {} THEN fetches ELSE Append(fetches, gen)
        /\ UNCHANGED task

TakeEnded(m) ==
    /\ app' = [app EXCEPT !.load = IF @ = "Live" THEN "Ready" ELSE @]
    /\ task' = "none"
    /\ UNCHANGED <<fetches, strips>>

\* Mutant: the strip is stamped with the revision it arrives at.
StampAtArrival(r) ==
    IF r \in DOMAIN app.rows THEN Revision(app.rows[r]) ELSE app.pending[r]

Stamp(r) == app.pending[r]

\* set_sparklines; a batch of an older feed only lets the next one go.
TakeStrips(m) ==
    LET asked == DOMAIN m.rows \cap DOMAIN app.pending
        fresh == [r \in asked |-> [revision |-> Stamp(r), of |-> m.rows[r]]]
        ready == [app EXCEPT !.strips = Over(fresh, @), !.pending = None,
                             !.failed = FALSE]
    IN  /\ IF m.gen # gen THEN LoadStrips(app, Idle)
           ELSE IF m.ok THEN LoadStrips(ready, Idle)
           ELSE app' = [app EXCEPT !.failed = TRUE] /\ strips' = Idle
        /\ UNCHANGED <<fetches, task>>

TakeOther(m) ==
    /\ app' = IF m.kind = "live" THEN [app EXCEPT !.load = "Live"]
              ELSE set_agents(app, m.got)
    /\ UNCHANGED <<fetches, strips, task>>

Current(m) == m.gen = gen

OnLoaded ==
    /\ inbox # << >>
    /\ LET m == Head(inbox)
       IN  IF m.kind = "strips" THEN TakeStrips(m)
           ELSE IF ~Current(m) THEN UNCHANGED <<app, fetches, strips, task>>
           ELSE \/ m.kind = "list" /\ TakeList(m)
                \/ m.kind = "update" /\ TakeUpdate(m)
                \/ m.kind = "ended" /\ TakeEnded(m)
                \/ m.kind \in {"live", "agents"} /\ TakeOther(m)
    /\ inbox' = Tail(inbox)
    /\ UNCHANGED <<server, tail, gen, used>>

\* r: stop_feed aborts the task, and what it queued is of an older feed.
Reload ==
    /\ Spend("troubles")
    /\ app' = [app EXCEPT !.load = "Loading"]
    /\ gen' = gen + (IF task = "none" THEN 1 ELSE 2)
    /\ task' = "listing"
    /\ tail' = TailOff
    /\ UNCHANGED <<server, inbox, fetches, strips>>

-----------------------------------------------------------------------------
Ledger ==
    \/ \E r \in Runs, shown, newer \in BOOLEAN : InsertEvent(r, shown, newer)
    \/ \E a \in Agents : DeleteAgent(a)
RosterTail == ReadFingerprints \/ Send \/ \E r \in Runs : Rollup(r)
Calls ==
    \/ ListReplies \/ ListFails \/ StreamOpens \/ StreamEnds
    \/ \E i \in DOMAIN fetches : AgentsReply(i) \/ AgentsFail(i)
    \/ \E r \in Runs : BuildStrip(r)
    \/ \E ok \in BOOLEAN : StripsReply(ok)

Next == Ledger \/ RosterTail \/ Calls \/ OnLoaded \/ Reload

Spec == Init /\ [][Next]_vars

\* One agent owns every run, and runs are interchangeable, where TLC checks.
OneOwner == [r \in Runs |-> CHOOSE a \in Agents : TRUE]
RunSymmetry == Permutations(Runs)

-----------------------------------------------------------------------------
Row == [count : Nat, shown : Nat, last : Nat]
Mark == Nat \X Nat   \* a fingerprint, or a revision
Partial(f, S) == DOMAIN f \subseteq Runs /\ f \in [DOMAIN f -> S]

MessageOK(m) ==
    /\ m.gen \in Nat
    /\ \/ m.kind = "update" /\ m.row \in Runs \X Row
       \/ m.kind \in {"list", "strips"} /\ m.ok \in BOOLEAN /\ Partial(m.rows, Row)
       \/ m.kind = "agents" /\ m.got \subseteq Agents
       \/ m.kind \in {"live", "ended"}

TypeOK ==
    /\ store \in [Runs -> Row] /\ agents \subseteq Agents /\ late \subseteq Runs
    /\ tail \in [pc : {"off", "poll", "rollup", "send"}, prints : {tail.prints},
                 seen : {tail.seen}, out : Seq(Runs \X Row)]
    /\ Partial(tail.prints, Mark) /\ Partial(tail.seen, Mark)
    /\ task \in {"listing", "opening", "streaming", "ended", "none"}
    /\ inbox \in Seq(ToSet(inbox)) /\ \A m \in ToSet(inbox) : MessageOK(m)
    /\ fetches \in Seq(Nat)
    /\ strips \in [busy : BOOLEAN, gen : Nat, asked : SUBSET Runs, got : {strips.got}]
    /\ Partial(strips.got, Row)
    /\ app \in [rows : {app.rows}, load : {"Loading", "Ready", "Live", "Failed"},
                strips : {app.strips}, pending : {app.pending}, failed : BOOLEAN,
                known : SUBSET Agents, asked : SUBSET Agents]
    /\ Partial(app.rows, Row) /\ Partial(app.pending, Mark)
    /\ Partial(app.strips, [revision : Mark, of : Row])
    /\ gen \in Nat \ {0}
    /\ used \in [DOMAIN Bounds -> Nat]

\* Everything that was sent has arrived, and the tail finds nothing new.
CaughtUp ==
    /\ task = "streaming" /\ tail.pc = "poll" /\ inbox = << >>
    /\ \A r \in Runs : Live(r) => ~Changed(r)

\* A feed that has caught up shows every run as it is: a row inserted after the
\* fingerprints were read and before the rollup, or stamped before rows that were
\* already sent, is in the row shown or in a later pass (stream.rs 135-154).
FeedIsCurrent ==
    CaughtUp => \A r \in Runs : Live(r) =>
        /\ r \in DOMAIN app.rows /\ app.rows[r] = store[r]
        /\ ~strips.busy /\ ~app.failed =>
                r \in DOMAIN app.strips /\ app.strips[r].revision = Revision(app.rows[r])

\* A strip that the screen takes for current was built from the rows that the run
\* is shown with, whatever came in while it was built, unless a row came in with
\* an earlier stamp (state.rs 414-448).
StripsAreCurrent ==
    \A r \in DOMAIN app.strips \cap DOMAIN app.rows :
        /\ app.rows[r] = store[r] /\ r \notin late
        /\ app.strips[r].revision = Revision(app.rows[r])
        => app.strips[r].of = store[r]
=============================================================================
