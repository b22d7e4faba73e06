------------------------------- MODULE Scans -------------------------------
(***************************************************************************)
(* Background scanning of one agent's trajectory: the RPC that persists an *)
(* adjudicated event and dispatches its scans (harness rpc.rs and scan.rs),*)
(* the detached tasks that ask the model and write each result twice, and  *)
(* the deletes of the Turso store they race with (delete_trajectory,       *)
(* delete_agent).                                                          *)
(*                                                                         *)
(* A store call is one step for each statement it commits: insert_event    *)
(* registers the agent and then inserts the row; delete_trajectory deletes *)
(* from four tables in four statements; delete_agent is one transaction.   *)
(* A call that carries several events handles one after the other; here    *)
(* each event has a call of its own, which allows every such order.        *)
(***************************************************************************)
EXTENDS Integers, FiniteSets, Sequences, TLC

CONSTANTS
    Events,      \* events adjudicated for the trajectory
    Kinds,       \* the kinds of event they may be
    MaxPermits,  \* DEFAULT_MAX_CONCURRENT_SCANS
    MaxDeletes,  \* bound: deletes in one behaviour
    MaxFaults    \* bound: store errors, dropped calls and crashes

AllKinds == {"Step", "TurnEnd", "Terminal", "ScannerOutput"}

ASSUME KindsAssumption == Kinds \subseteq AllKinds
ASSUME BoundsAssumption ==
    MaxPermits \in Nat \ {0} /\ MaxDeletes \in Nat /\ MaxFaults \in Nat

VARIABLES
    kind,      \* per event, what it is
    rpc,       \* per event, where its adjudicates call stands
    step,      \* per task, where it stands
    product,   \* per task, the result it is working on
    saw,       \* per task, the events it loaded
    permits,   \* free permits of the semaphore
    agent,     \* whether the agent has a row in agents
    ledger,    \* the trajectory's rows in trajectory_events
    messages,  \* source events with a row in event_scan_results
    digests,   \* sources of transcript_digest_results, oldest first
    scans,     \* source events with a row in transcript_scan_results
    deleter,   \* the next statement of a running delete_trajectory
    deletes, faults,
    swept      \* history: results that a delete took from their table

rpcVars == <<kind, rpc>>
taskVars == <<step, product, saw, permits>>
tableVars == <<messages, digests, scans>>
boundVars == <<deletes, faults>>
vars == <<rpcVars, taskVars, agent, ledger, tableVars, deleter, boundVars,
          swept>>

\* A task is one spawn_scan: at most two are spawned for an event.
Tasks == Events \X {"message", "transcript"}
Source(k) == k[1]

Running == {"load", "ask", "put", "register", "insert"}

Fault ==
    /\ faults < MaxFaults
    /\ faults' = faults + 1

Init ==
    /\ kind = [e \in Events |-> "Step"]
    /\ rpc = [e \in Events |-> "idle"]
    /\ step = [k \in Tasks |-> "none"]
    /\ product = [k \in Tasks |-> "message"]
    /\ saw = [k \in Tasks |-> {}]
    /\ permits = MaxPermits
    /\ agent = FALSE
    /\ ledger = {}
    /\ messages = {}
    /\ digests = << >>
    /\ scans = {}
    /\ deleter = "idle"
    /\ deletes = 0
    /\ faults = 0
    /\ swept = {}

-----------------------------------------------------------------------------
(***************************************************************************)
(* The RPC: the engine persists the event, then its scans are dispatched.  *)
(***************************************************************************)
RpcGoto(e, point) == rpc' = [rpc EXCEPT ![e] = point]

Adjudicate(e) ==
    /\ rpc[e] = "idle"
    /\ \E k \in Kinds : kind' = [kind EXCEPT ![e] = k]
    /\ RpcGoto(e, "register")
    /\ UNCHANGED <<taskVars, agent, ledger, tableVars, deleter, boundVars,
                   swept>>

RegisterAgent(e) ==
    /\ rpc[e] = "register"
    /\ agent' = TRUE
    /\ RpcGoto(e, "insert")
    /\ UNCHANGED <<kind, taskVars, ledger, tableVars, deleter, boundVars,
                   swept>>

InsertEvent(e) ==
    /\ rpc[e] = "insert"
    /\ ledger' = ledger \cup {[source |-> e, what |-> "event"]}
    /\ RpcGoto(e, "transcript")
    /\ UNCHANGED <<kind, taskVars, agent, tableVars, deleter, boundVars,
                   swept>>

\* The call fails, or its caller hangs up while it waits for the engine.
RpcEnds(e) ==
    /\ Fault
    /\ rpc[e] \in {"register", "insert", "transcript"}
    /\ RpcGoto(e, "done")
    /\ UNCHANGED <<kind, taskVars, agent, ledger, tableVars, deleter, deletes,
                   swept>>

\* spawn_scan: the scan is skipped when every permit is in use.
SpawnWaits(k, first, what) ==   \* a mutant of Spawn
    /\ permits > 0
    /\ permits' = permits - 1
    /\ step' = [step EXCEPT ![k] = first]
    /\ product' = [product EXCEPT ![k] = what]

Spawn(k, first, what) ==
    \/ /\ permits > 0
       /\ permits' = permits - 1
       /\ step' = [step EXCEPT ![k] = first]
       /\ product' = [product EXCEPT ![k] = what]
    \/ permits = 0 /\ UNCHANGED <<permits, step, product>>

Skipped(e) == kind[e] = "ScannerOutput"

ReadyUnpersisted(e) == rpc[e] \in {"insert", "transcript"}   \* a mutant
Ready(e) == rpc[e] = "transcript"   \* the engine has returned its verdict

DispatchTranscript(e) ==
    /\ Ready(e)
    /\ \/ /\ Skipped(e)
          /\ RpcGoto(e, "done")
          /\ UNCHANGED <<permits, step, product>>
       \/ /\ ~Skipped(e)
          /\ kind[e] \notin {"TurnEnd", "Terminal"}
          /\ RpcGoto(e, "message")
          /\ UNCHANGED <<permits, step, product>>
       \/ /\ kind[e] \in {"TurnEnd", "Terminal"}
          /\ Spawn(<<e, "transcript">>, "load", "digest")
          /\ RpcGoto(e, "message")
    /\ UNCHANGED <<kind, saw, agent, ledger, tableVars, deleter, boundVars,
                   swept>>

DispatchMessage(e) ==
    /\ rpc[e] = "message"
    /\ Spawn(<<e, "message">>, "ask", "message")
    /\ RpcGoto(e, "done")
    /\ UNCHANGED <<kind, saw, agent, ledger, tableVars, deleter, boundVars,
                   swept>>

-----------------------------------------------------------------------------
(***************************************************************************)
(* A spawned task.  A terminal event's task goes on from the digest to the *)
(* behavioral scan whether or not the digest succeeded.                    *)
(***************************************************************************)
StepTo(k, s) ==
    /\ step' = [step EXCEPT ![k] = s]
    /\ UNCHANGED <<product, permits, saw>>

\* What a task holds goes out of scope with it.
Forget(k) ==
    /\ product' = [product EXCEPT ![k] = "message"]
    /\ saw' = [saw EXCEPT ![k] = {}]

FinishKeepingPermit(k) ==   \* a mutant of Finish
    /\ step' = [step EXCEPT ![k] = "done"]
    /\ Forget(k)
    /\ UNCHANGED permits

Finish(k) ==
    /\ step' = [step EXCEPT ![k] = "done"]
    /\ Forget(k)
    /\ permits' = permits + 1

ScanAfterEvery(k) == kind[Source(k)] = "Terminal"   \* a mutant of HasScanToo
HasScanToo(k) == product[k] = "digest" /\ kind[Source(k)] = "Terminal"

Advance(k) ==
    \/ /\ HasScanToo(k)
       /\ product' = [product EXCEPT ![k] = "scan"]
       /\ step' = [step EXCEPT ![k] = "ask"]
       /\ UNCHANGED <<permits, saw>>
    \/ ~HasScanToo(k) /\ Finish(k)

EventsIn(rows) == {e \in Events : [source |-> e, what |-> "event"] \in rows}

LoadTranscript(k) ==
    /\ step[k] = "load"
    /\ \/ ledger = {} /\ Finish(k)
       \/ /\ ledger # {}
          /\ saw' = [saw EXCEPT ![k] = EventsIn(ledger)]
          /\ step' = [step EXCEPT ![k] = "ask"]
          /\ UNCHANGED <<product, permits>>
    /\ UNCHANGED <<rpcVars, agent, ledger, tableVars, deleter, boundVars,
                   swept>>

LoadFails(k) ==
    /\ Fault
    /\ step[k] = "load"
    /\ Finish(k)
    /\ UNCHANGED <<rpcVars, agent, ledger, tableVars, deleter, deletes,
                   swept>>

\* The model answers, or the call fails or times out.
ModelAnswers(k) ==
    /\ step[k] = "ask"
    /\ StepTo(k, "put")
    /\ UNCHANGED <<rpcVars, agent, ledger, tableVars, deleter, boundVars,
                   swept>>

ModelFails(k) ==
    /\ step[k] = "ask"
    /\ Advance(k)
    /\ UNCHANGED <<rpcVars, agent, ledger, tableVars, deleter, boundVars,
                   swept>>

ResultOf(k) == [source |-> Source(k), what |-> product[k]]

\* The upserts are keyed by the source event, which is scanned once for each
\* product.
PutResult(k) ==
    /\ step[k] = "put"
    /\ \/ /\ product[k] = "message"
          /\ messages' = messages \cup {Source(k)}
          /\ UNCHANGED <<digests, scans>>
       \/ /\ product[k] = "digest"
          /\ digests' = Append(digests, Source(k))
          /\ UNCHANGED <<messages, scans>>
       \/ /\ product[k] = "scan"
          /\ scans' = scans \cup {Source(k)}
          /\ UNCHANGED <<messages, digests>>
    /\ StepTo(k, "register")
    /\ UNCHANGED <<rpcVars, agent, ledger, deleter, boundVars, swept>>

\* A result that was not stored gets no ledger record.
NotPersistedEmitted(k) == StepTo(k, "register")   \* a mutant
NotPersisted(k) == Advance(k)

PutFails(k) ==
    /\ Fault
    /\ step[k] = "put"
    /\ NotPersisted(k)
    /\ UNCHANGED <<rpcVars, agent, ledger, tableVars, deleter, deletes,
                   swept>>

\* emit_scanned: insert_event of the Scanned record.
RegisterForRecord(k) ==
    /\ step[k] = "register"
    /\ agent' = TRUE
    /\ StepTo(k, "insert")
    /\ UNCHANGED <<rpcVars, ledger, tableVars, deleter, boundVars, swept>>

InsertRecord(k) ==
    /\ step[k] = "insert"
    /\ ledger' = ledger \cup {ResultOf(k)}
    /\ Advance(k)
    /\ UNCHANGED <<rpcVars, agent, tableVars, deleter, boundVars, swept>>

EmitFails(k) ==
    /\ Fault
    /\ step[k] \in {"register", "insert"}
    /\ Advance(k)
    /\ UNCHANGED <<rpcVars, agent, ledger, tableVars, deleter, deletes,
                   swept>>

TaskStep(k) ==
    \/ LoadTranscript(k) \/ LoadFails(k)
    \/ ModelAnswers(k) \/ ModelFails(k)
    \/ PutResult(k) \/ PutFails(k)
    \/ RegisterForRecord(k) \/ InsertRecord(k) \/ EmitFails(k)

-----------------------------------------------------------------------------
(***************************************************************************)
(* Deletes, asked for by the console.                                      *)
(***************************************************************************)
Products == {"message", "digest", "scan"}
Results == [source : Events, what : Products]
InTable(r) ==
    \/ r.what = "message" /\ r.source \in messages
    \/ r.what = "digest" /\ \E i \in DOMAIN digests : digests[i] = r.source
    \/ r.what = "scan" /\ r.source \in scans

\* The results that a delete takes from their table are remembered.
Sweep == swept' = swept \cup {r \in Results : InTable(r) /\ ~InTable(r)'}

DeleteEvents ==
    /\ deleter = "idle"
    /\ deletes < MaxDeletes
    /\ deletes' = deletes + 1
    /\ ledger' = {}
    /\ deleter' = "messages"
    /\ UNCHANGED <<rpcVars, taskVars, agent, tableVars, faults, swept>>

DeleteScans ==
    /\ \/ /\ deleter = "messages"
          /\ messages' = {}
          /\ deleter' = "digests"
          /\ UNCHANGED <<digests, scans>>
       \/ /\ deleter = "digests"
          /\ digests' = << >>
          /\ deleter' = "scans"
          /\ UNCHANGED <<messages, scans>>
       \/ /\ deleter = "scans"
          /\ scans' = {}
          /\ deleter' = "idle"
          /\ UNCHANGED <<messages, digests>>
    /\ Sweep
    /\ UNCHANGED <<rpcVars, taskVars, agent, ledger, boundVars>>

\* A later statement fails, or the caller hangs up between two.
DeleteEnds ==
    /\ Fault
    /\ deleter # "idle"
    /\ deleter' = "idle"
    /\ UNCHANGED <<rpcVars, taskVars, agent, ledger, tableVars, deletes, swept>>

DeleteAgent ==
    /\ deletes < MaxDeletes
    /\ deletes' = deletes + 1
    /\ agent' = FALSE
    /\ ledger' = {}
    /\ messages' = {}
    /\ digests' = << >>
    /\ scans' = {}
    /\ Sweep
    /\ UNCHANGED <<rpcVars, taskVars, deleter, faults>>

\* The process dies and is started again: tasks and calls are gone, the
\* store is as it was.
Crash ==
    /\ Fault
    /\ rpc' = [e \in Events |-> IF rpc[e] = "idle" THEN "idle" ELSE "done"]
    /\ step' = [k \in Tasks |-> IF step[k] = "none" THEN "none" ELSE "done"]
    /\ permits' = MaxPermits
    /\ deleter' = "idle"
    /\ product' = [k \in Tasks |-> "message"]
    /\ saw' = [k \in Tasks |-> {}]
    /\ UNCHANGED <<kind, agent, ledger, tableVars, deletes, swept>>

-----------------------------------------------------------------------------
RpcStep(e) == \/ RegisterAgent(e) \/ InsertEvent(e) \/ RpcEnds(e)
              \/ DispatchTranscript(e) \/ DispatchMessage(e)

Next ==
    \/ \E e \in Events : Adjudicate(e) \/ RpcStep(e)
    \/ \E k \in Tasks : TaskStep(k)
    \/ DeleteEvents \/ DeleteScans \/ DeleteEnds \/ DeleteAgent
    \/ Crash

Spec == Init /\ [][Next]_vars

\* The runtime polls the calls and the tasks that can go on, and a model call
\* is under a timeout.  FairSpec assumes neither of the tasks: their fairness
\* is a premise of ScansEnd alone.
RpcFairness == \A e \in Events : WF_vars(RpcStep(e))
TaskFairness == \A k \in Tasks : WF_vars(TaskStep(k))

FairSpec == Spec /\ RpcFairness

\* For TLC: events are interchangeable, as Init and Next name none.
EventSymmetry == Permutations(Events)

-----------------------------------------------------------------------------
(***************************************************************************)
(* Properties.                                                             *)
(***************************************************************************)

\* What each variable holds.
RpcPoints == {"idle", "register", "insert", "transcript", "message", "done"}
TypeOK ==
    /\ kind \in [Events -> AllKinds]
    /\ rpc \in [Events -> RpcPoints]
    /\ step \in [Tasks -> Running \cup {"none", "done"}]
    /\ product \in [Tasks -> Products]
    /\ saw \in [Tasks -> SUBSET Events]
    /\ permits \in Nat
    /\ agent \in BOOLEAN
    /\ ledger \subseteq [source : Events, what : Products \cup {"event"}]
    /\ messages \subseteq Events
    /\ digests \in Seq(Events)
    /\ scans \subseteq Events
    /\ deleter \in {"idle", "messages", "digests", "scans"}
    /\ deletes \in Nat /\ faults \in Nat
    /\ swept \subseteq Results

\* Every permit is free or held by a running task: however a task ends, by an
\* early return, an error or a crash, its permit comes back.
PermitsConserved ==
    permits + Cardinality({k \in Tasks : step[k] \in Running}) = MaxPermits

\* A Scanned record in the ledger is about a result that is in its table, or
\* that a delete took from there: the record is written after the result, and
\* a delete may come between the two statements, so the ledger may announce a
\* result that is gone, but never one that was not stored.  Nor is a result
\* stored about an event that the ledger does not hold, unless a delete took
\* the event out.
RecordWasStored ==
    /\ \A r \in ledger : r.what # "event" => InTable(r) \/ r \in swept
    /\ deletes = 0 => \A r \in Results : InTable(r) => r.source \in EventsIn(ledger)

\* The transcript that an event's task digests contains that event, unless a
\* delete took it out: scans are dispatched after the event is persisted.
TranscriptCoversTrigger ==
    deletes = 0 => \A k \in Tasks : saw[k] # {} => Source(k) \in saw[k]

\* An adjudicates call ends whatever the scanner does: a model that never
\* answers, or a semaphore with no permit left, does not hold it up.
ScansNeverHoldRpc == \A e \in Events : rpc[e] = "transcript" ~> rpc[e] = "done"

\* Every spawned scan ends, if its task is polled and its model call ends.
ScansEnd ==
    TaskFairness => \A k \in Tasks : step[k] \in Running ~> step[k] = "done"
=============================================================================
