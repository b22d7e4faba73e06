------------------------------- MODULE Engine -------------------------------
(***************************************************************************)
(* The Cedar policy engine of the harness: CedarPolicyHarness::            *)
(* adjudicate_event, and the request building, entity store and ledger     *)
(* writes it drives.                                                       *)
(*                                                                         *)
(* Hooks of one agent session run concurrently, so several adjudications   *)
(* are in flight at a time and share the entity store.  Each element of    *)
(* Events is one submitted event; pc[e] names the await point at which its *)
(* handler stands.  A handler is split wherever the code awaits a store, a *)
(* model or a file, and may be dropped at any of those points (the client  *)
(* hung up, or the process died).                                          *)
(*                                                                         *)
(* A Trajectory row is absent until build_request or a Started event       *)
(* creates it; both create Trajectory::new, so an absent row is identified *)
(* with a fresh one here, and rows are never deleted while events arrive.  *)
(***************************************************************************)
EXTENDS Integers, FiniteSets, TLC

CONSTANTS
    Events,    \* event ids; every submitted event has a fresh one
    Trajs,     \* trajectory ids: the host's session ids
    Files,     \* file paths
    Kinds,     \* the kinds of event the hooks submit
    Labels,    \* sensitivity levels that submitted content can have
    NoEvent,   \* the update lock's holder when it is free
    MaxFaults  \* bound: errors and dropped handlers in one behaviour

(***************************************************************************)
(* Event kinds.  "Lifecycle" stands for every control event but Started;   *)
(* "Output" for shell, web-fetch and tool output; "FileWrite" for Write    *)
(* and Edit; "Unsupported" for thoughts and state snapshots.               *)
(***************************************************************************)
ControlKinds == {"Started", "Lifecycle"}
FileOpKinds == {"FileRead", "FileWrite", "FileDelete"}
EgressKinds == {"ShellCommand", "WebFetch"}
FileBodyKinds == FileOpKinds \cup {"FileResult"}
AllKinds == ControlKinds \cup FileBodyKinds \cup EgressKinds
              \cup {"Prompt", "ToolCall", "Output", "Unsupported"}

Public == 0
Internal == 1
Confidential == 2
HighlyConfidential == 3
Levels == Public..HighlyConfidential

ASSUME KindsAssumption == Kinds \subseteq AllKinds
ASSUME LabelsAssumption == Labels \subseteq Levels
ASSUME FaultsAssumption == MaxFaults \in Nat
ASSUME SetsAssumption == Trajs # {} /\ Files # {} /\ NoEvent \notin Events

Unlabelled == -1   \* the File has no entity yet
Decisions == {"Allow", "Deny", "Escalate"}
Trajectory == [steps : Nat, label : Levels]
FreshTrajectory == [steps |-> 0, label |-> Public]

VARIABLES
    pc,        \* where the handler of each event stands
    kind,      \* the event: its kind, ...
    traj,      \* ... the trajectory it belongs to, ...
    file,      \* ... and the path it names
    label,     \* the classification the handler obtained
    copy,      \* the Trajectory entity read inside update_entity
    outcome,   \* evaluate's result: a decision, "Error", or "none" yet
    reply,     \* what adjudicate returned to the RPC: the same, or "none"
    entity,    \* Trajectory entities in the store
    files,     \* File entity labels in the store
    lock,      \* holder of TrajectoryStore.update_lock
    faults,    \* errors and dropped handlers so far
    jsonl,     \* per event, its form in the JSONL ledger
    turso,     \* per event, its form in the Turso ledger
    jsonlV,    \* per event, the Adjudicated record in the JSONL ledger
    tursoV,    \* per event, the Adjudicated record in the Turso ledger
    \* History variables: read by properties, by no guard.
    marked,    \* per trajectory, the highest label marked since it started
    counted,   \* per trajectory, the steps counted since it started
    prior      \* per event, the label of its File just before its own upsert

reqVars == <<kind, traj, file>>
ledgerVars == <<jsonl, turso, jsonlV, tursoV>>
storeVars == <<entity, files, lock>>
ghostVars == <<marked, counted, prior>>
vars == <<pc, reqVars, label, copy, outcome, reply, storeVars, ledgerVars,
          faults, ghostVars>>

\* The points of an adjudication, in the order the code reaches them.
EvaluatePoints == {"count", "countPut", "classify", "putEntity", "mark",
                   "markPut", "putResult", "authorize"}
PersistPoints == {"jsonl", "turso", "reset", "reread", "jsonlV", "tursoV"}
LockedPoints == {"countPut", "markPut"}
InFlight == {"agent"} \cup EvaluatePoints \cup PersistPoints
Points == {"idle", "done", "dropped"} \cup InFlight

Goto(e, point) == pc' = [pc EXCEPT ![e] = point]

Fault ==
    /\ faults < MaxFaults
    /\ faults' = faults + 1

Answer(e, r) ==
    /\ Goto(e, "done")
    /\ reply' = [reply EXCEPT ![e] = r]

-----------------------------------------------------------------------------
Init ==
    /\ pc = [e \in Events |-> "idle"]
    /\ kind = [e \in Events |-> "Lifecycle"]
    /\ traj = [e \in Events |-> CHOOSE t \in Trajs : TRUE]
    /\ file = [e \in Events |-> CHOOSE f \in Files : TRUE]
    /\ label = [e \in Events |-> Public]
    /\ copy = [e \in Events |-> FreshTrajectory]
    /\ outcome = [e \in Events |-> "none"]
    /\ reply = [e \in Events |-> "none"]
    /\ entity = [t \in Trajs |-> FreshTrajectory]
    /\ files = [f \in Files |-> Unlabelled]
    /\ lock = NoEvent
    /\ faults = 0
    /\ jsonl = [e \in Events |-> "none"]
    /\ turso = [e \in Events |-> "none"]
    /\ jsonlV = [e \in Events |-> "none"]
    /\ tursoV = [e \in Events |-> "none"]
    /\ marked = [t \in Trajs |-> Public]
    /\ counted = [t \in Trajs |-> 0]
    /\ prior = [e \in Events |-> Unlabelled]

(***************************************************************************)
(* A hook submits an event.                                                *)
(***************************************************************************)
Submit(e) ==
    /\ pc[e] = "idle"
    /\ \E k \in Kinds, t \in Trajs, f \in Files :
          /\ kind' = [kind EXCEPT ![e] = k]
          /\ traj' = [traj EXCEPT ![e] = t]
          /\ file' = [file EXCEPT ![e] = f]
    /\ Goto(e, "agent")
    /\ UNCHANGED <<faults, label, copy, outcome, reply, storeVars,
                   ledgerVars, ghostVars>>

(***************************************************************************)
(* ensure_agent_entity, then the split between control events, which are   *)
(* persisted as they arrived and allowed, and events to evaluate.          *)
(***************************************************************************)
EnsureAgentEntity(e) ==
    /\ pc[e] = "agent"
    /\ \/ /\ kind[e] \in ControlKinds
          /\ outcome' = [outcome EXCEPT ![e] = "Allow"]
          /\ Goto(e, "jsonl")
       \/ /\ kind[e] \notin ControlKinds
          /\ Goto(e, "count")
          /\ UNCHANGED outcome
    /\ UNCHANGED <<faults, reqVars, label, copy, reply, storeVars,
                   ledgerVars, ghostVars>>

-----------------------------------------------------------------------------
(***************************************************************************)
(* build_request.  update_entity holds update_lock from before its read to *)
(* after its write; the read is joined to the acquisition, because nothing *)
(* the handler does lies between them.                                     *)
(***************************************************************************)
Forget(e) == copy' = [copy EXCEPT ![e] = FreshTrajectory]   \* out of scope

LockIgnored == TRUE   \* a mutant of LockFree
LockFree == lock = NoEvent

CountRead(e) ==
    /\ pc[e] = "count"
    /\ LockFree
    /\ lock' = e
    /\ copy' = [copy EXCEPT ![e] = entity[traj[e]]]
    /\ Goto(e, "countPut")
    /\ UNCHANGED <<faults, reqVars, label, outcome, reply, entity, files,
                   ledgerVars, ghostVars>>

\* An unsupported event is counted before the match on its type bails out.
CountWrite(e) ==
    /\ pc[e] = "countPut"
    /\ entity' = [entity EXCEPT ![traj[e]] =
                     [steps |-> copy[e].steps + 1, label |-> copy[e].label]]
    /\ counted' = [counted EXCEPT ![traj[e]] = counted[traj[e]] + 1]
    /\ Forget(e)
    /\ lock' = NoEvent
    /\ \/ /\ kind[e] = "Unsupported"
          /\ outcome' = [outcome EXCEPT ![e] = "Error"]
          /\ Goto(e, "jsonl")
       \/ /\ kind[e] # "Unsupported"
          /\ Goto(e, "classify")
          /\ UNCHANGED outcome
    /\ UNCHANGED <<faults, reqVars, label, reply, files, ledgerVars, marked,
                   prior>>

(***************************************************************************)
(* classify_label answers Public when the classifier is disabled, fails or *)
(* exceeds CLASSIFY_TIMEOUT, and the content's label otherwise.  Shell     *)
(* commands and web fetches do not raise the trajectory's label.           *)
(***************************************************************************)
ClassifyResults == Labels \cup {Public}

AfterClassify(e) ==
    IF kind[e] \in FileOpKinds \cup {"Prompt"} THEN "putEntity"
    ELSE IF kind[e] \in EgressKinds THEN "authorize"
    ELSE "mark"

Classify(e) ==
    /\ pc[e] = "classify"
    /\ \E l \in ClassifyResults : label' = [label EXCEPT ![e] = l]
    /\ Goto(e, AfterClassify(e))
    /\ UNCHANGED <<faults, reqVars, copy, outcome, reply, storeVars,
                   ledgerVars, ghostVars>>

\* The upsert of the Message of a prompt, or of the File a file operation
\* names.  Neither goes through update_entity.
PutEntity(e) ==
    /\ pc[e] = "putEntity"
    /\ \/ /\ kind[e] \in FileOpKinds
          /\ prior' = [prior EXCEPT ![e] = files[file[e]]]
          /\ files' = [files EXCEPT ![file[e]] = label[e]]
       \/ /\ kind[e] = "Prompt"
          /\ UNCHANGED <<files, prior>>
    /\ Goto(e, "mark")
    /\ UNCHANGED <<faults, reqVars, label, copy, outcome, reply, entity,
                   lock, ledgerVars, marked, counted>>

AfterMark(e) == IF kind[e] = "FileResult" THEN "putResult" ELSE "authorize"

RaisesUnlessEqual(e, row) == label[e] # row.label   \* a mutant of Raises
Raises(e, row) == label[e] > row.label

Marked(e) == marked' = [marked EXCEPT ![traj[e]] =
                            IF label[e] > @ THEN label[e] ELSE @]

\* mark_trajectory_label compares with the stored label, under the lock: it
\* leaves the row alone, or goes on to write it back raised.
MarkKeep(e) ==
    /\ pc[e] = "mark"
    /\ LockFree
    /\ ~Raises(e, entity[traj[e]])
    /\ Marked(e)
    /\ Goto(e, AfterMark(e))
    /\ UNCHANGED <<faults, reqVars, label, copy, outcome, reply, storeVars,
                   ledgerVars, counted, prior>>

MarkRead(e) ==
    /\ pc[e] = "mark"
    /\ LockFree
    /\ Raises(e, entity[traj[e]])
    /\ lock' = e
    /\ copy' = [copy EXCEPT ![e] = entity[traj[e]]]
    /\ Goto(e, "markPut")
    /\ UNCHANGED <<faults, reqVars, label, outcome, reply, entity, files,
                   ledgerVars, ghostVars>>

MarkWrite(e) ==
    /\ pc[e] = "markPut"
    /\ entity' = [entity EXCEPT ![traj[e]] =
                     [steps |-> copy[e].steps, label |-> label[e]]]
    /\ Marked(e)
    /\ Forget(e)
    /\ lock' = NoEvent
    /\ Goto(e, AfterMark(e))
    /\ UNCHANGED <<faults, reqVars, label, outcome, reply, files, ledgerVars,
                   counted, prior>>

\* The File upsert of a FileOperationResult that names a path.
PutResult(e) ==
    /\ pc[e] = "putResult"
    /\ files' = [files EXCEPT ![file[e]] = label[e]]
    /\ Goto(e, "authorize")
    /\ UNCHANGED <<faults, reqVars, label, copy, outcome, reply, entity,
                   lock, ledgerVars, ghostVars>>

-----------------------------------------------------------------------------
(***************************************************************************)
(* Authorization.  The label rules of the shipped policy set, by the       *)
(* resource label they read from the store and the classification the      *)
(* context carries; every other rule is content-keyed and may or may not   *)
(* fire.  None of the label rules is annotated @escalate.                  *)
(***************************************************************************)
ShellUploadForbidden(resource) == resource = Confidential
ShellEgressForbidden(resource) == resource = HighlyConfidential
WebFetchForbidden(resource) == resource = HighlyConfidential
WriteConfidentialToPublic(context, resource) ==
    context = Confidential /\ resource = Public
WriteHcToInternal(context, resource) ==
    context = HighlyConfidential /\ resource = Internal
WriteHcToPublic(context, resource) ==
    context = HighlyConfidential /\ resource = Public
SpillForbidden(context, resource) ==
    \/ WriteConfidentialToPublic(context, resource)
    \/ WriteHcToInternal(context, resource)
    \/ WriteHcToPublic(context, resource)
DeleteOfFileForbidden(resource) == resource = HighlyConfidential
DeleteOnTrajectoryForbidden(context) ==
    context \in {Confidential, HighlyConfidential}

\* A ShellCommand here is one that moves data out of the machine.
LabelRuleFires(e) ==
    LET run == entity[traj[e]].label
        target == files[file[e]]
    IN  CASE kind[e] = "ShellCommand" -> \/ ShellUploadForbidden(run)
                                         \/ ShellEgressForbidden(run)
          [] kind[e] = "WebFetch" -> WebFetchForbidden(run)
          [] kind[e] = "FileWrite" -> SpillForbidden(label[e], target)
          [] kind[e] = "FileDelete" -> \/ DeleteOfFileForbidden(target)
                                       \/ DeleteOnTrajectoryForbidden(label[e])
          [] OTHER -> FALSE

\* What Cedar may respond: the forbid policies that fired, by whether they
\* carry @escalate, and whether evaluating some policy failed.  The default
\* permit makes the decision Allow exactly when no forbid fired.
CedarResponses(e) ==
    {r \in [forbids : SUBSET {"hard", "escalate"}, errors : BOOLEAN] :
        LabelRuleFires(e) => ("hard" \in r.forbids \/ r.errors)}

AdjudicatedFromResponse(r) ==
    IF r.errors THEN "Deny"
    ELSE IF r.forbids = {} THEN "Allow"
    ELSE IF "hard" \in r.forbids THEN "Deny" ELSE "Escalate"

\* is_authorized reads every entity afresh.
Authorize(e) ==
    /\ pc[e] = "authorize"
    /\ \E r \in CedarResponses(e) :
          outcome' = [outcome EXCEPT ![e] = AdjudicatedFromResponse(r)]
    /\ Goto(e, "jsonl")
    /\ UNCHANGED <<faults, reqVars, label, copy, reply, storeVars,
                   ledgerVars, ghostVars>>

\* A store or schema error inside evaluate: no verdict, but the event is
\* still persisted.  update_entity fails only once it has the lock, and
\* leaving it releases the lock.
LockKept(e) == lock   \* a mutant of LockReleased
LockReleased(e) == IF lock = e THEN NoEvent ELSE lock

EvaluateFails(e) ==
    /\ Fault
    /\ pc[e] \in EvaluatePoints \ {"classify"}
    /\ pc[e] \in {"count", "mark"} => LockFree
    /\ outcome' = [outcome EXCEPT ![e] = "Error"]
    /\ Forget(e)
    /\ lock' = LockReleased(e)
    /\ Goto(e, "jsonl")
    /\ UNCHANGED <<reqVars, label, reply, entity, files, ledgerVars,
                   ghostVars>>

-----------------------------------------------------------------------------
(***************************************************************************)
(* Persistence: the JSONL append, then the Turso insert.                   *)
(***************************************************************************)

\* redact_file_content, applied to anything short of a clean Allow; and a
\* mutant that applies it to a refusal only.
PersistedFormOnError(e) ==
    IF outcome[e] \in {"Allow", "Error"} \/ kind[e] \notin FileBodyKinds
    THEN "full" ELSE "redacted"

PersistedForm(e) ==
    IF outcome[e] = "Allow" \/ kind[e] \notin FileBodyKinds
    THEN "full" ELSE "redacted"

PersistJsonl(e) ==
    /\ pc[e] = "jsonl"
    /\ jsonl' = [jsonl EXCEPT ![e] = PersistedForm(e)]
    /\ Goto(e, "turso")
    /\ UNCHANGED <<faults, reqVars, label, copy, outcome, reply, storeVars,
                   turso, jsonlV, tursoV, ghostVars>>

PersistTurso(e) ==
    /\ pc[e] = "turso"
    /\ turso' = [turso EXCEPT ![e] = PersistedForm(e)]
    /\ \/ /\ kind[e] = "Started"
          /\ Goto(e, "reset") /\ UNCHANGED reply
       \/ /\ kind[e] = "Lifecycle"
          /\ Answer(e, "Allow")
       \/ /\ kind[e] \notin ControlKinds
          /\ outcome[e] = "Error"
          /\ Answer(e, "Error")
       \/ /\ kind[e] \notin ControlKinds
          /\ outcome[e] # "Error"
          /\ Goto(e, "reread") /\ UNCHANGED reply
    /\ UNCHANGED <<faults, reqVars, label, copy, outcome, storeVars, jsonl,
                   jsonlV, tursoV, ghostVars>>

\* Control::Started: the Trajectory row is replaced by a fresh one, without
\* update_lock.
ResetTrajectory(e) ==
    /\ pc[e] = "reset"
    /\ entity' = [entity EXCEPT ![traj[e]] = FreshTrajectory]
    /\ marked' = [marked EXCEPT ![traj[e]] = Public]
    /\ counted' = [counted EXCEPT ![traj[e]] = 0]
    /\ Answer(e, "Allow")
    /\ UNCHANGED <<faults, reqVars, label, copy, outcome, files, lock,
                   ledgerVars, prior>>

\* The re-read of the Trajectory entity only feeds a debug line, but it can
\* fail (PersistFails).
RereadTrajectory(e) ==
    /\ pc[e] = "reread"
    /\ Goto(e, "jsonlV")
    /\ UNCHANGED <<faults, reqVars, label, copy, outcome, reply, storeVars,
                   ledgerVars, ghostVars>>

PersistVerdictJsonl(e) ==
    /\ pc[e] = "jsonlV"
    /\ jsonlV' = [jsonlV EXCEPT ![e] = outcome[e]]
    /\ Goto(e, "tursoV")
    /\ UNCHANGED <<faults, reqVars, label, copy, outcome, reply, storeVars,
                   jsonl, turso, tursoV, ghostVars>>

PersistVerdictTurso(e) ==
    /\ pc[e] = "tursoV"
    /\ tursoV' = [tursoV EXCEPT ![e] = outcome[e]]
    /\ Answer(e, outcome[e])
    /\ UNCHANGED <<faults, reqVars, label, copy, outcome, storeVars, jsonl,
                   turso, jsonlV, ghostVars>>

\* A mutant: the error of an append is logged and the handler goes on.
PersistErrorsLogged(e) ==
    /\ Fault
    /\ \/ pc[e] = "jsonl" /\ Goto(e, "turso") /\ UNCHANGED reply
       \/ pc[e] = "tursoV" /\ Answer(e, outcome[e])
    /\ UNCHANGED <<reqVars, label, copy, outcome, storeVars, ledgerVars,
                   ghostVars>>

\* Any error outside evaluate fails the call.
PersistFails(e) ==
    /\ Fault
    /\ pc[e] \in PersistPoints \cup {"agent"}
    /\ Answer(e, "Error")
    /\ UNCHANGED <<reqVars, label, copy, outcome, storeVars, ledgerVars,
                   ghostVars>>

\* The handler's future is dropped at an await point: its caller hung up or
\* the process died.  The lock guard goes with it.  An append already handed
\* to the blocking pool still lands: that is PersistJsonl, then Drop.
Drop(e) ==
    /\ Fault
    /\ pc[e] \in InFlight
    /\ Forget(e)
    /\ lock' = LockReleased(e)
    /\ Goto(e, "dropped")
    /\ UNCHANGED <<reqVars, label, outcome, reply, entity, files, ledgerVars,
                   ghostVars>>

-----------------------------------------------------------------------------
\* The steps a handler takes by itself, once its event is submitted.
Step(e) ==
    \/ EnsureAgentEntity(e)
    \/ CountRead(e) \/ CountWrite(e)
    \/ Classify(e)
    \/ PutEntity(e)
    \/ MarkKeep(e) \/ MarkRead(e) \/ MarkWrite(e)
    \/ PutResult(e)
    \/ Authorize(e)
    \/ EvaluateFails(e)
    \/ PersistJsonl(e) \/ PersistTurso(e)
    \/ ResetTrajectory(e)
    \/ RereadTrajectory(e)
    \/ PersistVerdictJsonl(e) \/ PersistVerdictTurso(e)
    \/ PersistFails(e)

Next == \E e \in Events : Submit(e) \/ Step(e) \/ Drop(e)

Spec == Init /\ [][Next]_vars

\* The runtime polls every handler that can proceed, and the tokio mutex
\* serves its waiters in turn.
Fairness == \A e \in Events : WF_vars(Step(e))

FairSpec == Spec /\ Fairness

\* For TLC: events are interchangeable, as Init and Next name none.
EventSymmetry == Permutations(Events)

-----------------------------------------------------------------------------
(***************************************************************************)
(* Properties.                                                             *)
(***************************************************************************)
LedgerForms == {"none", "full", "redacted"}
Outcomes == Decisions \cup {"none", "Error"}

\* The types of the variables.
TypeOK ==
    /\ pc \in [Events -> Points]
    /\ kind \in [Events -> AllKinds]
    /\ traj \in [Events -> Trajs]
    /\ file \in [Events -> Files]
    /\ label \in [Events -> Levels]
    /\ copy \in [Events -> Trajectory]
    /\ outcome \in [Events -> Outcomes]
    /\ reply \in [Events -> Outcomes]
    /\ entity \in [Trajs -> Trajectory]
    /\ files \in [Files -> Levels \cup {Unlabelled}]
    /\ lock \in Events \cup {NoEvent}
    /\ faults \in 0..MaxFaults
    /\ jsonl \in [Events -> LedgerForms]
    /\ turso \in [Events -> LedgerForms]
    /\ jsonlV \in [Events -> Outcomes]
    /\ tursoV \in [Events -> Outcomes]
    /\ marked \in [Trajs -> Levels]
    /\ counted \in [Trajs -> Nat]
    /\ prior \in [Events -> Levels \cup {Unlabelled}]

\* Once mark_trajectory_label has returned, the stored label of the run is at
\* least the label it was given, whatever the other adjudications of the run
\* read before and write after it, until the run is started again.
HighWaterMark == \A t \in Trajs : entity[t].label >= marked[t]

\* No step that build_request counted since the run was last started is lost
\* to a concurrent whole-entity write.
NoStepLost == \A t \in Trajs : entity[t].steps >= counted[t]

\* A file body is in a ledger only if the engine allowed the event: not when
\* it refused it, and not when evaluating it failed.
BodyWithheld(e) ==
    kind[e] \in FileBodyKinds /\ "full" \in {jsonl[e], turso[e]}
    => outcome[e] = "Allow"

RefusedBodyNotStored == \A e \in Events : BodyWithheld(e)

\* At every moment, and so after a crash or a dropped handler, the Turso
\* ledger holds nothing the JSONL ledger lacks, and an Adjudicated record is
\* in neither before the event it is about is in both.
LedgersAgreeOn(e) ==
    /\ turso[e] # "none" => jsonl[e] = turso[e]
    /\ jsonlV[e] # "none" => turso[e] # "none"
    /\ tursoV[e] # "none" => jsonlV[e] = tursoV[e]

LedgersAgree == \A e \in Events : LedgersAgreeOn(e)

\* A decision is returned to the hook only when the event, and for an event
\* that was evaluated that very decision, are in the Turso ledger.
AnswerRecorded(e) ==
    reply[e] \in Decisions =>
        /\ turso[e] # "none"
        /\ kind[e] \notin ControlKinds => tursoV[e] = reply[e]

AnsweredIsRecorded == \A e \in Events : AnswerRecorded(e)

\* The stored label of a run falls only when a Started event replaces the row.
LabelFallsOnlyOnStarted ==
    [][\A t \in Trajs :
          entity'[t].label < entity[t].label
          => \E e \in Events : /\ kind[e] = "Started" /\ traj[e] = t
                               /\ pc[e] = "reset" /\ pc'[e] = "done"]_vars

\* No outbound action is allowed once highly confidential content has been
\* marked on its run, even by an adjudication that is still in flight.
EgressSeesHighWaterMark ==
    [][\A e \in Events :
          /\ kind[e] \in EgressKinds
          /\ outcome[e] = "none" /\ outcome'[e] = "Allow"
          => marked[traj[e]] < HighlyConfidential]_vars

\* Every submitted event is answered or its handler is dropped: nothing is
\* left waiting for update_lock.
EveryCallEnds ==
    \A e \in Events : pc[e] = "agent" ~> pc[e] \in {"done", "dropped"}

\* Without a Started event in mid-run, the interleaved read-modify-write
\* cycles of update_entity implement atomic counting and raising.
Atomic == INSTANCE AtomicTrajectories WITH rows <- entity
AtomicUpdates == Atomic!Spec

(***************************************************************************)
(* The inductive strengthening behind HighWaterMark, NoStepLost and the    *)
(* ledger properties.                                                      *)
(***************************************************************************)

\* An adjudication holds update_lock exactly between the read and the write
\* of an update_entity call.
LockInv == \A e \in Events : lock = e <=> pc[e] \in LockedPoints

\* The row an adjudication is about to write back is at or above the stored
\* one: only a Started event can have changed that since, and to a fresh row.
CopyInv ==
    \A e \in Events :
        /\ pc[e] \in LockedPoints =>
              /\ copy[e].label >= entity[traj[e]].label
              /\ copy[e].steps >= entity[traj[e]].steps
        /\ pc[e] = "markPut" => label[e] > copy[e].label

\* No other adjudication's write can land between a read and its write-back:
\* what TrajectoryInv adds to the two properties it implies.
TrajectoryInv == LockInv /\ CopyInv /\ HighWaterMark /\ NoStepLost

\* What each ledger holds of an event at each point of its adjudication, and
\* that no reply was given before the last.
LedgerPoint(e) ==
    /\ jsonl[e] \in {"none", PersistedForm(e)}
    /\ pc[e] \in {"idle", "agent", "jsonl"} \cup EvaluatePoints =>
          jsonl[e] = "none"
    /\ pc[e] \in {"idle", "agent", "jsonl", "turso"} \cup EvaluatePoints =>
          turso[e] = "none"
    /\ pc[e] \notin {"tursoV", "done", "dropped"} => jsonlV[e] = "none"
    /\ pc[e] \notin {"done", "dropped"} => tursoV[e] = "none"
    /\ pc[e] \in {"jsonl", "turso"} => outcome[e] # "none"
    /\ pc[e] = "turso" => jsonl[e] = PersistedForm(e)
    /\ pc[e] \in {"reset", "reread", "jsonlV", "tursoV"} =>
          turso[e] = PersistedForm(e)
    /\ pc[e] \in {"reread", "jsonlV", "tursoV"} =>
          kind[e] \notin ControlKinds /\ outcome[e] \in Decisions
    /\ pc[e] = "tursoV" => jsonlV[e] = outcome[e]
    /\ pc[e] = "reset" => kind[e] = "Started"
    /\ pc[e] # "done" => reply[e] = "none"

LedgerInv == \A e \in Events : LedgerPoint(e)

LedgerSafety ==
    LedgerInv /\ RefusedBodyNotStored /\ LedgersAgree /\ AnsweredIsRecorded

(***************************************************************************)
(* What documents of the repository say and the code does not do.          *)
(***************************************************************************)

\* The stored label of a run is a running maximum: it never falls.
LabelNeverFalls ==
    [][\A t \in Trajs : entity'[t].label >= entity[t].label]_vars
=============================================================================
