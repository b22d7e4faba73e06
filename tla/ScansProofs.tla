---------------------------- MODULE ScansProofs ----------------------------
(***************************************************************************)
(* Proofs about Scans, for any number of events, permits, deletes and      *)
(* faults.                                                                 *)
(***************************************************************************)
EXTENDS Scans, FiniteSetTheorems, SequenceTheorems, TLAPS

USE KindsAssumption, BoundsAssumption

Busy == {k \in Tasks : step[k] \in Running}

\* An event whose scans are not dispatched has no task, and a task is spawned
\* by the dispatch alone.
SpawnInv ==
    \A e \in Events :
        /\ rpc[e] \in {"idle", "register", "insert", "transcript"} =>
               step[<<e, "transcript">>] = "none"
        /\ rpc[e] \in {"idle", "register", "insert", "transcript", "message"} =>
               step[<<e, "message">>] = "none"

PermitInv == IsFiniteSet(Busy) /\ PermitsConserved

Emitting(k) == step[k] \in {"register", "insert"}
WasStored(r) == InTable(r) \/ r \in swept

\* A task that writes a record has stored the result that the record is about.
RecordInv ==
    /\ \A r \in ledger : r.what # "event" => WasStored(r)
    /\ \A k \in Tasks : Emitting(k) => WasStored(ResultOf(k))

\* A task runs, and a result is stored, for an event that the ledger has.
SourceInv ==
    deletes = 0 =>
        /\ \A k \in Tasks : step[k] \in Running => Source(k) \in EventsIn(ledger)
        /\ \A r \in Results : InTable(r) => r.source \in EventsIn(ledger)

\* The ledger has the event from the moment the engine returns, and so it does
\* when a task that the event triggered loads the transcript.
CoverInv ==
    deletes = 0 =>
        /\ \A e \in Events : rpc[e] \in {"transcript", "message"} => e \in EventsIn(ledger)
        /\ \A k \in Tasks : step[k] = "load" => Source(k) \in EventsIn(ledger)
        /\ \A k \in Tasks : saw[k] # {} => Source(k) \in saw[k]

-----------------------------------------------------------------------------
\* spawn_scan, whichever way it goes.
LEMMA SpawnTypes ==
    ASSUME TypeOK, NEW k \in Tasks, NEW first \in Running, NEW what \in Products,
           Spawn(k, first, what)
    PROVE  /\ step' \in [Tasks -> Running \cup {"none", "done"}]
           /\ product' \in [Tasks -> Products]
           /\ permits' \in Nat
<1>1. CASE permits > 0
  BY <1>1 DEF TypeOK, Spawn
<1>2. CASE permits = 0
  BY <1>2 DEF TypeOK, Spawn
<1>3. QED
  BY <1>1, <1>2 DEF Spawn

\* Every variable keeps its type: Scans!TypeOK, what calls, tasks and tables hold.
THEOREM TypeCorrect == Spec => []TypeOK
<1> USE DEF TypeOK, RpcPoints, Products, Running, AllKinds, Results, Sweep
<1>0. << >> \in Seq(Events)
  BY EmptySeq
<1>1. Init => TypeOK
  <2> SUFFICES ASSUME Init PROVE TypeOK
    OBVIOUS
  <2>1. digests \in Seq(Events)
    BY <1>0, Zenon DEF Init
  <2>2. QED
    BY <2>1 DEF Init
<1>2. TypeOK /\ [Next]_vars => TypeOK'
  <2> SUFFICES ASSUME TypeOK, [Next]_vars
               PROVE  TypeOK'
    OBVIOUS
  <2> USE DEF rpcVars, taskVars, tableVars, boundVars, Fault, RpcGoto, StepTo, Forget,
          Finish, Source, ResultOf
  <2>1. ASSUME NEW e \in Events, Adjudicate(e) PROVE TypeOK'
    BY <2>1 DEF Adjudicate
  <2>2. ASSUME NEW e \in Events, RpcStep(e) PROVE TypeOK'
    <3>1. <<e, "transcript">> \in Tasks /\ <<e, "message">> \in Tasks
      BY DEF Tasks
    <3>2. CASE RegisterAgent(e)
      BY <3>2 DEF RegisterAgent
    <3>3. CASE InsertEvent(e)
      BY <3>3 DEF InsertEvent
    <3>4. CASE RpcEnds(e)
      BY <3>4 DEF RpcEnds
    <3>5. CASE DispatchTranscript(e)
      <4>1. /\ step' \in [Tasks -> Running \cup {"none", "done"}]
            /\ product' \in [Tasks -> Products]
            /\ permits' \in Nat
        BY <3>1, <3>5, SpawnTypes DEF DispatchTranscript
      <4>2. rpc' \in [Events -> RpcPoints]
        BY <3>5 DEF DispatchTranscript
      <4>3. QED
        BY <3>5, <4>1, <4>2 DEF DispatchTranscript
    <3>6. CASE DispatchMessage(e)
      <4>1. /\ step' \in [Tasks -> Running \cup {"none", "done"}]
            /\ product' \in [Tasks -> Products]
            /\ permits' \in Nat
        BY <3>1, <3>6, SpawnTypes DEF DispatchMessage
      <4>2. QED
        BY <3>6, <4>1 DEF DispatchMessage
    <3>7. QED
      BY <2>2, <3>2, <3>3, <3>4, <3>5, <3>6 DEF RpcStep
  <2>3. ASSUME NEW k \in Tasks, TaskStep(k) PROVE TypeOK'
    <3>1. k[1] \in Events
      BY DEF Tasks
    <3>2. CASE LoadTranscript(k)
      <4>1. EventsIn(ledger) \in SUBSET Events
        BY DEF EventsIn
      <4>2. saw' \in [Tasks -> SUBSET Events]
        BY <3>2, <4>1 DEF LoadTranscript
      <4>3. QED
        BY <3>2, <4>2 DEF LoadTranscript
    <3>3. CASE LoadFails(k)
      BY <3>3 DEF LoadFails
    <3>4. CASE ModelAnswers(k)
      BY <3>4 DEF ModelAnswers
    <3>5. CASE ModelFails(k)
      BY <3>5 DEF ModelFails, Advance
    <3>6. CASE PutResult(k)
      <4>1. digests' \in Seq(Events)
        <5>1. digests' = digests \/ digests' = Append(digests, Source(k))
          BY <3>6 DEF PutResult
        <5>2. digests \in Seq(Events) /\ Source(k) \in Events
          BY <3>1 DEF TypeOK, Source
        <5>3. PICK e \in Events : e = Source(k)
          BY <5>2
        <5>4. Append(digests, e) \in Seq(Events)
          BY <5>2, <5>3
        <5>5. QED
          BY <5>1, <5>2, <5>3, <5>4, Zenon
      <4>2. QED
        BY <3>1, <3>6, <4>1 DEF PutResult
    <3>7. CASE PutFails(k)
      BY <3>7 DEF PutFails, NotPersisted, Advance
    <3>8. CASE RegisterForRecord(k)
      BY <3>8 DEF RegisterForRecord
    <3>9. CASE InsertRecord(k)
      BY <3>1, <3>9 DEF InsertRecord, Advance
    <3>10. CASE EmitFails(k)
      BY <3>10 DEF EmitFails, Advance
    <3>11. QED
      BY <2>3, <3>2, <3>3, <3>4, <3>5, <3>6, <3>7, <3>8, <3>9, <3>10 DEF TaskStep
  <2>4. CASE DeleteEvents
    BY <2>4 DEF DeleteEvents
  <2>5. CASE DeleteScans
    BY <1>0, <2>5 DEF DeleteScans
  <2>6. CASE DeleteEnds
    BY <2>6 DEF DeleteEnds
  <2>7. CASE DeleteAgent
    <3>1. digests' \in Seq(Events)
      BY <1>0, <2>7, Zenon DEF DeleteAgent
    <3>2. agent' \in BOOLEAN
      BY <2>7, Zenon DEF DeleteAgent
    <3>3. /\ ledger' = {} /\ messages' = {} /\ scans' = {}
          /\ deletes' = deletes + 1
          /\ UNCHANGED <<kind, rpc, step, product, saw, permits, deleter, faults>>
      BY <2>7, Zenon DEF DeleteAgent, rpcVars, taskVars
    <3>4. swept' \subseteq Results
      BY <2>7 DEF DeleteAgent, Sweep
    <3>5. QED
      BY <3>1, <3>2, <3>3, <3>4
  <2>8. CASE Crash
    BY <2>8 DEF Crash
  <2>9. CASE UNCHANGED vars
    BY <2>9 DEF vars
  <2>10. QED
    BY <2>1, <2>2, <2>3, <2>4, <2>5, <2>6, <2>7, <2>8, <2>9 DEF Next
<1>3. QED
  BY <1>1, <1>2, PTL DEF Spec

-----------------------------------------------------------------------------
\* A task keeps its permit until it is done, and leaves calls and deletes alone.
LEMMA TaskMoves ==
    ASSUME TypeOK, NEW k \in Tasks, TaskStep(k)
    PROVE  /\ step[k] \in Running
           /\ \/ UNCHANGED permits /\ \E s \in Running : step' = [step EXCEPT ![k] = s]
              \/ permits' = permits + 1 /\ step' = [step EXCEPT ![k] = "done"]
           /\ UNCHANGED <<rpc, deletes>>
<1> USE DEF rpcVars, boundVars, Running, StepTo, Finish
<1>1. CASE LoadTranscript(k)
  BY <1>1 DEF LoadTranscript
<1>2. CASE LoadFails(k)
  BY <1>2 DEF LoadFails
<1>3. CASE ModelAnswers(k)
  BY <1>3 DEF ModelAnswers
<1>4. CASE ModelFails(k)
  BY <1>4 DEF ModelFails, Advance
<1>5. CASE PutResult(k)
  BY <1>5 DEF PutResult
<1>6. CASE PutFails(k)
  BY <1>6 DEF PutFails, NotPersisted, Advance
<1>7. CASE RegisterForRecord(k)
  BY <1>7 DEF RegisterForRecord
<1>8. CASE InsertRecord(k)
  BY <1>8 DEF InsertRecord, Advance
<1>9. CASE EmitFails(k)
  BY <1>9 DEF EmitFails, Advance
<1>10. QED
  BY <1>1, <1>2, <1>3, <1>4, <1>5, <1>6, <1>7, <1>8, <1>9 DEF TaskStep

LEMMA SpawnStep == TypeOK /\ SpawnInv /\ [Next]_vars => SpawnInv'
<1> SUFFICES ASSUME TypeOK, SpawnInv, [Next]_vars
             PROVE  SpawnInv'
  OBVIOUS
<1> USE DEF SpawnInv, TypeOK, Tasks, RpcPoints, Running
<1>1. ASSUME NEW e \in Events, Adjudicate(e) PROVE SpawnInv'
  BY <1>1 DEF Adjudicate, RpcGoto, taskVars
<1>2. ASSUME NEW e \in Events, RegisterAgent(e) PROVE SpawnInv'
  BY <1>2 DEF RegisterAgent, RpcGoto, taskVars
<1>3. ASSUME NEW e \in Events, InsertEvent(e) PROVE SpawnInv'
  BY <1>3 DEF InsertEvent, RpcGoto, taskVars
<1>4. ASSUME NEW e \in Events, RpcEnds(e) PROVE SpawnInv'
  BY <1>4 DEF RpcEnds, RpcGoto, taskVars
<1>5. ASSUME NEW e \in Events, DispatchTranscript(e) PROVE SpawnInv'
  <2>1. /\ rpc[e] = "transcript"
        /\ rpc' = [rpc EXCEPT ![e] = "message"] \/ rpc' = [rpc EXCEPT ![e] = "done"]
    BY <1>5 DEF DispatchTranscript, Ready, RpcGoto
  <2>2. step' = step \/ step' = [step EXCEPT ![<<e, "transcript">>] = "load"]
    BY <1>5 DEF DispatchTranscript, Spawn
  <2>3. \A f \in Events : step'[<<f, "message">>] = step[<<f, "message">>]
    BY <2>2
  <2>4. \A f \in Events \ {e} : step'[<<f, "transcript">>] = step[<<f, "transcript">>]
    BY <2>2
  <2>5. QED
    BY <2>1, <2>3, <2>4
<1>6. ASSUME NEW e \in Events, DispatchMessage(e) PROVE SpawnInv'
  <2>1. rpc' = [rpc EXCEPT ![e] = "done"]
    BY <1>6 DEF DispatchMessage, RpcGoto
  <2>2. step' = step \/ step' = [step EXCEPT ![<<e, "message">>] = "ask"]
    BY <1>6 DEF DispatchMessage, Spawn
  <2>3. \A f \in Events \ {e} : step'[<<f, "message">>] = step[<<f, "message">>]
    BY <2>2
  <2>4. \A f \in Events : step'[<<f, "transcript">>] = step[<<f, "transcript">>]
    BY <2>2
  <2>5. QED
    BY <2>1, <2>3, <2>4
<1>7. ASSUME NEW k \in Tasks, TaskStep(k) PROVE SpawnInv'
  <2>1. UNCHANGED rpc
    BY <1>7, TaskMoves
  <2>2. \A j \in Tasks : step[j] = "none" => step'[j] = "none"
    BY <1>7, TaskMoves
  <2>3. QED
    BY <2>1, <2>2
<1>8. CASE Crash
  BY <1>8 DEF Crash
<1>9. CASE DeleteEvents \/ DeleteScans \/ DeleteEnds \/ DeleteAgent \/ UNCHANGED vars
  BY <1>9 DEF DeleteEvents, DeleteScans, DeleteEnds, DeleteAgent, vars, rpcVars, taskVars
<1>10. QED
  BY <1>1, <1>2, <1>3, <1>4, <1>5, <1>6, <1>7, <1>8, <1>9 DEF Next, RpcStep

-----------------------------------------------------------------------------
\* spawn_scan takes a permit for the task that it starts, or starts none.
LEMMA SpawnTakesPermit ==
    ASSUME TypeOK, PermitInv, NEW k \in Tasks, step[k] = "none",
           NEW first \in Running, NEW what, Spawn(k, first, what)
    PROVE  PermitInv'
<1>1. CASE permits = 0 /\ UNCHANGED <<permits, step>>
  BY <1>1 DEF PermitInv, PermitsConserved, Busy
<1>2. CASE permits' = permits - 1 /\ step' = [step EXCEPT ![k] = first]
  <2>1. k \notin Busy
    BY DEF Busy, Running
  <2>2. Busy' = Busy \cup {k}
    BY <1>2 DEF Busy, TypeOK
  <2>3. IsFiniteSet(Busy) /\ Cardinality(Busy) \in Nat
    BY FS_CardinalityType DEF PermitInv
  <2>4. IsFiniteSet(Busy') /\ Cardinality(Busy') = Cardinality(Busy) + 1
    BY <2>1, <2>2, <2>3, FS_AddElement
  <2>5. QED
    BY <1>2, <2>3, <2>4 DEF PermitInv, PermitsConserved, Busy, TypeOK
<1>3. QED
  BY <1>1, <1>2 DEF Spawn

LEMMA PermitStep == TypeOK /\ SpawnInv /\ PermitInv /\ [Next]_vars => PermitInv'
<1> SUFFICES ASSUME TypeOK, SpawnInv, PermitInv, [Next]_vars
             PROVE  PermitInv'
  OBVIOUS
<1>1. CASE UNCHANGED <<step, permits>>
  BY <1>1 DEF PermitInv, PermitsConserved, Busy
<1>2. ASSUME NEW e \in Events, DispatchTranscript(e) PROVE PermitInv'
  <2>1. <<e, "transcript">> \in Tasks /\ step[<<e, "transcript">>] = "none"
    BY <1>2 DEF DispatchTranscript, Ready, SpawnInv, Tasks
  <2>2. CASE Spawn(<<e, "transcript">>, "load", "digest")
    BY <2>1, <2>2, SpawnTakesPermit DEF Running
  <2>3. QED
    BY <1>1, <1>2, <2>2 DEF DispatchTranscript
<1>3. ASSUME NEW e \in Events, DispatchMessage(e) PROVE PermitInv'
  <2>1. <<e, "message">> \in Tasks /\ step[<<e, "message">>] = "none"
    BY <1>3 DEF DispatchMessage, SpawnInv, Tasks
  <2>2. QED
    BY <1>3, <2>1, SpawnTakesPermit DEF DispatchMessage, Running
<1>4. ASSUME NEW k \in Tasks, TaskStep(k) PROVE PermitInv'
  <2>1. k \in Busy
    BY <1>4, TaskMoves DEF Busy
  <2>2. IsFiniteSet(Busy) /\ Cardinality(Busy) \in Nat
    BY FS_CardinalityType DEF PermitInv
  <2>3. CASE UNCHANGED permits /\ \E s \in Running : step' = [step EXCEPT ![k] = s]
    <3>1. Busy' = Busy
      BY <2>1, <2>3 DEF Busy, TypeOK
    <3>2. QED
      BY <2>3, <3>1 DEF PermitInv, PermitsConserved, Busy
  <2>4. CASE permits' = permits + 1 /\ step' = [step EXCEPT ![k] = "done"]
    <3>1. Busy' = Busy \ {k}
      BY <2>4 DEF Busy, TypeOK, Running
    <3>2. IsFiniteSet(Busy') /\ Cardinality(Busy') = Cardinality(Busy) - 1
      BY <2>1, <2>2, <3>1, FS_RemoveElement
    <3>3. QED
      BY <2>2, <2>4, <3>2 DEF PermitInv, PermitsConserved, Busy, TypeOK
  <2>5. QED
    BY <1>4, <2>3, <2>4, TaskMoves
<1>5. CASE Crash
  <2>1. Busy' = {} /\ permits' = MaxPermits
    BY <1>5 DEF Crash, Busy, Running
  <2>2. QED
    BY <2>1, FS_EmptySet DEF PermitInv, PermitsConserved, Busy
<1>6. CASE DeleteEvents \/ DeleteScans \/ DeleteEnds \/ DeleteAgent \/ UNCHANGED vars
  BY <1>1, <1>6 DEF DeleteEvents, DeleteScans, DeleteEnds, DeleteAgent, vars, taskVars
<1>7. ASSUME NEW e \in Events, Adjudicate(e) \/ RegisterAgent(e) \/ InsertEvent(e) \/ RpcEnds(e)
      PROVE  PermitInv'
  BY <1>1, <1>7 DEF Adjudicate, RegisterAgent, InsertEvent, RpcEnds, taskVars
<1>8. QED
  BY <1>2, <1>3, <1>4, <1>5, <1>6, <1>7 DEF Next, RpcStep

\* However a task ends, its permit comes back: Scans!PermitsConserved.
THEOREM PermitsConservedHolds == Spec => []PermitsConserved
<1>1. Init => SpawnInv /\ PermitInv
  <2> SUFFICES ASSUME Init PROVE SpawnInv /\ PermitInv
    OBVIOUS
  <2>1. SpawnInv
    BY DEF Init, SpawnInv, Tasks
  <2>2. Busy = {} /\ permits = MaxPermits
    BY DEF Init, Busy, Running
  <2>3. QED
    BY <2>1, <2>2, FS_EmptySet DEF PermitInv, PermitsConserved, Busy
<1>2. PermitInv => PermitsConserved
  BY DEF PermitInv
<1>3. QED
  BY <1>1, <1>2, TypeCorrect, SpawnStep, PermitStep, PTL DEF Spec

-----------------------------------------------------------------------------
\* A failed store or a failed model call ends a result without a record.
LEMMA AdvanceLeavesNoRecord ==
    ASSUME TypeOK, NEW k \in Tasks, Advance(k)
    PROVE  /\ step'[k] \in {"ask", "done"}
           /\ \A j \in Tasks \ {k} : step'[j] = step[j] /\ product'[j] = product[j]
BY DEF TypeOK, Advance, Finish, Forget

\* A result that was stored stays so: what leaves a table is swept.
LEMMA StoredStays ==
    TypeOK /\ [Next]_vars => \A r \in Results : WasStored(r) => WasStored(r)'
<1> SUFFICES ASSUME TypeOK, [Next]_vars, NEW r \in Results, WasStored(r)
             PROVE  WasStored(r)'
  OBVIOUS
<1> USE DEF WasStored
<1>1. CASE UNCHANGED <<tableVars, swept>>
  BY <1>1 DEF InTable, tableVars
<1>2. ASSUME NEW k \in Tasks, PutResult(k) PROVE WasStored(r)'
  <2>1. swept' = swept /\ Source(k) \in Events
    BY <1>2 DEF PutResult, Tasks, Source
  <2>2. CASE InTable(r)
    <3>1. messages \subseteq messages' /\ scans \subseteq scans'
      BY <1>2 DEF PutResult
    <3>2. \A i \in DOMAIN digests : i \in DOMAIN digests' /\ digests'[i] = digests[i]
      <4>1. digests' = digests \/ digests' = Append(digests, Source(k))
        BY <1>2 DEF PutResult
      <4>2. digests \in Seq(Events)
        BY DEF TypeOK
      <4>3. QED
        BY <2>1, <4>1, <4>2, AppendProperties
    <3>3. QED
      BY <2>2, <3>1, <3>2 DEF InTable
  <2>3. QED
    BY <2>1, <2>2
<1>3. CASE Sweep
  BY <1>3 DEF Sweep
<1>4. ASSUME NEW k \in Tasks, TaskStep(k), ~PutResult(k) PROVE WasStored(r)'
  BY <1>1, <1>4 DEF TaskStep, LoadTranscript, LoadFails, ModelAnswers, ModelFails, PutFails,
     RegisterForRecord, InsertRecord, EmitFails
<1>5. ASSUME NEW e \in Events, Adjudicate(e) \/ RpcStep(e) PROVE WasStored(r)'
  BY <1>1, <1>5 DEF Adjudicate, RpcStep, RegisterAgent, InsertEvent, RpcEnds,
     DispatchTranscript, DispatchMessage
<1>6. CASE DeleteEvents \/ DeleteEnds \/ Crash \/ UNCHANGED vars
  BY <1>1, <1>6 DEF DeleteEvents, DeleteEnds, Crash, vars
<1>7. CASE DeleteScans \/ DeleteAgent
  BY <1>3, <1>7 DEF DeleteScans, DeleteAgent
<1>8. QED
  BY <1>2, <1>4, <1>5, <1>6, <1>7 DEF Next

\* The upsert of a result puts it, and it alone, in its table.
LEMMA PutStores ==
    ASSUME TypeOK, NEW k \in Tasks, PutResult(k)
    PROVE  /\ ResultOf(k) \in Results /\ InTable(ResultOf(k))'
           /\ \A r \in Results : InTable(r)' => InTable(r) \/ r.source = Source(k)
<1>1. Source(k) \in Events /\ product[k] \in Products
  BY DEF TypeOK, Tasks, Source
<1>2. CASE product[k] = "message"
  <2>1. messages' = messages \cup {Source(k)} /\ UNCHANGED <<digests, scans>>
    BY <1>2 DEF PutResult
  <2>2. InTable(ResultOf(k))'
    <3>1. product' = product
      BY DEF PutResult, StepTo
    <3>2. QED
      BY <1>2, <2>1, <3>1 DEF InTable, ResultOf, Source
  <2>3. \A r \in Results : InTable(r)' => InTable(r) \/ r.source = Source(k)
    BY <2>1 DEF InTable
  <2>4. QED
    BY <1>1, <2>2, <2>3 DEF ResultOf, Results
<1>3. CASE product[k] = "digest"
  <2>1. /\ digests' = Append(digests, Source(k)) /\ digests \in Seq(Events)
        /\ UNCHANGED <<messages, scans>>
    BY <1>3 DEF PutResult, TypeOK
  <2>2. /\ Len(digests') = Len(digests) + 1 /\ digests'[Len(digests) + 1] = Source(k)
        /\ \A i \in 1 .. Len(digests) : digests'[i] = digests[i]
    BY <1>1, <2>1, AppendProperties
  <2>3. DOMAIN digests' = 1 .. Len(digests) + 1 /\ Len(digests) \in Nat
    BY <1>1, <2>1, <2>2
  <2>4. InTable(ResultOf(k))'
    <3>1. product' = product
      BY DEF PutResult, StepTo
    <3>2. Len(digests) + 1 \in DOMAIN digests'
      BY <2>3
    <3>3. QED
      BY <1>3, <2>2, <3>1, <3>2 DEF InTable, ResultOf, Source
  <2>5. \A r \in Results : InTable(r)' => InTable(r) \/ r.source = Source(k)
    BY <2>1, <2>2, <2>3 DEF InTable
  <2>6. QED
    BY <1>1, <2>4, <2>5 DEF ResultOf, Results
<1>4. CASE product[k] = "scan"
  <2>1. scans' = scans \cup {Source(k)} /\ UNCHANGED <<digests, messages>>
    BY <1>4 DEF PutResult
  <2>2. InTable(ResultOf(k))'
    <3>1. product' = product
      BY DEF PutResult, StepTo
    <3>2. QED
      BY <1>4, <2>1, <3>1 DEF InTable, ResultOf, Source
  <2>3. \A r \in Results : InTable(r)' => InTable(r) \/ r.source = Source(k)
    BY <2>1 DEF InTable
  <2>4. QED
    BY <1>1, <2>2, <2>3 DEF ResultOf, Results
<1>5. QED
  BY <1>1, <1>2, <1>3, <1>4 DEF Products

LEMMA RecordStep == TypeOK /\ RecordInv /\ [Next]_vars => RecordInv'
<1> SUFFICES ASSUME TypeOK, RecordInv, [Next]_vars
             PROVE  RecordInv'
  OBVIOUS
<1> USE DEF RecordInv
<1> DEFINE SameResults == \A j \in Tasks : Emitting(j)' => Emitting(j) /\ product'[j] = product[j]
<1>a. \A r \in Results : WasStored(r) => WasStored(r)'
  BY StoredStays
<1>b. \A r \in ledger : r.what # "event" => r \in Results
  BY DEF TypeOK, Results
<1>c. \A j \in Tasks : ResultOf(j) \in Results
  BY DEF TypeOK, ResultOf, Results, Tasks, Source
<1>d. SameResults => \A j \in Tasks : Emitting(j)' => WasStored(ResultOf(j))'
  <2> SUFFICES ASSUME SameResults, NEW j \in Tasks, Emitting(j)'
               PROVE  WasStored(ResultOf(j))'
    OBVIOUS
  <2>1. WasStored(ResultOf(j)) /\ ResultOf(j)' = ResultOf(j)
    BY DEF ResultOf
  <2>2. QED
    BY <1>a, <1>c, <2>1 DEF WasStored, InTable
<1>1. ASSUME ledger' \subseteq ledger \cup [source : Events, what : {"event"}], SameResults
      PROVE  RecordInv'
  <2>1. \A r \in ledger' : r.what # "event" => WasStored(r)'
    BY <1>1, <1>a, <1>b
  <2>2. QED
    BY <1>1, <1>d, <2>1
<1> USE DEF Emitting
<1>2. ASSUME NEW e \in Events, Adjudicate(e) \/ RegisterAgent(e) \/ InsertEvent(e) \/ RpcEnds(e)
      PROVE  RecordInv'
  BY <1>1, <1>2 DEF Adjudicate, RegisterAgent, InsertEvent, RpcEnds, taskVars
<1>3. ASSUME NEW e \in Events, DispatchTranscript(e) PROVE RecordInv'
  <2>1. SameResults
    BY <1>3 DEF DispatchTranscript, Spawn, TypeOK
  <2>2. QED
    BY <1>1, <1>3, <2>1 DEF DispatchTranscript
<1>4. ASSUME NEW e \in Events, DispatchMessage(e) PROVE RecordInv'
  <2>1. SameResults
    BY <1>4 DEF DispatchMessage, Spawn, TypeOK
  <2>2. QED
    BY <1>1, <1>4, <2>1 DEF DispatchMessage
<1>5. ASSUME NEW k \in Tasks, TaskStep(k) PROVE RecordInv'
  <2>1. CASE LoadTranscript(k)
    <3>1. SameResults
      BY <2>1 DEF LoadTranscript, Finish, Forget, TypeOK
    <3>2. QED
      BY <1>1, <2>1, <3>1 DEF LoadTranscript
  <2>2. CASE LoadFails(k)
    <3>1. SameResults
      BY <2>2 DEF LoadFails, Finish, Forget, TypeOK
    <3>2. QED
      BY <1>1, <2>2, <3>1 DEF LoadFails
  <2>3. CASE ModelAnswers(k)
    <3>1. SameResults
      BY <2>3 DEF ModelAnswers, StepTo, TypeOK
    <3>2. QED
      BY <1>1, <2>3, <3>1 DEF ModelAnswers
  <2>4. CASE ModelFails(k) \/ PutFails(k) \/ EmitFails(k)
    <3>1. Advance(k) /\ UNCHANGED ledger
      BY <2>4 DEF ModelFails, PutFails, NotPersisted, EmitFails
    <3>2. SameResults
      BY <3>1, AdvanceLeavesNoRecord
    <3>3. QED
      BY <1>1, <3>1, <3>2
  <2>5. CASE PutResult(k)
    <3>1. UNCHANGED <<ledger, product>> /\ step' = [step EXCEPT ![k] = "register"]
      BY <2>5 DEF PutResult, StepTo
    <3>2. WasStored(ResultOf(k))'
      BY <2>5, <3>1, PutStores DEF WasStored, ResultOf
    <3>3. \A j \in Tasks \ {k} : Emitting(j)' => Emitting(j) /\ product'[j] = product[j]
      BY <3>1
    <3>4. \A j \in Tasks \ {k} : Emitting(j)' => WasStored(ResultOf(j))'
      <4> SUFFICES ASSUME NEW j \in Tasks \ {k}, Emitting(j)'
                   PROVE  WasStored(ResultOf(j))'
        OBVIOUS
      <4>1. WasStored(ResultOf(j)) /\ ResultOf(j)' = ResultOf(j)
        BY <3>3 DEF ResultOf
      <4>2. QED
        BY <1>a, <1>c, <4>1 DEF WasStored, InTable
    <3>5. \A r \in ledger' : r.what # "event" => WasStored(r)'
      BY <1>a, <1>b, <3>1
    <3>6. QED
      BY <3>2, <3>4, <3>5
  <2>6. CASE RegisterForRecord(k)
    <3>1. SameResults
      BY <2>6 DEF RegisterForRecord, StepTo, TypeOK
    <3>2. QED
      BY <1>1, <2>6, <3>1 DEF RegisterForRecord
  <2>7. CASE InsertRecord(k)
    <3>1. /\ step[k] = "insert" /\ Advance(k)
          /\ ledger' = ledger \cup {ResultOf(k)}
      BY <2>7 DEF InsertRecord
    <3>2. SameResults
      BY <3>1, AdvanceLeavesNoRecord
    <3>3. PICK r \in Results : r = ResultOf(k)
      BY <1>c
    <3>4. WasStored(r)'
      BY <1>a, <3>1, <3>3
    <3>5. \A q \in ledger' : q.what # "event" => WasStored(q)'
      BY <1>a, <1>b, <3>1, <3>3, <3>4
    <3>6. QED
      BY <1>d, <3>2, <3>5
  <2>8. QED
    BY <1>5, <2>1, <2>2, <2>3, <2>4, <2>5, <2>6, <2>7 DEF TaskStep
<1>6. CASE Crash
  BY <1>1, <1>6 DEF Crash
<1>7. CASE DeleteEvents \/ DeleteScans \/ DeleteEnds \/ DeleteAgent \/ UNCHANGED vars
  BY <1>1, <1>7 DEF DeleteEvents, DeleteScans, DeleteEnds, DeleteAgent, vars, taskVars
<1>8. QED
  BY <1>2, <1>3, <1>4, <1>5, <1>6, <1>7 DEF Next, RpcStep

-----------------------------------------------------------------------------
LEMMA EventsInGrows ==
    ASSUME NEW r, NEW s, r \subseteq s
    PROVE  EventsIn(r) \subseteq EventsIn(s)
BY DEF EventsIn

\* What a step that spawns no task and deletes nothing has to keep.
LEMMA CoverKept ==
    ASSUME CoverInv, deletes' = deletes, ledger \subseteq ledger',
           \A e \in Events : rpc'[e] \in {"transcript", "message"} =>
               rpc[e] \in {"transcript", "message"} \/ e \in EventsIn(ledger'),
           \A k \in Tasks : step'[k] = "load" =>
               step[k] = "load" \/ Source(k) \in EventsIn(ledger'),
           \A k \in Tasks : saw'[k] # {} => saw'[k] = saw[k] \/ Source(k) \in saw'[k]
    PROVE  CoverInv'
<1>1. EventsIn(ledger) \subseteq EventsIn(ledger')
  BY EventsInGrows
<1>2. QED
  BY <1>1 DEF CoverInv

LEMMA CoverStep == TypeOK /\ CoverInv /\ [Next]_vars => CoverInv'
<1> SUFFICES ASSUME TypeOK, CoverInv, [Next]_vars
             PROVE  CoverInv'
  OBVIOUS
<1> USE DEF TypeOK, boundVars, rpcVars, RpcGoto, Source, Tasks
<1>1. ASSUME NEW e \in Events, Adjudicate(e) \/ RegisterAgent(e) \/ RpcEnds(e)
      PROVE  CoverInv'
  <2>1. deletes' = deletes /\ ledger' = ledger /\ UNCHANGED taskVars
    BY <1>1 DEF Adjudicate, RegisterAgent, RpcEnds
  <2>2. \A f \in Events : rpc'[f] \in {"transcript", "message"} => rpc'[f] = rpc[f]
    BY <1>1 DEF Adjudicate, RegisterAgent, RpcEnds
  <2>3. QED
    BY <2>1, <2>2, CoverKept DEF taskVars
<1>2. ASSUME NEW e \in Events, InsertEvent(e) PROVE CoverInv'
  <2>1. /\ deletes' = deletes /\ UNCHANGED taskVars
        /\ ledger' = ledger \cup {[source |-> e, what |-> "event"]}
    BY <1>2 DEF InsertEvent
  <2>2. e \in EventsIn(ledger')
    BY <2>1 DEF EventsIn
  <2>3. \A f \in Events \ {e} : rpc'[f] = rpc[f]
    BY <1>2 DEF InsertEvent
  <2>4. QED
    BY <2>1, <2>2, <2>3, CoverKept DEF taskVars
<1>3. ASSUME NEW e \in Events, DispatchTranscript(e) PROVE CoverInv'
  <2>1. /\ rpc[e] = "transcript"
        /\ UNCHANGED <<deletes, ledger, saw>>
        /\ \A f \in Events \ {e} : rpc'[f] = rpc[f]
    BY <1>3 DEF DispatchTranscript, Ready
  <2>2. step' = step \/ step' = [step EXCEPT ![<<e, "transcript">>] = "load"]
    BY <1>3 DEF DispatchTranscript, Spawn
  <2>3. \A k \in Tasks : step'[k] = "load" => step[k] = "load" \/ Source(k) = e
    BY <2>2
  <2>4. deletes = 0 => e \in EventsIn(ledger')
    BY <2>1 DEF CoverInv
  <2>5. CASE deletes = 0
    BY <2>1, <2>3, <2>4, <2>5, CoverKept
  <2>6. CASE deletes # 0
    BY <2>1, <2>6 DEF CoverInv
  <2>7. QED
    BY <2>5, <2>6
<1>4. ASSUME NEW e \in Events, DispatchMessage(e) PROVE CoverInv'
  <2>1. /\ UNCHANGED <<deletes, ledger, saw>>
        /\ \A f \in Events : rpc'[f] \in {"transcript", "message"} => rpc'[f] = rpc[f]
    BY <1>4 DEF DispatchMessage
  <2>2. step' = step \/ step' = [step EXCEPT ![<<e, "message">>] = "ask"]
    BY <1>4 DEF DispatchMessage, Spawn
  <2>3. \A k \in Tasks : step'[k] = "load" => step[k] = "load"
    BY <2>2
  <2>4. QED
    BY <2>1, <2>3, CoverKept
<1>5. ASSUME NEW k \in Tasks, TaskStep(k) PROVE CoverInv'
  <2>1. /\ UNCHANGED <<rpc, deletes>>
        /\ \A j \in Tasks : step'[j] = "load" => step[j] = "load" \/ j = k
    BY <1>5, TaskMoves
  <2>2. CASE LoadTranscript(k) /\ ledger # {}
    <3>1. /\ step[k] = "load" /\ UNCHANGED ledger
          /\ saw' = [saw EXCEPT ![k] = EventsIn(ledger)]
      BY <2>2 DEF LoadTranscript
    <3>2. CASE deletes = 0
      <4>1. Source(k) \in EventsIn(ledger)
        BY <3>1, <3>2 DEF CoverInv
      <4>2. QED
        BY <2>1, <3>1, <4>1, CoverKept
    <3>3. CASE deletes # 0
      BY <2>1, <3>3 DEF CoverInv
    <3>4. QED
      BY <3>2, <3>3
  <2>3. CASE ~(LoadTranscript(k) /\ ledger # {})
    <3>1. \A j \in Tasks : saw'[j] = saw[j] \/ saw'[j] = {}
      BY <1>5, <2>3 DEF TaskStep, LoadTranscript, LoadFails, ModelAnswers, ModelFails, PutResult,
         PutFails, NotPersisted, RegisterForRecord, InsertRecord, EmitFails, Advance, Finish,
         Forget, StepTo
    <3>2. ledger \subseteq ledger' /\ step'[k] # "load"
      BY <1>5, <2>3 DEF TaskStep, LoadTranscript, LoadFails, ModelAnswers, ModelFails, PutResult,
         PutFails, NotPersisted, RegisterForRecord, InsertRecord, EmitFails, Advance, Finish,
         Forget, StepTo
    <3>3. QED
      BY <2>1, <3>1, <3>2, CoverKept
  <2>4. QED
    BY <2>2, <2>3
<1>6. CASE Crash
  <2>1. /\ UNCHANGED <<deletes, ledger>>
        /\ \A e \in Events : rpc'[e] \notin {"transcript", "message"}
        /\ \A k \in Tasks : step'[k] # "load" /\ saw'[k] = {}
    BY <1>6 DEF Crash
  <2>2. QED
    BY <2>1, CoverKept
<1>7. CASE DeleteEvents \/ DeleteAgent
  BY <1>7 DEF DeleteEvents, DeleteAgent, CoverInv
<1>8. CASE DeleteScans \/ DeleteEnds \/ UNCHANGED vars
  BY <1>8, CoverKept DEF DeleteScans, DeleteEnds, vars, taskVars
<1>9. QED
  BY <1>1, <1>2, <1>3, <1>4, <1>5, <1>6, <1>7, <1>8 DEF Next, RpcStep

\* Scans are dispatched after the engine has persisted the event that triggers
\* them: Scans!TranscriptCoversTrigger.
THEOREM TranscriptCoversTriggerHolds == Spec => []TranscriptCoversTrigger
<1>1. Init => CoverInv
  BY DEF Init, CoverInv
<1>2. CoverInv => TranscriptCoversTrigger
  BY DEF CoverInv, TranscriptCoversTrigger
<1>3. QED
  BY <1>1, <1>2, TypeCorrect, CoverStep, PTL DEF Spec

-----------------------------------------------------------------------------
\* What a step that deletes nothing has to keep for SourceInv.
LEMMA SourceKept ==
    ASSUME SourceInv, deletes' = deletes, ledger \subseteq ledger',
           \A k \in Tasks : step'[k] \in Running =>
               step[k] \in Running \/ Source(k) \in EventsIn(ledger'),
           \A r \in Results : InTable(r)' => InTable(r) \/ r.source \in EventsIn(ledger')
    PROVE  SourceInv'
<1>1. EventsIn(ledger) \subseteq EventsIn(ledger')
  BY EventsInGrows
<1>2. QED
  BY <1>1 DEF SourceInv, EventsIn, InTable

LEMMA SourceStep == TypeOK /\ CoverInv /\ SourceInv /\ [Next]_vars => SourceInv'
<1> SUFFICES ASSUME TypeOK, CoverInv, SourceInv, [Next]_vars
             PROVE  SourceInv'
  OBVIOUS
<1>1. ASSUME UNCHANGED tableVars PROVE \A r \in Results : InTable(r)' => InTable(r)
  BY <1>1 DEF tableVars, InTable
<1>2. ASSUME NEW e \in Events,
             Adjudicate(e) \/ RegisterAgent(e) \/ InsertEvent(e) \/ RpcEnds(e)
      PROVE  SourceInv'
  <2>1. UNCHANGED <<deletes, step, tableVars>> /\ ledger \subseteq ledger'
    BY <1>2 DEF Adjudicate, RegisterAgent, InsertEvent, RpcEnds, taskVars, boundVars
  <2>2. QED
    BY <1>1, <2>1, SourceKept
<1>3. ASSUME NEW e \in Events, DispatchTranscript(e) \/ DispatchMessage(e) PROVE SourceInv'
  <2>1. /\ UNCHANGED <<deletes, ledger, tableVars>>
        /\ rpc[e] \in {"transcript", "message"}
    BY <1>3 DEF DispatchTranscript, DispatchMessage, Ready, boundVars
  <2>2. \A k \in Tasks : step'[k] # step[k] => Source(k) = e
    BY <1>3 DEF DispatchTranscript, DispatchMessage, Spawn, TypeOK, Source
  <2>3. deletes = 0 => e \in EventsIn(ledger')
    BY <2>1 DEF CoverInv
  <2>4. CASE deletes = 0
    BY <1>1, <2>1, <2>2, <2>3, <2>4, SourceKept
  <2>5. QED
    BY <2>1, <2>4 DEF SourceInv
<1>4. ASSUME NEW k \in Tasks, TaskStep(k) PROVE SourceInv'
  <2>1. /\ step[k] \in Running /\ UNCHANGED deletes
        /\ \A j \in Tasks : step'[j] \in Running => step[j] \in Running
    BY <1>4, TaskMoves DEF TypeOK
  <2>2. ledger \subseteq ledger'
    BY <1>4 DEF TaskStep, LoadTranscript, LoadFails, ModelAnswers, ModelFails, PutResult, PutFails,
       RegisterForRecord, InsertRecord, EmitFails
  <2>3. CASE PutResult(k)
    <3>1. ledger' = ledger
      BY <2>3 DEF PutResult
    <3>2. CASE deletes = 0
      <4>1. Source(k) \in EventsIn(ledger')
        BY <2>1, <3>1, <3>2 DEF SourceInv
      <4>2. QED
        BY <2>1, <2>2, <2>3, <4>1, PutStores, SourceKept
    <3>3. QED
      BY <2>1, <3>2 DEF SourceInv
  <2>4. CASE ~PutResult(k)
    <3>1. UNCHANGED tableVars
      BY <1>4, <2>4 DEF TaskStep, LoadTranscript, LoadFails, ModelAnswers, ModelFails, PutFails,
         RegisterForRecord, InsertRecord, EmitFails
    <3>2. QED
      BY <1>1, <2>1, <2>2, <3>1, SourceKept
  <2>5. QED
    BY <2>3, <2>4
<1>5. CASE Crash
  <2>1. /\ UNCHANGED <<deletes, ledger, tableVars>>
        /\ \A k \in Tasks : step'[k] \notin Running
    BY <1>5 DEF Crash, Running
  <2>2. QED
    BY <1>1, <2>1, SourceKept
<1>6. CASE DeleteEvents \/ DeleteAgent
  BY <1>6 DEF DeleteEvents, DeleteAgent, SourceInv, TypeOK
<1>7. CASE DeleteScans
  <2>1. UNCHANGED <<deletes, ledger, step>>
    BY <1>7 DEF DeleteScans, taskVars, boundVars
  <2>2. \A r \in Results : InTable(r)' => InTable(r)
    BY <1>7 DEF DeleteScans, InTable
  <2>3. QED
    BY <2>1, <2>2, SourceKept
<1>8. CASE DeleteEnds \/ UNCHANGED vars
  <2>1. UNCHANGED <<deletes, ledger, step, tableVars>>
    BY <1>8 DEF DeleteEnds, vars, taskVars, boundVars
  <2>2. QED
    BY <1>1, <2>1, SourceKept
<1>9. QED
  BY <1>2, <1>3, <1>4, <1>5, <1>6, <1>7, <1>8 DEF Next, RpcStep

\* A result is stored about an event that is in the ledger, and emit_scanned
\* comes after the upsert of its result; a delete may come between, and takes
\* the result but not the record: Scans!RecordWasStored.
THEOREM RecordWasStoredHolds == Spec => []RecordWasStored
<1>1. Init => RecordInv /\ CoverInv /\ SourceInv
  BY DEF Init, RecordInv, CoverInv, SourceInv, Emitting, InTable, Running
<1>2. RecordInv /\ SourceInv => RecordWasStored
  BY DEF RecordInv, SourceInv, RecordWasStored, WasStored
<1>3. QED
  BY <1>1, <1>2, TypeCorrect, RecordStep, CoverStep, SourceStep, PTL DEF Spec
=============================================================================
