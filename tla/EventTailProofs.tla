-------------------------- MODULE EventTailProofs --------------------------
(***************************************************************************)
(* Proofs about EventTail, for any events, timestamps and channel capacity.*)
(***************************************************************************)
EXTENDS EventTail, FiniteSetTheorems, SequenceTheorems, TLAPS

Items == Events \cup {"error"}

\* Reads of the ledger return finitely many rows.
Finite == IsFiniteSet(rows)

\* A poll is made exactly when every row of the last one was sent.
BatchInv ==
    /\ task \in {"poll", "sleep"} => batch = << >>
    /\ task = "send" => batch # << >>

\* The counter is ahead of every row the task knows of.
IdInv ==
    /\ \A r \in rows : r.id < nextId
    /\ cursor < nextId
    /\ \A i \in 1..Len(batch) : batch[i].id < nextId

\* Every row at or below a bound has been sent or is about to be.
Covered(bound) ==
    \A r \in rows : r.id <= bound => Sent(r.event) \/ Pending(r)

\* The cursor moves to the ids of the batch in the order of their timestamps,
\* so each of them, and not only the cursor, bounds covered rows.
CoverInv ==
    receiver = "open" =>
        /\ Covered(cursor)
        /\ \A i \in 1..Len(batch) : Covered(batch[i].id)

-----------------------------------------------------------------------------
\* What a poll returns is a sequence of the rows past the cursor, each of them
\* in it: events_after.
LEMMA PollReturnsNewRows ==
    ASSUME Finite, NEW s \in EventsAfter
    PROVE  /\ s \in Seq(rows)
           /\ \A i \in 1..Len(s) : s[i] \in rows
           /\ \A r \in rows : Later(r) => \E i \in 1..Len(s) : s[i] = r
<1> DEFINE new == {r \in rows : Later(r)}
<1>1. new \subseteq rows
  OBVIOUS
<1>2. IsFiniteSet(new) /\ Cardinality(new) \in Nat
  BY <1>1, FS_Subset, FS_CardinalityType DEF Finite
<1>3. s \in [1..Cardinality(new) -> new]
  BY DEF EventsAfter
<1>4. \A r \in new : \E i \in DOMAIN s : s[i] = r
  BY DEF EventsAfter
<1>5. s \in [1..Cardinality(new) -> rows]
  BY <1>1, <1>3
<1>6. s \in Seq(rows)
  <2>1. PICK n \in Nat : s \in [1..n -> rows]
    BY <1>2, <1>5
  <2>2. Seq(rows) = UNION {[1..k -> rows] : k \in Nat}
    BY SeqDef
  <2>3. QED
    BY <2>1, <2>2, Zenon
<1>7. DOMAIN s = 1..Len(s) /\ s \in [1..Len(s) -> rows]
  BY <1>6, LenProperties
<1>8. QED
  BY <1>4, <1>6, <1>7

\* Sending the head of a batch leaves its tail pending.
LEMMA HeadThenTail ==
    ASSUME NEW S, NEW s \in Seq(S), s # << >>
    PROVE  /\ Head(s) = s[1]
           /\ 1 \in 1..Len(s)
           /\ Tail(s) \in Seq(S)
           /\ \A i \in 1..Len(Tail(s)) :
                 i + 1 \in 1..Len(s) /\ Tail(s)[i] = s[i + 1]
           /\ \A i \in 1..Len(s) :
                 i = 1 \/ \E j \in 1..Len(Tail(s)) : Tail(s)[j] = s[i]
<1>1. /\ Tail(s) \in Seq(S)
      /\ Len(Tail(s)) = Len(s) - 1
      /\ \A i \in 1..Len(Tail(s)) : Tail(s)[i] = s[i + 1]
  BY HeadTailProperties
<1>2. Len(s) \in Nat \ {0}
  BY EmptySeq
<1>3. Head(s) = s[1]
  OBVIOUS
<1>4. \A i \in 1..Len(Tail(s)) : i + 1 \in 1..Len(s)
  BY <1>1, <1>2
<1>5. ASSUME NEW i \in 1..Len(s), i # 1
      PROVE  \E j \in 1..Len(Tail(s)) : Tail(s)[j] = s[i]
  <2>1. i - 1 \in 1..Len(Tail(s)) /\ (i - 1) + 1 = i
    BY <1>1, <1>2, <1>5
  <2>2. QED
    BY <1>1, <2>1
<1>6. QED
  BY <1>1, <1>2, <1>3, <1>4, <1>5

-----------------------------------------------------------------------------
\* The variables keep their types, and the ledger stays finite.
LEMMA TypeStep == TypeOK /\ Finite /\ BatchInv /\ [Next]_vars => TypeOK' /\ Finite'
<1> SUFFICES ASSUME TypeOK, Finite, BatchInv, [Next]_vars
             PROVE  TypeOK' /\ Finite'
  OBVIOUS
<1> USE CapacityAssumption, TimesAssumption
<1> USE DEF TypeOK, Row, TaskPoints, tableVars, taskVars
<1>1. ASSUME NEW e \in Events, InsertEvent(e) PROVE TypeOK' /\ Finite'
  <2>1. PICK t \in Times :
           rows' = rows \cup {[id |-> nextId, event |-> e, time |-> t]}
    BY <1>1 DEF InsertEvent
  <2>2. Finite'
    BY <2>1, FS_AddElement DEF Finite
  <2>3. QED
    BY <1>1, <2>1, <2>2 DEF InsertEvent
<1>2. ASSUME DeleteRows PROVE TypeOK' /\ Finite'
  BY <1>2, FS_EmptySet DEF DeleteRows, Finite
<1>3. ASSUME Poll PROVE TypeOK' /\ Finite'
  <2>1. batch' \in Seq(rows)
    BY <1>3, PollReturnsNewRows DEF Poll
  <2>2. batch' \in Seq(Row)
    BY <2>1, SeqMonotonic
  <2>3. QED
    BY <1>3, <2>2 DEF Poll, Finite
<1>4. ASSUME PollFails PROVE TypeOK' /\ Finite'
  BY <1>4 DEF PollFails, Finite
<1>5. ASSUME SendRow PROVE TypeOK' /\ Finite'
  <2>0. batch # << >>
    BY <1>5 DEF SendRow, BatchInv
  <2>1. Head(batch) \in Row /\ Tail(batch) \in Seq(Row)
    BY <2>0, HeadTailProperties
  <2>2. cursor' \in Nat /\ Head(batch).event \in Events
    BY <1>5, <2>1 DEF SendRow, CursorAt
  <2>3. channel' \in Seq(Events \cup {"error"}) /\ Len(channel') <= CHANNEL_CAPACITY
    <3>1. PICK x \in Events \cup {"error"} : channel' = Append(channel, x)
      BY <1>5, <2>2 DEF SendRow
    <3>2. Len(channel) < CHANNEL_CAPACITY
      BY <1>5 DEF SendRow, SendReady
    <3>3. /\ Append(channel, x) \in Seq(Events \cup {"error"})
          /\ Len(Append(channel, x)) = Len(channel) + 1
      BY AppendProperties
    <3>4. QED
      BY <3>1, <3>2, <3>3, LenProperties
  <2>4. QED
    BY <1>5, <2>1, <2>2, <2>3 DEF SendRow, Finite
<1>6. ASSUME SendError PROVE TypeOK' /\ Finite'
  BY <1>6 DEF SendError, SendReady, Finite
<1>7. ASSUME SendToDropped PROVE TypeOK' /\ Finite'
  BY <1>7 DEF SendToDropped, Finite
<1>8. ASSUME Wake PROVE TypeOK' /\ Finite'
  BY <1>8 DEF Wake, Finite
<1>9. ASSUME Receive PROVE TypeOK' /\ Finite'
  <2>1. Tail(channel) \in Seq(Events \cup {"error"})
        /\ Len(Tail(channel)) <= CHANNEL_CAPACITY
    BY <1>9, HeadTailProperties DEF Receive
  <2>2. delivered' \in [Events -> Nat]
    BY <1>9 DEF Receive
  <2>3. QED
    BY <1>9, <2>1, <2>2 DEF Receive, Finite
<1>10. ASSUME DropReceiver PROVE TypeOK' /\ Finite'
  <2>1. << >> \in Seq(Events \cup {"error"}) /\ Len(<< >>) = 0
    BY EmptySeq
  <2>2. QED
    BY <1>10, <2>1 DEF DropReceiver, Finite
<1>11. ASSUME UNCHANGED vars PROVE TypeOK' /\ Finite'
  BY <1>11 DEF vars, Finite
<1>12. QED
  BY <1>1, <1>2, <1>3, <1>4, <1>5, <1>6, <1>7, <1>8, <1>9, <1>10, <1>11
  DEF Next, TaskStep

\* Poll fills the batch, SendRow empties it: the task's loop over a batch.
LEMMA BatchStep == TypeOK /\ BatchInv /\ [Next]_vars => BatchInv'
<1> SUFFICES ASSUME TypeOK, BatchInv, [Next]_vars
             PROVE  BatchInv'
  OBVIOUS
<1> USE DEF BatchInv, tableVars, taskVars
<1>1. CASE Poll
  BY <1>1 DEF Poll
<1>2. CASE SendRow
  BY <1>2 DEF SendRow
<1>3. CASE SendToDropped
  BY <1>3 DEF SendToDropped
<1>4. CASE Wake
  BY <1>4 DEF Wake
<1>5. CASE SendError \/ PollFails
  BY <1>5 DEF SendError, PollFails
<1>6. CASE UNCHANGED taskVars
  BY <1>6
<1>7. QED
  BY <1>1, <1>2, <1>3, <1>4, <1>5, <1>6
  DEF Next, TaskStep, vars, InsertEvent, DeleteRows, Receive, DropReceiver

\* Row ids only grow: the ledger's AUTOINCREMENT counter.
LEMMA IdStep == TypeOK /\ Finite /\ BatchInv /\ IdInv /\ [Next]_vars => IdInv'
<1> SUFFICES ASSUME TypeOK, Finite, BatchInv, IdInv, [Next]_vars
             PROVE  IdInv'
  OBVIOUS
<1> USE DEF tableVars, taskVars
<1>0. /\ nextId \in Nat /\ cursor \in Nat
      /\ \A r \in rows : r.id \in Nat
      /\ batch \in Seq(Row) /\ Len(batch) \in Nat
      /\ \A i \in 1..Len(batch) : batch[i].id \in Nat
  <2>1. batch \in Seq(Row) /\ nextId \in Nat /\ cursor \in Nat /\ rows \subseteq Row
    BY DEF TypeOK
  <2>2. \A i \in 1..Len(batch) : batch[i] \in Row
    BY <2>1, ElementOfSeq
  <2>3. \A r \in Row : r.id \in Nat
    BY DEF Row
  <2>4. QED
    BY <2>1, <2>2, <2>3, LenProperties
<1>1. ASSUME NEW e \in Events, InsertEvent(e) PROVE IdInv'
  <2>1. PICK t \in Times :
           rows' = rows \cup {[id |-> nextId, event |-> e, time |-> t]}
    BY <1>1 DEF InsertEvent
  <2>2. nextId' = nextId + 1 /\ UNCHANGED taskVars
    BY <1>1 DEF InsertEvent
  <2>3. \A r \in rows' : r.id < nextId'
    BY <1>0, <2>1, <2>2 DEF IdInv
  <2>4. QED
    BY <1>0, <2>2, <2>3 DEF IdInv
<1>2. CASE DeleteRows
  BY <1>2 DEF DeleteRows, IdInv
<1>3. CASE Poll
  <2>1. \A i \in 1..Len(batch') : batch'[i] \in rows
    BY <1>3, PollReturnsNewRows DEF Poll
  <2>2. QED
    BY <1>3, <2>1 DEF Poll, IdInv
<1>4. CASE SendRow
  <2>1. batch # << >>
    BY <1>4 DEF SendRow, BatchInv
  <2>2. /\ Head(batch) = batch[1] /\ 1 \in 1..Len(batch)
        /\ \A i \in 1..Len(Tail(batch)) :
              i + 1 \in 1..Len(batch) /\ Tail(batch)[i] = batch[i + 1]
    BY <1>0, <2>1, HeadThenTail
  <2>3. cursor' < nextId
    BY <1>4, <2>2 DEF SendRow, CursorAt, IdInv
  <2>4. \A i \in 1..Len(batch') : batch'[i].id < nextId
    BY <1>4, <2>2 DEF SendRow, IdInv
  <2>5. rows' = rows /\ nextId' = nextId
    BY <1>4 DEF SendRow
  <2>6. QED
    BY <2>3, <2>4, <2>5 DEF IdInv
<1>5. CASE UNCHANGED <<rows, nextId, cursor, batch>>
  BY <1>5 DEF IdInv
<1>6. QED
  BY <1>1, <1>2, <1>3, <1>4, <1>5
  DEF Next, TaskStep, vars, PollFails, SendError, SendToDropped, Wake, Receive,
      DropReceiver

-----------------------------------------------------------------------------
(***************************************************************************)
(* No row is skipped.                                                      *)
(***************************************************************************)

\* What is sent stays sent while the subscriber stays.
LEMMA SentStaysSent ==
    ASSUME TypeOK, BatchInv, [Next]_vars, receiver' = "open",
           NEW e \in Events, Sent(e)
    PROVE  Sent(e)'
<1> USE DEF tableVars, taskVars
<1>1. CASE UNCHANGED <<channel, delivered>>
  BY <1>1 DEF Sent
<1>2. ASSUME NEW x, channel' = Append(channel, x), UNCHANGED delivered,
             x \in Items
      PROVE  Sent(e)'
  <2>1. channel \in Seq(Items) /\ Len(channel) \in Nat
    BY LenProperties DEF TypeOK, Items
  <2>2. /\ Len(channel') = Len(channel) + 1
        /\ \A i \in 1..Len(channel) : channel'[i] = channel[i]
    BY <1>2, <2>1, AppendProperties
  <2>3. QED
    BY <1>2, <2>1, <2>2 DEF Sent
<1>3. CASE SendRow
  <2>1. batch # << >> /\ batch \in Seq(Row)
    BY <1>3 DEF SendRow, BatchInv, TypeOK
  <2>2. Head(batch).event \in Items
    <3>1. Head(batch) \in Row
      BY <2>1, HeadTailProperties
    <3>2. QED
      BY <3>1 DEF Row, Items
  <2>3. QED
    BY <1>2, <1>3, <2>2 DEF SendRow
<1>4. CASE SendError
  BY <1>2, <1>4 DEF SendError, Items
<1>5. CASE Receive
  <2>1. channel # << >> /\ channel \in Seq(Items)
    BY <1>5 DEF Receive, TypeOK, Items
  <2>2. channel' = Tail(channel)
    BY <1>5 DEF Receive
  <2>3. /\ Head(channel) = channel[1]
        /\ \A i \in 1..Len(channel) :
              i = 1 \/ \E j \in 1..Len(Tail(channel)) : Tail(channel)[j] = channel[i]
    BY <2>1, HeadThenTail
  <2>4. /\ \A f \in Events : delivered[f] \in Nat
        /\ delivered' = IF Head(channel) \in Events
                        THEN [delivered EXCEPT ![Head(channel)] = @ + 1]
                        ELSE delivered
    BY <1>5 DEF Receive, TypeOK
  <2>5. \A f \in Events : delivered'[f] >= delivered[f]
    BY <2>4 DEF TypeOK
  <2>6. CASE delivered[e] > 0
    BY <2>4, <2>5, <2>6 DEF Sent, TypeOK
  <2>7. ASSUME NEW i \in 1..Len(channel), channel[i] = e
        PROVE  Sent(e)'
    <3>1. CASE i = 1
      <4>1. delivered'[e] = delivered[e] + 1
        BY <2>3, <2>4, <2>7, <3>1 DEF TypeOK
      <4>2. QED
        BY <2>4, <4>1 DEF Sent
    <3>2. CASE i # 1
      <4>1. PICK j \in 1..Len(channel') : channel'[j] = e
        BY <2>2, <2>3, <2>7, <3>2
      <4>2. QED
        BY <4>1 DEF Sent
    <3>3. QED
      BY <3>1, <3>2
  <2>8. QED
    BY <2>6, <2>7 DEF Sent
<1>6. QED
  BY <1>1, <1>3, <1>4, <1>5
  DEF Next, TaskStep, vars, InsertEvent, DeleteRows, Poll, PollFails,
      SendToDropped, Wake, DropReceiver

\* A row inserted meanwhile is above every bound the task holds; a row in the
\* batch is sent or stays pending: the cursor's moves in the task's loop.
LEMMA CoverStep ==
    TypeOK /\ Finite /\ BatchInv /\ IdInv /\ CoverInv /\ [Next]_vars => CoverInv'
<1> SUFFICES ASSUME TypeOK, Finite, BatchInv, IdInv, CoverInv, [Next]_vars,
                    receiver' = "open"
             PROVE  /\ Covered(cursor)'
                    /\ \A i \in 1..Len(batch') : Covered(batch[i].id)'
  BY DEF CoverInv
<1> DEFINE Goal == /\ Covered(cursor)'
                   /\ \A i \in 1..Len(batch') : Covered(batch[i].id)'
<1>a. receiver = "open"
  BY DEF Next, TaskStep, vars, InsertEvent, DeleteRows, Poll, PollFails,
         SendRow, SendError, SendToDropped, Wake, Receive, DropReceiver,
         TypeOK, tableVars, taskVars
<1>b. /\ Covered(cursor)
      /\ \A i \in 1..Len(batch) : Covered(batch[i].id)
  BY <1>a DEF CoverInv
<1>c. \A r \in rows : Sent(r.event) => Sent(r.event)'
  <2>1. \A r \in rows : r.event \in Events
    BY DEF TypeOK, Row
  <2>2. QED
    BY <2>1, SentStaysSent
<1>d. /\ nextId \in Nat /\ cursor \in Nat /\ rows \subseteq Row
      /\ batch \in Seq(Row)
      /\ \A i \in 1..Len(batch) : batch[i].id \in Nat
  <2>1. batch \in Seq(Row)
    BY DEF TypeOK
  <2>2. \A i \in 1..Len(batch) : batch[i] \in Row
    BY <2>1, ElementOfSeq
  <2>3. QED
    BY <2>1, <2>2 DEF TypeOK, Row
<1>1. CASE rows' = rows /\ cursor' = cursor /\ batch' = batch
  BY <1>1, <1>b, <1>c DEF Covered, Pending
<1>2. ASSUME NEW e \in Events, InsertEvent(e) PROVE Goal
  <2>1. PICK t \in Times :
           rows' = rows \cup {[id |-> nextId, event |-> e, time |-> t]}
    BY <1>2 DEF InsertEvent
  <2>2. cursor' = cursor /\ batch' = batch
    BY <1>2 DEF InsertEvent, taskVars
  <2>3. \A r \in rows' : r.id < nextId => r \in rows
    BY <1>d, <2>1
  <2>4. ASSUME NEW bound \in Nat, bound < nextId, Covered(bound)
        PROVE  \A r \in rows' : r.id <= bound => Sent(r.event)' \/ Pending(r)'
    <3>1. \A r \in rows' : r.id \in Nat
      BY <1>d, <2>1 DEF Row
    <3>2. QED
      BY <1>c, <1>d, <2>2, <2>3, <2>4, <3>1 DEF Covered, Pending
  <2>5. Covered(cursor)'
    BY <1>b, <1>d, <2>2, <2>4 DEF Covered, IdInv
  <2>6. \A i \in 1..Len(batch') : Covered(batch[i].id)'
    BY <1>b, <1>d, <2>2, <2>4 DEF Covered, IdInv
  <2>7. QED
    BY <2>5, <2>6
<1>3. CASE DeleteRows
  BY <1>3 DEF DeleteRows, Covered
<1>4. CASE Poll
  <2>1. batch = << >> /\ cursor' = cursor /\ rows' = rows /\ batch' \in EventsAfter
    BY <1>4 DEF Poll, BatchInv, tableVars
  <2>2. /\ batch' \in Seq(rows)
        /\ \A r \in rows : Later(r) => \E i \in 1..Len(batch') : batch'[i] = r
    BY <2>1, PollReturnsNewRows
  <2>3. \A r \in rows : Sent(r.event)' \/ Pending(r)'
    <3> SUFFICES ASSUME NEW r \in rows PROVE Sent(r.event)' \/ Pending(r)'
      OBVIOUS
    <3>1. CASE Later(r)
      BY <2>2, <3>1 DEF Pending
    <3>2. CASE ~Later(r)
      <4>1. r.id <= cursor
        BY <1>d, <3>2 DEF Later, Row
      <4>2. ~Pending(r)
        BY <2>1, EmptySeq DEF Pending
      <4>3. QED
        BY <1>b, <1>c, <4>1, <4>2 DEF Covered
    <3>3. QED
      BY <3>1, <3>2
  <2>4. QED
    BY <2>1, <2>3 DEF Covered
<1>5. CASE SendRow
  <2>1. /\ batch # << >> /\ batch' = Tail(batch) /\ cursor' = Head(batch).id
        /\ channel' = Append(channel, Head(batch).event) /\ rows' = rows
    BY <1>5 DEF SendRow, BatchInv, CursorAt, tableVars
  <2>2. /\ Head(batch) = batch[1] /\ 1 \in 1..Len(batch)
        /\ \A i \in 1..Len(Tail(batch)) :
              i + 1 \in 1..Len(batch) /\ Tail(batch)[i] = batch[i + 1]
        /\ \A i \in 1..Len(batch) :
              i = 1 \/ \E j \in 1..Len(Tail(batch)) : Tail(batch)[j] = batch[i]
    BY <1>d, <2>1, HeadThenTail
  <2>h. PICK h \in Row : h = Head(batch)
    BY <1>d, <2>1, HeadTailProperties
  <2>3. Sent(h.event)'
    <3>1. channel \in Seq(Items)
      BY DEF TypeOK, Items
    <3>2. h.event \in Items
      BY DEF Row, Items
    <3>3. /\ Len(channel') = Len(channel) + 1 /\ Len(channel) \in Nat
          /\ channel'[Len(channel) + 1] = h.event
      BY <2>1, <2>h, <3>1, <3>2, AppendProperties, LenProperties
    <3>4. Len(channel) + 1 \in 1..Len(channel')
      BY <3>3
    <3>5. QED
      BY <3>3, <3>4 DEF Sent
  <2>4. ASSUME NEW r \in rows, Sent(r.event) \/ Pending(r)
        PROVE  Sent(r.event)' \/ Pending(r)'
    <3>1. CASE Sent(r.event)
      BY <1>c, <3>1 DEF Sent
    <3>2. CASE Pending(r)
      <4>1. PICK i \in 1..Len(batch) : batch[i] = r
        BY <3>2 DEF Pending
      <4>2. CASE i = 1
        <5>1. r = h
          BY <2>2, <2>h, <4>1, <4>2
        <5>2. QED
          BY <2>3, <5>1 DEF Sent
      <4>3. CASE i # 1
        <5>1. \E j \in 1..Len(batch') : batch'[j] = r
          BY <2>1, <2>2, <4>1, <4>3
        <5>2. QED
          BY <5>1 DEF Pending
      <4>4. QED
        BY <4>2, <4>3
    <3>3. QED
      BY <2>4, <3>1, <3>2
  <2>5. Covered(cursor)'
    BY <1>b, <2>1, <2>2, <2>4 DEF Covered
  <2>6. \A i \in 1..Len(batch') : Covered(batch[i].id)'
    BY <1>b, <2>1, <2>2, <2>4 DEF Covered
  <2>7. QED
    BY <2>5, <2>6
<1>6. QED
  BY <1>1, <1>2, <1>3, <1>4, <1>5
  DEF Next, TaskStep, vars, PollFails, SendError, SendToDropped, Wake, Receive,
      DropReceiver, tableVars, taskVars

-----------------------------------------------------------------------------
\* All that the proof of NoRowSkipped needs.
TailInv == TypeOK /\ Finite /\ BatchInv /\ IdInv /\ CoverInv

\* The inductive invariant of the tail, the types among its parts.
THEOREM TailSafe == Spec => []TailInv
<1>1. Init => TailInv
  <2> SUFFICES ASSUME Init PROVE TailInv
    OBVIOUS
  <2>1. \A S : << >> \in Seq(S) /\ Len(<< >>) = 0
    BY EmptySeq
  <2>2. TypeOK
    BY <2>1, CapacityAssumption DEF Init, TypeOK, TaskPoints
  <2>3. Finite /\ BatchInv
    BY FS_EmptySet DEF Init, Finite, BatchInv
  <2>4. IdInv /\ CoverInv
    BY <2>1 DEF Init, IdInv, CoverInv, Covered
  <2>5. QED
    BY <2>2, <2>3, <2>4 DEF TailInv
<1>2. TailInv /\ [Next]_vars => TailInv'
  BY TypeStep, BatchStep, IdStep, CoverStep DEF TailInv
<1>3. QED
  BY <1>1, <1>2, PTL DEF Spec

\* EventTail!TypeOK, for any events and any channel capacity.
COROLLARY TypeCorrect == Spec => []TypeOK
<1>1. TailInv => TypeOK
  BY DEF TailInv
<1>2. QED
  BY <1>1, TailSafe, PTL

\* EventTail!NoRowSkipped: the tail misses no row, in whatever order
\* timestamps and row ids come.
COROLLARY NoRowSkippedHolds == Spec => []NoRowSkipped
<1>1. TailInv => NoRowSkipped
  BY DEF TailInv, CoverInv, Covered, NoRowSkipped
<1>2. QED
  BY <1>1, TailSafe, PTL
=============================================================================
