----------------------------- MODULE EventTail -----------------------------
(***************************************************************************)
(* The live tail of one trajectory's events over the Turso ledger:         *)
(* TrajectoryStore::spawn_trajectory_event_stream, the task it spawns, the *)
(* bounded channel to its subscriber, and the writers whose rows it reads. *)
(*                                                                         *)
(* An event is stamped with the wall clock by the host process that makes  *)
(* it and given its row id when it is inserted.  Hooks of one session run  *)
(* in processes of their own, so rows need not be inserted in the order of *)
(* their timestamps.                                                       *)
(***************************************************************************)
EXTENDS Integers, FiniteSets, Sequences

CONSTANTS
    Events,   \* the events of the tailed trajectory
    Times,    \* the timestamps they may carry
    CHANNEL_CAPACITY

ASSUME CapacityAssumption == CHANNEL_CAPACITY \in Nat \ {0}
ASSUME TimesAssumption == Times \subseteq Nat

VARIABLES
    rows,       \* the trajectory's rows of trajectory_events
    nextId,     \* the AUTOINCREMENT counter: ids are never used twice
    submitted,  \* events that have been inserted, deleted since or not
    task,       \* where the polling task stands
    cursor,     \* the row id the next poll reads from
    batch,      \* rows of the current poll still to be sent
    channel,    \* the bounded channel
    receiver,   \* "open" or "dropped" by the subscriber
    delivered   \* per event, how often the subscriber has received it

tableVars == <<rows, nextId, submitted>>
taskVars == <<task, cursor, batch>>
vars == <<tableVars, taskVars, channel, receiver, delivered>>

Row == [id : Nat \ {0}, event : Events, time : Times]

TaskPoints == {"poll", "send", "fail", "sleep", "done"}

Init ==
    /\ rows = {}
    /\ nextId = 1
    /\ submitted = {}
    /\ task = "poll"
    /\ cursor = 0
    /\ batch = << >>
    /\ channel = << >>
    /\ receiver = "open"
    /\ delivered = [e \in Events |-> 0]

-----------------------------------------------------------------------------
(***************************************************************************)
(* The ledger's writers.                                                   *)
(***************************************************************************)
InsertEvent(e) ==
    /\ e \notin submitted
    /\ \E t \in Times :
          rows' = rows \cup {[id |-> nextId, event |-> e, time |-> t]}
    /\ nextId' = nextId + 1
    /\ submitted' = submitted \cup {e}
    /\ UNCHANGED <<taskVars, channel, receiver, delivered>>

\* delete_trajectory, or delete_agent of the agent whose run it is.
DeleteRows ==
    /\ rows # {}
    /\ rows' = {}
    /\ UNCHANGED <<nextId, submitted, taskVars, channel, receiver, delivered>>

-----------------------------------------------------------------------------
(***************************************************************************)
(* The polling task.                                                       *)
(***************************************************************************)
Later(r) == r.id > cursor

\* EVENT_ORDER: by wall-clock time, then by insertion.
InEventOrder(r, s) == r.time < s.time \/ (r.time = s.time /\ r.id < s.id)

\* events_after: the rows past the cursor, all of them, in that order.
EventsAfter ==
    LET new == {r \in rows : Later(r)}
    IN  {s \in [1..Cardinality(new) -> new] :
            /\ \A r \in new : \E i \in DOMAIN s : s[i] = r
            /\ \A i, j \in DOMAIN s : i < j => InEventOrder(s[i], s[j])}

Poll ==
    /\ task = "poll"
    /\ batch' \in EventsAfter
    /\ task' = IF batch' = << >> THEN "sleep" ELSE "send"
    /\ UNCHANGED <<tableVars, cursor, channel, receiver, delivered>>

\* events_after fails: the error is the stream's last item.
PollFails ==
    /\ task = "poll"
    /\ task' = "fail"
    /\ UNCHANGED <<tableVars, cursor, batch, channel, receiver, delivered>>

SendReady == receiver = "open" /\ Len(channel) < CHANNEL_CAPACITY

CursorPast(r) == r.id + 1   \* a mutant of CursorAt
CursorAt(r) == r.id

SendRow ==
    /\ task = "send"
    /\ SendReady
    /\ channel' = Append(channel, Head(batch).event)
    /\ cursor' = CursorAt(Head(batch))
    /\ batch' = Tail(batch)
    /\ task' = IF Tail(batch) = << >> THEN "sleep" ELSE "send"
    /\ UNCHANGED <<tableVars, receiver, delivered>>

SendError ==
    /\ task = "fail"
    /\ SendReady
    /\ channel' = Append(channel, "error")
    /\ task' = "done"
    /\ UNCHANGED <<tableVars, cursor, batch, receiver, delivered>>

SendToDropped ==
    /\ task \in {"send", "fail"}
    /\ receiver = "dropped"
    /\ task' = "done"
    /\ UNCHANGED <<tableVars, cursor, batch, channel, receiver, delivered>>

Wake ==
    /\ task = "sleep"
    /\ task' = "poll"
    /\ UNCHANGED <<tableVars, cursor, batch, channel, receiver, delivered>>

TaskStep == Poll \/ SendRow \/ SendError \/ SendToDropped \/ Wake

-----------------------------------------------------------------------------
(***************************************************************************)
(* The subscriber.                                                         *)
(***************************************************************************)
Receive ==
    /\ receiver = "open"
    /\ channel # << >>
    /\ channel' = Tail(channel)
    /\ delivered' = IF Head(channel) \in Events
                    THEN [delivered EXCEPT ![Head(channel)] = @ + 1]
                    ELSE delivered
    /\ UNCHANGED <<tableVars, taskVars, receiver>>

DropReceiver ==
    /\ receiver = "open"
    /\ receiver' = "dropped"
    /\ channel' = << >>
    /\ UNCHANGED <<tableVars, taskVars, delivered>>

Next ==
    \/ \E e \in Events : InsertEvent(e)
    \/ DeleteRows
    \/ TaskStep
    \/ PollFails
    \/ Receive
    \/ DropReceiver

Spec == Init /\ [][Next]_vars

\* The runtime polls the task whenever it can go on; the subscriber keeps
\* reading until it drops the stream.
FairSpec == Spec /\ WF_vars(TaskStep) /\ WF_vars(Receive)

-----------------------------------------------------------------------------
(***************************************************************************)
(* Properties.                                                             *)
(***************************************************************************)
Sent(e) == delivered[e] > 0 \/ \E i \in 1..Len(channel) : channel[i] = e
Pending(r) == \E i \in 1..Len(batch) : batch[i] = r

\* The types of the variables.
TypeOK ==
    /\ rows \subseteq Row
    /\ nextId \in Nat \ {0}
    /\ submitted \subseteq Events
    /\ task \in TaskPoints
    /\ cursor \in Nat
    /\ batch \in Seq(Row)
    /\ channel \in Seq(Events \cup {"error"}) /\ Len(channel) <= CHANNEL_CAPACITY
    /\ receiver \in {"open", "dropped"}
    /\ delivered \in [Events -> Nat]

\* The cursor never passes a row that was not sent: whatever the order of the
\* timestamps, a row at or below the cursor has been sent or is about to be.
NoRowSkipped ==
    receiver = "open" =>
        \A r \in rows : r.id <= cursor => Sent(r.event) \/ Pending(r)

\* Every row that stays in the ledger reaches a subscriber that stays.
EveryRowDelivered ==
    \A e \in Events :
        e \in submitted ~> \/ delivered[e] > 0
                           \/ \A r \in rows : r.event # e
                           \/ receiver = "dropped" \/ task \in {"fail", "done"}
=============================================================================
