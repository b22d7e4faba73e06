----------------------------- MODULE ClaudeStop -----------------------------
(***************************************************************************)
(* Claude Code's Stop hook: it reads the end of the transcript, which the  *)
(* host writes late and in pieces, records each thought and reply once,    *)
(* and keeps two cursors on disk, the stored one and one for a retry.  The *)
(* host waits for the hook, so Stops of a session never overlap.  Offsets  *)
(* count lines; a line is written whole.                                   *)
(***************************************************************************)
EXTENDS Naturals, Sequences, FiniteSets, FiniteSetsExt, TLC

CONSTANTS
    Shapes,      \* the lines a turn can append after its prompt
    Texts,       \* what a reply can say
    BatchSize,   \* STOP_TRANSCRIPT_ADJUDICATE_BATCH_SIZE
    MaxShape,    \* the length of the longest shape
    MaxTurns, MaxFaults

None == "none"
Kinds == {"user", "tool", "thought", "reply"}

ASSUME ShapesAssumption ==
    \A s \in Shapes : s \in Seq(Kinds) /\ Len(s) <= MaxShape
ASSUME BoundsAssumption ==
    {BatchSize, MaxShape, MaxTurns, MaxFaults} \subseteq Nat

VARIABLES
    lines,      \* what the host wrote or will: [kind, turn, text]
    flushed,    \* how many of them are in the file
    turns, faults,
    named,      \* whether the session's events name the transcript
    cursor, retry,   \* the two cursor files; 0 is a file that is not there
    recorded,   \* how often each line was recorded from the transcript
    owed,       \* lines of a failed adjudication, left to the retry cursor
    pc,
    from, through,   \* where this Stop reads from, and to
    pending     \* the lines it has yet to submit
disk == <<cursor, retry>>
host == <<lines, flushed, turns, named>>
vars == <<host, faults, disk, recorded, owed, pc, from, through, pending>>

MaxLines == MaxTurns * (MaxShape + 1)
Lines == [kind : Kinds, turn : 1..MaxTurns, text : Texts]

\* A cursor never points past the end of the file.
TypeOK ==
    /\ lines \in Seq(Lines) /\ Len(lines) <= MaxLines
    /\ flushed \in 0..Len(lines)
    /\ turns \in 0..MaxTurns
    /\ faults \in 0..MaxFaults
    /\ named \in BOOLEAN
    /\ cursor \in 0..flushed /\ retry \in 0..flushed
    /\ from \in 0..flushed /\ through \in 0..flushed
    /\ recorded \in [1..MaxLines -> 0..2]
    /\ owed \subseteq 1..flushed
    /\ pc \in {"idle", "start", "polling", "reading", "recording", "sending",
                "retrying", "committing", "clearing"}
    /\ pending \subseteq 1..flushed

-----------------------------------------------------------------------------
InFile == 1..flushed
Extractable(i) == lines[i].kind \in {"thought", "reply"}

\* The lines a read from offset c extracts, in file order.
Extracted(c) == {i \in InFile : i > c /\ Extractable(i)}

\* last_assistant_turn_start: the offset of the run of assistant lines that
\* holds the last extractable one.  A user line ends a run.
LastExtractable == Max(Extracted(0))
TurnStart ==
    Max({i \in 1..LastExtractable : lines[i].kind = "user"} \cup {0})
NoAssistantTurn == Extracted(0) = {}

\* newest_assistant_reply.
NewestReply(c) ==
    LET replies == {i \in Extracted(c) : lines[i].kind = "reply"}
    IN  IF replies = {} THEN None ELSE lines[Max(replies)].text

\* last_assistant_message, if the turn ended with one.
Payload == LET last == lines[Len(lines)]
           IN  IF last.kind = "reply" THEN last.text ELSE None

\* Mutant: a retry cursor counts only inside the latest turn.
RetryActiveInTurn == retry > TurnStart /\ retry < flushed

\* read_retry_cursor_if_active.
RetryActive == retry > 0 /\ retry < flushed

\* Mutant: every Stop reads its turn from the start.
ReadFromTurnStart == IF RetryActive THEN retry ELSE TurnStart

\* resolve_stop_read_plan: a pending retry, else the stored cursor if it lies
\* inside the latest turn, else the start of that turn.
ReadFrom ==
    IF RetryActive THEN retry
    ELSE IF cursor > TurnStart /\ cursor <= flushed
    THEN cursor
    ELSE TurnStart

-----------------------------------------------------------------------------
Init ==
    /\ lines = << >> /\ flushed = 0 /\ turns = 0 /\ faults = 0
    /\ named \in BOOLEAN
    /\ cursor = 0 /\ retry = 0
    /\ recorded = [i \in 1..MaxLines |-> 0]
    /\ owed = {}
    /\ pc = "idle" /\ from = 0 /\ through = 0 /\ pending = {}

Go(next) == pc' = next
IdleSpan == from' = 0 /\ through' = 0 /\ pending' = {}
KeepSpan == UNCHANGED <<from, through, pending>>
Fault == faults < MaxFaults /\ faults' = faults + 1

\* The host appends a turn and runs the Stop hook.  A turn that the user
\* interrupts, or whose hook cannot connect, has none.
Turn ==
    /\ pc = "idle"
    /\ turns < MaxTurns
    /\ \E s \in Shapes, t \in Texts, stops \in BOOLEAN :
        /\ lines' = lines \o <<[kind |-> "user", turn |-> turns + 1, text |-> t]>>
                    \o [i \in 1..Len(s) |->
                            [kind |-> s[i], turn |-> turns + 1, text |-> t]]
        /\ Go(IF stops THEN "start" ELSE "idle")
    /\ turns' = turns + 1
    /\ UNCHANGED <<flushed, named, faults, disk, recorded, owed, from, through, pending>>

Flush ==
    /\ flushed < Len(lines)
    /\ flushed' = flushed + 1
    /\ UNCHANGED <<lines, turns, named, faults, disk, recorded, owed, pc, from, through, pending>>

\* handle_stop: a Stop that is already active is let through.
StopActive ==
    /\ pc = "start"
    /\ Go("idle")
    /\ UNCHANGED <<host, faults, disk, recorded, owed>>
    /\ KeepSpan

\* collect_stop_events: with a payload wait for its reply, else read at once.
StartReading ==
    /\ pc = "start" /\ named
    /\ \/ Payload # None /\ Go("polling") /\ UNCHANGED <<disk, from>>
       \/ /\ Payload = None /\ NoAssistantTurn
          /\ cursor' = flushed /\ retry' = 0
          /\ Go("idle") /\ UNCHANGED from
       \/ /\ Payload = None /\ ~NoAssistantTurn
          /\ from' = ReadFrom
          /\ Go("reading") /\ UNCHANGED disk
    /\ UNCHANGED <<host, faults, recorded, owed, through, pending>>

\* An event without a path has only its payload.
NoPath ==
    /\ pc = "start" /\ ~named
    /\ Go(IF Payload # None THEN "recording" ELSE "idle")
    /\ UNCHANGED <<host, faults, disk, recorded, owed>>
    /\ KeepSpan

\* wait_for_transcript_catch_up.
CatchUp ==
    /\ pc = "polling"
    /\ ~NoAssistantTurn
    /\ NewestReply(ReadFrom) = Payload
    /\ from' = ReadFrom
    /\ Go("reading")
    /\ UNCHANGED <<host, faults, disk, recorded, owed, through, pending>>

\* handle_catch_up_timeout: the payload is recorded, unless a retry will read
\* this turn.
CatchUpTimesOut ==
    /\ pc = "polling"
    /\ Fault
    /\ IF NoAssistantTurn THEN cursor' = flushed /\ retry' = 0
       ELSE UNCHANGED disk
    /\ Go(IF ~NoAssistantTurn /\ RetryActive THEN "idle" ELSE "recording")
    /\ UNCHANGED <<host, recorded, owed>>
    /\ KeepSpan

\* A transcript that cannot be read leaves the same choice, with any retry
\* cursor taken for pending.
Unreadable ==
    /\ pc = "polling"
    /\ Fault
    /\ Go(IF retry > 0 THEN "idle" ELSE "recording")
    /\ UNCHANGED <<host, disk, recorded, owed>>
    /\ KeepSpan

\* record_last_assistant_message: a failure is logged.
RecordPayload ==
    /\ pc = "recording"
    /\ Go("idle")
    /\ UNCHANGED <<host, faults, disk, recorded, owed>>
    /\ IdleSpan

RecordPayloadFails ==
    /\ pc = "recording"
    /\ Fault
    /\ Go("idle")
    /\ UNCHANGED <<host, disk, recorded, owed>>
    /\ IdleSpan

\* read_stop_events_from.
Read ==
    /\ pc = "reading"
    /\ IF Extracted(from) = {}
       THEN /\ cursor' = IF flushed > from THEN flushed ELSE cursor
            /\ retry' = 0
            /\ Go("idle") /\ IdleSpan
       ELSE /\ pending' = Extracted(from)
            /\ through' = Max(Extracted(from))
            /\ Go("sending") /\ UNCHANGED <<disk, from>>
    /\ UNCHANGED <<host, faults, recorded, owed>>

\* The next of the batches that adjudicate_stop_transcript_events sends.
Batch == {i \in pending :
            Cardinality({j \in pending : j < i}) < BatchSize}
Record(batch) ==
    recorded' = [i \in DOMAIN recorded |->
                    IF i \in batch /\ recorded[i] < 2 THEN recorded[i] + 1
                    ELSE recorded[i]]

SendBatch ==
    /\ pc = "sending"
    /\ Record(Batch)
    /\ pending' = pending \ Batch
    /\ Go(IF pending' = {} THEN "committing" ELSE "sending")
    /\ UNCHANGED <<host, faults, disk, owed, from, through>>

\* The call fails or times out, after the harness recorded some of the batch.
SendFails ==
    /\ pc = "sending"
    /\ Fault
    /\ \E last \in Batch \cup {0} : Record({i \in Batch : i <= last})
    /\ Go("retrying")
    /\ UNCHANGED <<host, disk, owed, from, through, pending>>

\* Leaving the cursor retryable.  Writing a cursor file may fail.
WriteRetry ==
    /\ pc = "retrying"
    /\ retry' = from
    /\ owed' = owed \cup {i \in Extracted(from) : i <= through}
    /\ Go("idle")
    /\ UNCHANGED <<host, faults, cursor, recorded>>
    /\ IdleSpan

CommitOffset == through

\* write_cursor, then remove_retry_cursor.
Commit ==
    /\ pc = "committing"
    /\ cursor' = CommitOffset
    /\ Go("clearing")
    /\ UNCHANGED <<host, faults, retry, recorded, owed, from, through, pending>>

ClearRetry ==
    /\ pc = "clearing"
    /\ retry' = 0
    /\ Go("idle")
    /\ UNCHANGED <<host, faults, cursor, recorded, owed>>
    /\ IdleSpan

\* A write fails, or the hook's budget or the host ends the process.
Dies ==
    /\ pc # "idle"
    /\ Fault
    /\ Go("idle")
    /\ UNCHANGED <<host, disk, recorded, owed>>
    /\ IdleSpan

HookStep ==
    \/ StopActive \/ StartReading \/ NoPath
    \/ CatchUp \/ CatchUpTimesOut \/ Unreadable
    \/ RecordPayload \/ RecordPayloadFails \/ Read \/ SendBatch \/ SendFails
    \/ WriteRetry \/ Commit \/ ClearRetry \/ Dies

Next == Turn \/ Flush \/ HookStep

Spec == Init /\ [][Next]_vars

-----------------------------------------------------------------------------
\* Lines whose adjudication failed stay within reach of the retry cursor until
\* a later Stop has recorded them, whatever that Stop meets; and the stored cursor
\* passes no line of the latest turn that is neither recorded nor so left.
NoTailLost ==
    LET Kept(i) == recorded[i] > 0 \/ (retry > 0 /\ retry < i)
    IN  /\ \A i \in owed : Kept(i)
        /\ cursor > 0 /\ ~NoAssistantTurn =>
               \A i \in Extracted(TurnStart) : i <= cursor => Kept(i)

\* Without failures, kills or late transcripts no line is recorded twice.
OnceWithoutFaults ==
    faults = 0 => \A i \in DOMAIN recorded : recorded[i] <= 1

-----------------------------------------------------------------------------
\* Turns for TLC: a thought and a reply, a reply split by a tool call, and turns
\* that end without a message for the payload.
SomeShapes == {<<"thought", "reply">>,
               <<"reply", "tool", "user", "reply">>,
               <<"thought", "thought", "tool">>}

\* What replies say only matters as equal or different.
TextSymmetry == Permutations(Texts)
=============================================================================
