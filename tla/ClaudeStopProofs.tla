-------------------------- MODULE ClaudeStopProofs --------------------------
(***************************************************************************)
(* Proofs about ClaudeStop, for any shapes of turns, texts and sizes of    *)
(* batches, and for any number of turns and faults.                        *)
(***************************************************************************)
EXTENDS ClaudeStop, SequenceTheorems, WellFoundedInduction, TLAPS

USE ShapesAssumption, BoundsAssumption

\* The extractable lines of the latest turn, and the lines that are recorded or
\* within reach of the retry cursor.
InTurn == IF NoAssistantTurn THEN {} ELSE Extracted(TurnStart)
Sent == {i \in DOMAIN recorded : recorded[i] > 0}
Kept(i) == i \in Sent \/ (retry > 0 /\ retry < i)

Sending == {"sending", "retrying", "committing", "clearing"}

\* Every turn begins with a user line, so no turn starts at offset 0.
HostInv ==
    /\ Len(lines) <= turns * (MaxShape + 1)
    /\ lines # << >> => lines[1].kind = "user"

\* What each cursor has behind it: of the latest turn, nothing that is neither
\* recorded nor within reach of a retry.
CursorInv ==
    /\ \A i \in owed : Extractable(i) /\ Kept(i)
    /\ \A i \in InTurn : i <= cursor => Kept(i)
    /\ \A i \in InTurn : i <= retry => i \in Sent

\* A Stop reads from an offset that has nothing unrecorded behind it, and while
\* it sends, what it read is sent or pending.
SpanInv ==
    /\ pc \in Sending \cup {"reading"} =>
        /\ from > 0
        /\ \A i \in owed : i \in Sent \/ i > from
        /\ \A i \in InTurn : i <= from => i \in Sent
    /\ pc \in Sending =>
        /\ \A i \in Extracted(from) : i <= through => i \in pending \cup Sent
        /\ \A i \in owed : i \in Sent \/ i <= through
        /\ \A i \in pending : i <= through
    /\ pc \in {"committing", "clearing"} => pending = {}
    /\ pc = "clearing" => cursor = through

TailInv == TypeOK /\ HostInv /\ CursorInv /\ SpanInv

\* While nothing failed there is no retry, and what is recorded is behind the
\* stored cursor, or is of this Stop and no longer pending.
OnceInv ==
    faults = 0 =>
        /\ retry = 0
        /\ pc # "retrying"
        /\ \A i \in Sent : recorded[i] = 1
        /\ pc \notin Sending \cup {"reading"} => \A i \in Sent : i <= cursor
        /\ pc = "reading" => \A i \in Sent : i <= from /\ i <= cursor
        /\ pc \in Sending => \A i \in Sent : i <= through /\ i \notin pending

-----------------------------------------------------------------------------
\* A set of offsets of the file has a greatest one.
LEMMA MaxOfOffsets ==
    ASSUME NEW n \in Nat, NEW S, S \subseteq 0..n, S # {}
    PROVE  Max(S) \in S /\ \A i \in S : i <= Max(S)
<1> DEFINE T == {n - i : i \in S}
           less == OpToRel(<, Nat)
<1>1. T \subseteq Nat /\ T # {}
  <2>1. \A i \in S : n - i \in Nat
    OBVIOUS
  <2>2. PICK i \in S : TRUE
    OBVIOUS
  <2>3. n - i \in T
    OBVIOUS
  <2>4. QED
    BY <2>1, <2>3
<1>2. PICK x \in T : \A y \in T : ~(<<y, x>> \in less)
  BY <1>1, NatLessThanWellFounded, WFMin
<1>3. \A y \in T : ~(y < x)
  BY <1>1, <1>2 DEF OpToRel
<1>4. PICK i \in S : x = n - i
  OBVIOUS
<1>5. \A j \in S : i >= j
  <2> SUFFICES ASSUME NEW j \in S PROVE i >= j
    OBVIOUS
  <2>1. n - j \in T
    OBVIOUS
  <2>2. ~(n - j < n - i)
    BY <1>3, <1>4, <2>1
  <2>3. QED
    BY <2>2
<1>6. Max(S) \in S /\ \A j \in S : Max(S) >= j
  BY <1>5 DEF Max
<1>7. QED
  BY <1>6

\* The latest turn starts behind a user line, with no other before its last
\* extractable line.
TurnIsLatest ==
    ~NoAssistantTurn =>
        /\ LastExtractable \in Extracted(0)
        /\ \A i \in Extracted(0) : i <= LastExtractable
        /\ TurnStart \in 1..LastExtractable
        /\ lines[TurnStart].kind = "user"
        /\ \A i \in 1..LastExtractable : lines[i].kind = "user" => i <= TurnStart

LEMMA TurnStarts == TypeOK /\ HostInv => TurnIsLatest
<1> SUFFICES ASSUME TypeOK, HostInv, ~NoAssistantTurn
             PROVE  TurnIsLatest
  BY DEF TurnIsLatest
<1> USE DEF TypeOK
<1>1. Extracted(0) \subseteq 0..flushed /\ Extracted(0) # {} /\ flushed \in Nat
  BY DEF NoAssistantTurn, Extracted, InFile
<1>2. LastExtractable \in Extracted(0) /\ \A i \in Extracted(0) : i <= LastExtractable
  BY <1>1, MaxOfOffsets DEF LastExtractable
<1>3. LastExtractable \in 1..flushed
  BY <1>2 DEF Extracted, InFile
<1> DEFINE users == {i \in 1..LastExtractable : lines[i].kind = "user"} \cup {0}
<1>4. Max(users) \in users /\ \A i \in users : i <= Max(users)
  <2>1. users \subseteq 0..LastExtractable /\ users # {} /\ LastExtractable \in Nat
    BY <1>3
  <2>2. QED
    BY <2>1, MaxOfOffsets
<1>5. 1 \in users
  BY <1>3 DEF HostInv
<1>6. Max(users) # 0
  BY <1>4, <1>5
<1>7. TurnStart = Max(users)
  BY DEF TurnStart
<1>8. QED
  BY <1>2, <1>4, <1>6, <1>7 DEF TurnIsLatest

-----------------------------------------------------------------------------
LEMMA Products ==
    ASSUME NEW w \in Nat, NEW m \in Nat, NEW n \in Nat, m <= n
    PROVE  m * w \in Nat /\ n * w \in Nat /\ m * w <= n * w /\ (m + 1) * w = m * w + w
<1>1. PICK d \in Nat : n = m + d
  <2>1. n = m + (n - m) /\ n - m \in Nat
    OBVIOUS
  <2>2. QED
    BY <2>1
<1>2. n * w = m * w + d * w /\ d * w \in Nat /\ m * w \in Nat
  BY <1>1
<1>3. QED
  BY <1>2

\* One element and then a sequence, appended.
LEMMA TwoAppended ==
    ASSUME NEW S, NEW a \in Seq(S), NEW p \in S, NEW r \in Seq(S),
           NEW whole, whole = a \o <<p>> \o r
    PROVE  /\ whole \in Seq(S) /\ Len(whole) = Len(a) + 1 + Len(r)
           /\ \A i \in 1..Len(a) : whole[i] = a[i]
           /\ whole[Len(a) + 1] = p
<1>1. /\ Append(a, p) \in Seq(S) /\ Len(Append(a, p)) = Len(a) + 1
      /\ \A i \in 1..Len(a) : Append(a, p)[i] = a[i]
      /\ Append(a, p)[Len(a) + 1] = p
  OBVIOUS
<1>2. a \o <<p>> = Append(a, p)
  BY AppendIsConcat
<1>3. /\ Append(a, p) \o r \in Seq(S) /\ Len(Append(a, p) \o r) = Len(a) + 1 + Len(r)
      /\ \A i \in 1..Len(a) + 1 : (Append(a, p) \o r)[i] = Append(a, p)[i]
  BY <1>1, ConcatProperties
<1>4. Len(a) \in Nat
  OBVIOUS
<1>5. QED
  BY <1>1, <1>2, <1>3, <1>4

LEMMA TurnAppends ==
    ASSUME TypeOK, HostInv, Turn
    PROVE  /\ lines' \in Seq(Lines)
           /\ Len(lines') \in Len(lines) + 1..(turns + 1) * (MaxShape + 1)
           /\ Len(lines') <= MaxLines
           /\ \A i \in 1..Len(lines) : lines'[i] = lines[i]
           /\ lines'[Len(lines) + 1].kind = "user"
<1>0. /\ lines \in Seq(Lines) /\ Len(lines) \in Nat
      /\ turns \in Nat /\ turns < MaxTurns
  BY DEF TypeOK, Turn
<1>1. PICK s \in Shapes, t \in Texts :
          lines' = lines \o <<[kind |-> "user", turn |-> turns + 1, text |-> t]>>
                     \o [i \in 1..Len(s) |->
                             [kind |-> s[i], turn |-> turns + 1, text |-> t]]
  BY DEF Turn
<1> DEFINE prompt == [kind |-> "user", turn |-> turns + 1, text |-> t]
           rest == [i \in 1..Len(s) |-> [kind |-> s[i], turn |-> turns + 1, text |-> t]]
<1>2. s \in Seq(Kinds) /\ Len(s) \in 0..MaxShape /\ turns + 1 \in 1..MaxTurns
  BY <1>0
<1>3. prompt \in Lines /\ prompt.kind = "user"
  BY <1>2 DEF Lines, Kinds
<1>4. rest \in Seq(Lines) /\ Len(rest) = Len(s)
  <2>1. \A i \in 1..Len(s) : s[i] \in Kinds /\ rest[i] \in Lines
    BY <1>2 DEF Lines
  <2>2. rest \in [1..Len(s) -> Lines] /\ Len(s) \in Nat
    BY <1>2, <2>1
  <2> HIDE DEF rest
  <2>3. rest \in Seq(Lines)
    <3>1. \E n \in Nat : rest \in [1..n -> Lines]
      BY <2>2
    <3>2. QED
      BY <3>1, SeqDef, Zenon
  <2>4. DOMAIN rest = 1..Len(rest) /\ DOMAIN rest = 1..Len(s) /\ Len(rest) \in Nat
    BY <2>2, <2>3, LenProperties
  <2>5. QED
    BY <2>2, <2>3, <2>4
<1>5. PICK p \in Lines, r \in Seq(Lines) :
          p.kind = "user" /\ Len(r) = Len(s) /\ lines' = lines \o <<p>> \o r
  BY <1>1, <1>3, <1>4
<1>6. /\ lines' \in Seq(Lines) /\ Len(lines') = Len(lines) + 1 + Len(s)
      /\ \A i \in 1..Len(lines) : lines'[i] = lines[i]
      /\ lines'[Len(lines) + 1] = p
  <2>1. lines \in Seq(Lines) /\ p \in Lines /\ r \in Seq(Lines)
    BY <1>0, <1>5
  <2>2. lines' = lines \o <<p>> \o r
    BY <1>5
  <2>3. /\ lines' \in Seq(Lines) /\ Len(lines') = Len(lines) + 1 + Len(r)
        /\ \A i \in 1..Len(lines) : lines'[i] = lines[i]
        /\ lines'[Len(lines) + 1] = p
    BY <2>1, <2>2, TwoAppended
  <2>4. QED
    BY <1>5, <2>3
<1> DEFINE w == MaxShape + 1
<1>8. /\ turns * w \in Nat /\ (turns + 1) * w \in Nat /\ MaxTurns * w \in Nat
      /\ (turns + 1) * w = turns * w + w /\ (turns + 1) * w <= MaxTurns * w
  <2>1. w \in Nat /\ turns \in Nat /\ turns + 1 \in Nat /\ MaxTurns \in Nat
        /\ turns <= turns + 1 /\ turns + 1 <= MaxTurns
    BY <1>0
  <2> HIDE DEF w
  <2>2. QED
    BY <2>1, Products
<1>9. /\ Len(lines) \in Nat /\ Len(lines) <= turns * w
      /\ Len(s) + 1 \in 1..w /\ w \in Nat /\ MaxLines = MaxTurns * w
  BY <1>0, <1>2 DEF HostInv, MaxLines
<1> HIDE DEF w
<1>10. Len(lines') \in Len(lines) + 1..(turns + 1) * w /\ Len(lines') <= MaxLines
  <2> DEFINE t1 == turns * w
             t2 == (turns + 1) * w
             t3 == MaxTurns * w
  <2>1. /\ t1 \in Nat /\ t2 \in Nat /\ t3 \in Nat /\ t2 = t1 + w /\ t2 <= t3
        /\ Len(lines) <= t1 /\ MaxLines = t3
    BY <1>8, <1>9
  <2> HIDE DEF t1, t2, t3
  <2>2. Len(lines') \in Len(lines) + 1..t2 /\ Len(lines') <= MaxLines
    <3>1. Len(lines') = Len(lines) + (Len(s) + 1)
      BY <1>0, <1>2, <1>6
    <3>2. QED
      BY <1>9, <2>1, <3>1
  <2>3. QED
    BY <2>2 DEF t2
<1>11. QED
  BY <1>5, <1>6, <1>10 DEF w

\* What the hook does leaves the file as it is.
LEMMA FileKept ==
    ASSUME UNCHANGED <<lines, flushed>>
    PROVE  /\ InTurn' = InTurn
           /\ \A i : Extractable(i)' = Extractable(i)
           /\ \A c \in Nat : Extracted(c)' = Extracted(c)
           /\ NoAssistantTurn' = NoAssistantTurn
           /\ TurnStart' = TurnStart
BY DEF InTurn, Extractable, Extracted, InFile, NoAssistantTurn, TurnStart, LastExtractable

\* The host writes: of what was in the file, the latest turn gains nothing.
LEMMA FileGrows ==
    ASSUME TypeOK, HostInv, TypeOK', HostInv', Turn \/ Flush
    PROVE  /\ \A i \in 1..flushed : Extractable(i)' = Extractable(i)
           /\ \A c \in Nat : \A i \in Extracted(c)' : i \in Extracted(c) \/ i > flushed
           /\ \A i \in InTurn' : i \in InTurn \/ i > flushed
<1>0. TurnIsLatest /\ TurnIsLatest'
  <2>1. TypeOK /\ HostInv => TurnIsLatest
    BY TurnStarts
  <2>2. (TypeOK /\ HostInv => TurnIsLatest)'
    BY TurnStarts, PTL
  <2>3. QED
    BY <2>1, <2>2
<1>1. /\ flushed \in Nat /\ flushed' \in Nat /\ flushed <= flushed'
      /\ \A i \in 1..flushed : lines'[i] = lines[i]
  <2>1. flushed \in Nat /\ flushed' \in Nat /\ Len(lines) \in Nat /\ flushed <= Len(lines)
    BY DEF TypeOK
  <2>2. CASE Turn
    <3>1. \A i \in 1..Len(lines) : lines'[i] = lines[i]
      BY <2>2, TurnAppends
    <3>2. flushed' = flushed
      BY <2>2 DEF Turn
    <3>3. QED
      BY <2>1, <3>1, <3>2
  <2>3. CASE Flush
    BY <2>1, <2>3 DEF Flush
  <2>4. QED
    BY <2>2, <2>3
<1>2. \A i \in 1..flushed : lines'[i] = lines[i] /\ Extractable(i)' = Extractable(i)
  BY <1>1 DEF Extractable
<1>3. \A c \in Nat : \A i \in Extracted(c)' : i \in Extracted(c) \/ i > flushed
  BY <1>1, <1>2 DEF Extracted, InFile
<1>4. \A i \in Extracted(0) : i \in Extracted(0)'
  BY <1>1, <1>2 DEF Extracted, InFile
<1>5. ASSUME NEW i \in InTurn', ~(i > flushed)
      PROVE  i \in InTurn
  <2>1. ~NoAssistantTurn' /\ i \in Extracted(TurnStart)' /\ i \in Extracted(0)'
    <3>1. ~NoAssistantTurn' /\ i \in Extracted(TurnStart)'
      BY <1>5 DEF InTurn
    <3>2. QED
      BY <3>1 DEF Extracted, InFile
  <2>2. i \in Extracted(0)
    BY <1>3, <1>5, <2>1
  <2>3. ~NoAssistantTurn
    BY <2>2 DEF NoAssistantTurn
  <2>4. LastExtractable <= LastExtractable' /\ LastExtractable \in 1..flushed
    BY <1>4, <2>1, <2>3, <1>0 DEF TurnIsLatest, Extracted, InFile
  <2>5. TurnStart \in 1..LastExtractable /\ lines[TurnStart].kind = "user"
    BY <1>0, <2>3 DEF TurnIsLatest
  <2>6. lines'[TurnStart].kind = "user" /\ TurnStart \in 1..LastExtractable'
    <3>1. LastExtractable' \in Nat /\ TurnStart \in 1..flushed
      BY <1>0, <1>1, <2>1, <2>4, <2>5 DEF TurnIsLatest, Extracted, InFile
    <3>2. QED
      BY <1>2, <2>4, <2>5, <3>1
  <2>7. TurnStart <= TurnStart' /\ TurnStart' \in Nat
    BY <1>0, <2>1, <2>6 DEF TurnIsLatest
  <2>8. i > TurnStart
    BY <2>1, <2>5, <2>7 DEF Extracted, InFile
  <2>9. QED
    BY <2>2, <2>3, <2>8 DEF InTurn, Extracted
<1>6. QED
  BY <1>2, <1>3, <1>5

-----------------------------------------------------------------------------
LEMMA ReadFromInFile ==
    ASSUME TypeOK, HostInv, ~NoAssistantTurn
    PROVE  /\ ReadFrom \in 1..flushed
           /\ TurnStart \in 1..flushed
           /\ RetryActive => ReadFrom = retry
           /\ ~RetryActive => ReadFrom = IF cursor > TurnStart THEN cursor ELSE TurnStart
<1>1. /\ flushed \in Nat /\ retry \in 0..flushed /\ cursor \in 0..flushed
  BY DEF TypeOK
<1>2. TurnStart \in 1..flushed
  BY <1>1, TurnStarts DEF TurnIsLatest, Extracted, InFile
<1>3. QED
  BY <1>1, <1>2 DEF ReadFrom, RetryActive

LEMMA ExtractedMax ==
    ASSUME TypeOK, NEW c \in Nat, Extracted(c) # {}
    PROVE  /\ Max(Extracted(c)) \in Extracted(c)
           /\ \A i \in Extracted(c) : i <= Max(Extracted(c))
<1>1. flushed \in Nat /\ Extracted(c) \subseteq 0..flushed
  BY DEF TypeOK, Extracted, InFile
<1>2. QED
  BY <1>1, MaxOfOffsets

\* The two parts of TypeOK: what the host writes, and what the hook does.
FileOK ==
    /\ lines \in Seq(Lines) /\ Len(lines) <= MaxLines
    /\ flushed \in 0..Len(lines)
    /\ turns \in 0..MaxTurns
    /\ named \in BOOLEAN
SpanOK ==
    /\ cursor \in 0..flushed /\ retry \in 0..flushed
    /\ from \in 0..flushed /\ through \in 0..flushed
    /\ owed \subseteq 1..flushed /\ pending \subseteq 1..flushed
CountOK ==
    /\ faults \in 0..MaxFaults
    /\ recorded \in [1..MaxLines -> 0..2]
    /\ pc \in {"idle", "start", "polling", "reading", "recording", "sending",
                "retrying", "committing", "clearing"}

LEMMA TypeParts == TypeOK <=> FileOK /\ SpanOK /\ CountOK
BY Zenon DEF TypeOK, FileOK, SpanOK, CountOK

LEMMA BaseInit == Init => TypeOK /\ HostInv
<1> SUFFICES ASSUME Init PROVE TypeOK /\ HostInv
  OBVIOUS
<1>1. lines \in Seq(Lines) /\ Len(lines) = 0
  BY EmptySeq DEF Init
<1>2. MaxLines \in Nat
  BY DEF MaxLines
<1>3. recorded \in [1..MaxLines -> 0..2]
  BY DEF Init
<1>4. named \in BOOLEAN
  BY Zenon DEF Init
<1>5. TypeOK
  BY <1>1, <1>2, <1>3, <1>4 DEF Init, TypeOK
<1>6. Len(lines) <= turns * (MaxShape + 1)
  <2>1. turns = 0 /\ MaxShape + 1 \in Nat
    BY DEF Init
  <2>2. 0 * (MaxShape + 1) = 0
    BY <2>1
  <2>3. QED
    BY <1>1, <2>1, <2>2
<1>7. QED
  BY <1>5, <1>6 DEF HostInv, Init

LEMMA TurnBase ==
    ASSUME TypeOK, HostInv, Turn
    PROVE  TypeOK' /\ HostInv'
<1>1. /\ UNCHANGED <<flushed, named, faults, cursor, retry, recorded, owed, from,
                     through, pending>>
      /\ turns' = turns + 1 /\ turns < MaxTurns /\ pc' \in {"start", "idle"}
  BY DEF Turn, Go, disk
<1>2. FileOK /\ SpanOK /\ CountOK
  BY TypeParts
<1>3. FileOK'
  <2>1. lines' \in Seq(Lines) /\ Len(lines') <= MaxLines
    BY TurnAppends
  <2>2. flushed' \in 0..Len(lines')
    <3>1. Len(lines') \in Len(lines) + 1..(turns + 1) * (MaxShape + 1)
      BY TurnAppends
    <3>2. flushed \in 0..Len(lines) /\ Len(lines) \in Nat
      BY <1>2 DEF FileOK
    <3>3. Len(lines') \in Int /\ Len(lines') >= Len(lines)
      BY <3>1, <3>2
    <3>4. QED
      BY <1>1, <3>2, <3>3
  <2>3. turns' \in 0..MaxTurns
    BY <1>1, <1>2 DEF FileOK
  <2>4. named' \in BOOLEAN
    BY <1>1, <1>2, Zenon DEF FileOK
  <2>5. QED
    BY <2>1, <2>2, <2>3, <2>4, Zenon DEF FileOK
<1>4. SpanOK'
  BY <1>1, <1>2 DEF SpanOK
<1>5. CountOK'
  BY <1>1, <1>2 DEF CountOK
<1>6. TypeOK'
  <2>1. (TypeOK <=> FileOK /\ SpanOK /\ CountOK)'
    BY TypeParts, PTL
  <2>2. QED
    BY <1>3, <1>4, <1>5, <2>1, Zenon
<1>7. Len(lines) \in Nat
  BY <1>2 DEF FileOK
<1>8. lines' # << >> => lines'[1].kind = "user"
  <2>1. CASE lines = << >>
    <3>1. Len(lines) + 1 = 1
      BY <2>1
    <3>2. QED
      BY <3>1, TurnAppends
  <2>2. CASE lines # << >>
    <3>1. 1 \in 1..Len(lines)
      BY <1>2, <2>2 DEF FileOK
    <3>2. QED
      BY <2>2, <3>1, TurnAppends DEF HostInv
  <2>3. QED
    BY <2>1, <2>2
<1>9. Len(lines') <= turns' * (MaxShape + 1)
  BY <1>1, <1>7, TurnAppends
<1>10. QED
  BY <1>6, <1>8, <1>9 DEF HostInv

\* What a step of the hook leaves alone.
LEMMA HookKeepsFile ==
    ASSUME HookStep \/ UNCHANGED vars
    PROVE  UNCHANGED <<lines, flushed, turns, named>>
BY DEF HookStep, vars, host, StopActive, StartReading, NoPath, CatchUp, CatchUpTimesOut,
    Unreadable, RecordPayload, RecordPayloadFails, Read, SendBatch, SendFails,
    WriteRetry, Commit, ClearRetry, Dies

LEMMA HookCounts ==
    ASSUME CountOK, HookStep \/ UNCHANGED vars
    PROVE  CountOK'
<1> USE DEF Go, Fault, disk, host, CountOK
<1>1. CASE StopActive \/ NoPath \/ Unreadable \/ RecordPayload \/ RecordPayloadFails
  BY <1>1 DEF StopActive, NoPath, Unreadable, RecordPayload, RecordPayloadFails
<1>2. CASE StartReading \/ CatchUp \/ CatchUpTimesOut
  BY <1>2 DEF StartReading, CatchUp, CatchUpTimesOut
<1>3. CASE Read \/ WriteRetry \/ Commit \/ ClearRetry \/ Dies
  BY <1>3 DEF Read, WriteRetry, Commit, ClearRetry, Dies
<1>4. CASE SendBatch \/ SendFails
  <2>1. recorded' \in [1..MaxLines -> 0..2]
    BY <1>4 DEF SendBatch, SendFails, Record
  <2>2. faults' \in 0..MaxFaults /\ pc' \in {"sending", "committing", "retrying"}
    BY <1>4 DEF SendBatch, SendFails
  <2>3. QED
    BY <2>1, <2>2
<1>5. CASE UNCHANGED vars
  BY <1>5 DEF vars
<1>6. QED
  BY <1>1, <1>2, <1>3, <1>4, <1>5 DEF HookStep

LEMMA HookSpans ==
    ASSUME TypeOK, HostInv, HookStep \/ UNCHANGED vars
    PROVE  SpanOK'
<1> USE DEF Go, Fault, disk, host, IdleSpan, KeepSpan, SpanOK
<1>0. SpanOK /\ flushed' = flushed /\ flushed \in Nat
  BY TypeParts, HookKeepsFile DEF FileOK
<1>1. CASE StopActive \/ NoPath \/ Unreadable
  BY <1>0, <1>1 DEF StopActive, NoPath, Unreadable
<1>2. CASE RecordPayload \/ RecordPayloadFails \/ Dies \/ ClearRetry
  <2>1. /\ from' = 0 /\ through' = 0 /\ pending' = {}
        /\ cursor' = cursor /\ owed' = owed /\ retry' \in {0, retry}
    BY <1>2 DEF RecordPayload, RecordPayloadFails, Dies, ClearRetry
  <2>2. QED
    BY <1>0, <2>1
<1>3. CASE StartReading
  <2>1. ~NoAssistantTurn => ReadFrom \in 0..flushed
    BY <1>0, ReadFromInFile
  <2>2. QED
    BY <1>0, <1>3, <2>1 DEF StartReading
<1>4. CASE CatchUp
  <2>1. from' \in 0..flushed
    BY <1>0, <1>4, ReadFromInFile DEF CatchUp
  <2>2. QED
    BY <1>0, <1>4, <2>1 DEF CatchUp
<1>5. CASE CatchUpTimesOut
  BY <1>0, <1>5 DEF CatchUpTimesOut
<1>6. CASE Read
  <2>1. from \in Nat /\ Extracted(from) \subseteq 1..flushed
    BY <1>0 DEF Extracted, InFile
  <2>2. Extracted(from) # {} => Max(Extracted(from)) \in 1..flushed
    BY <2>1, ExtractedMax
  <2>3. QED
    BY <1>0, <1>6, <2>1, <2>2 DEF Read
<1>7. CASE SendBatch \/ SendFails
  BY <1>0, <1>7 DEF SendBatch, SendFails
<1>8. CASE WriteRetry
  <2>1. {i \in Extracted(from) : i <= through} \subseteq 1..flushed
    BY DEF Extracted, InFile
  <2>2. /\ from' = 0 /\ through' = 0 /\ pending' = {} /\ cursor' = cursor
        /\ retry' = from
    BY <1>8 DEF WriteRetry
  <2>3. owed' = owed \cup {i \in Extracted(from) : i <= through}
    BY <1>8 DEF WriteRetry
  <2>4. owed' \subseteq 1..flushed
    BY <1>0, <2>1, <2>3
  <2>5. QED
    BY <1>0, <2>2, <2>4
<1>9. CASE Commit
  BY <1>0, <1>9 DEF Commit, CommitOffset
<1>10. CASE UNCHANGED vars
  BY <1>0, <1>10 DEF vars
<1>11. QED
  BY <1>1, <1>2, <1>3, <1>4, <1>5, <1>6, <1>7, <1>8, <1>9, <1>10 DEF HookStep

LEMMA BaseStep ==
    ASSUME TypeOK, HostInv, [Next]_vars
    PROVE  TypeOK' /\ HostInv'
<1>1. CASE Turn
  BY <1>1, TurnBase
<1>2. CASE Flush
  <2>1. flushed \in Nat /\ Len(lines) \in Nat
    BY DEF TypeOK
  <2>2. QED
    BY <1>2, <2>1 DEF Flush, disk, TypeOK, HostInv
<1>3. CASE HookStep \/ UNCHANGED vars
  <2>1. UNCHANGED <<lines, flushed, turns, named>>
    BY <1>3, HookKeepsFile
  <2>2. FileOK /\ SpanOK /\ CountOK
    BY TypeParts
  <2>3. FileOK'
    BY <2>1, <2>2 DEF FileOK
  <2>4. SpanOK' /\ CountOK'
    BY <1>3, <2>2, HookSpans, HookCounts
  <2>5. TypeOK'
    <3>1. (TypeOK <=> FileOK /\ SpanOK /\ CountOK)'
      BY TypeParts, PTL
    <3>2. QED
      BY <2>3, <2>4, <3>1, Zenon
  <2>6. QED
    BY <2>1, <2>5 DEF HostInv
<1>4. QED
  BY <1>1, <1>2, <1>3 DEF Next

\* Every variable keeps its type: ClaudeStop!TypeOK; no cursor, stored or for a
\* retry, ever points past the end of the transcript.
THEOREM TypeCorrect == Spec => []TypeOK
<1>1. Spec => [](TypeOK /\ HostInv)
  BY BaseInit, BaseStep, PTL DEF Spec
<1>2. QED
  BY <1>1, PTL

-----------------------------------------------------------------------------
\* The invariants in terms of offsets alone.
LEMMA Offsets ==
    ASSUME TypeOK
    PROVE  /\ flushed \in Nat /\ cursor \in 0..flushed /\ retry \in 0..flushed
           /\ from \in 0..flushed /\ through \in 0..flushed
           /\ owed \subseteq 1..flushed /\ pending \subseteq 1..flushed
           /\ \A c \in Nat, i \in 1..flushed :
                  i \in Extracted(c) <=> i > c /\ Extractable(i)
           /\ \A c \in Nat : Extracted(c) \subseteq 1..flushed
           /\ \A i \in InTurn : i \in 1..flushed /\ Extractable(i)
<1>1. flushed \in Nat /\ SpanOK
  BY TypeParts DEF FileOK
<1>2. QED
  BY <1>1 DEF SpanOK, Extracted, InFile, InTurn

\* A step that keeps the file, the records and the disk, and after which nothing
\* is read or sent.
LEMMA TailKept ==
    ASSUME CursorInv, UNCHANGED <<lines, flushed, cursor, retry, recorded, owed>>,
           pc' \notin Sending \cup {"reading"}
    PROVE  CursorInv' /\ SpanInv'
<1>1. InTurn' = InTurn /\ \A i : Extractable(i)' = Extractable(i)
  BY FileKept
<1>2. CursorInv'
  BY <1>1 DEF CursorInv, Kept, Sent
<1>3. SpanInv'
  BY DEF SpanInv, Sending
<1>4. QED
  BY <1>2, <1>3

\* A transcript without an assistant's turn owes nothing.
LEMMA TailReset ==
    ASSUME TypeOK, CursorInv, NoAssistantTurn,
           UNCHANGED <<lines, flushed, recorded, owed>>,
           pc' \notin Sending \cup {"reading"}
    PROVE  CursorInv' /\ SpanInv'
<1>1. InTurn' = {}
  BY FileKept DEF InTurn
<1>2. owed' = {}
  BY Offsets DEF CursorInv, NoAssistantTurn
<1>3. CursorInv'
  BY <1>1, <1>2 DEF CursorInv
<1>4. SpanInv'
  BY DEF SpanInv, Sending
<1>5. QED
  BY <1>3, <1>4

\* Whatever the plan reads from has nothing unrecorded behind it.
LEMMA TailPlanned ==
    ASSUME TypeOK, HostInv, CursorInv, ~NoAssistantTurn,
           UNCHANGED <<lines, flushed, cursor, retry, recorded, owed>>,
           from' = ReadFrom, pc' = "reading"
    PROVE  CursorInv' /\ SpanInv'
<1>1. InTurn' = InTurn /\ \A i : Extractable(i)' = Extractable(i)
  BY FileKept
<1>2. CursorInv'
  BY <1>1 DEF CursorInv, Kept, Sent
<1>3. /\ flushed \in Nat /\ cursor \in 0..flushed /\ retry \in 0..flushed
      /\ owed \subseteq 1..flushed
      /\ \A i \in InTurn : i \in 1..flushed /\ i > TurnStart
  <2>1. InTurn = Extracted(TurnStart)
    BY DEF InTurn
  <2>2. \A i \in Extracted(TurnStart) : i > TurnStart
    BY DEF Extracted
  <2>3. QED
    BY <2>1, <2>2, Offsets
<1>4. ReadFrom \in 1..flushed /\ TurnStart \in 1..flushed
  BY ReadFromInFile
<1>5. /\ \A i \in owed : i \in Sent \/ i > ReadFrom
      /\ \A i \in InTurn : i <= ReadFrom => i \in Sent
  <2>1. CASE RetryActive
    <3>1. ReadFrom = retry
      BY <2>1, ReadFromInFile
    <3>2. QED
      BY <3>1 DEF CursorInv, Kept
  <2>2. CASE ~RetryActive
    <3>1. \A i \in 1..flushed : Kept(i) => i \in Sent
      BY <1>3, <2>2 DEF RetryActive, Kept
    <3>2. ReadFrom = IF cursor > TurnStart THEN cursor ELSE TurnStart
      BY <2>2, ReadFromInFile
    <3>3. \A i \in InTurn : i <= cursor => i \in Sent
      BY <1>3, <3>1 DEF CursorInv
    <3>4. \A i \in owed : i \in Sent
      BY <1>3, <3>1 DEF CursorInv
    <3>5. QED
      BY <1>3, <1>4, <3>2, <3>3, <3>4
  <2>3. QED
    BY <2>1, <2>2
<1>6. Sent' = Sent
  BY DEF Sent
<1>7. SpanInv'
  BY <1>1, <1>4, <1>5, <1>6 DEF SpanInv, Sending
<1>8. QED
  BY <1>2, <1>7

LEMMA TailRead ==
    ASSUME TypeOK, CursorInv, SpanInv, Read
    PROVE  CursorInv' /\ SpanInv'
<1>0. /\ UNCHANGED <<lines, flushed, recorded, owed>> /\ pc = "reading"
  BY DEF Read, host
<1>1. InTurn' = InTurn /\ (\A i : Extractable(i)' = Extractable(i)) /\ Sent' = Sent
  BY <1>0, FileKept DEF Sent
<1>2. /\ flushed \in Nat /\ from \in 1..flushed /\ owed \subseteq 1..flushed
      /\ \A i \in owed : Extractable(i) /\ (i \in Sent \/ i > from)
      /\ \A i \in InTurn : i \in 1..flushed /\ (i <= from => i \in Sent)
      /\ \A i \in 1..flushed : i \in Extracted(from) <=> i > from /\ Extractable(i)
      /\ \A i \in InTurn : Extractable(i)
  <2>1. from > 0 /\ from \in 0..flushed
    BY <1>0, Offsets DEF SpanInv
  <2>2. QED
    BY <1>0, <2>1, Offsets DEF SpanInv, CursorInv
<1>3. CASE Extracted(from) = {}
  <2>1. pc' = "idle"
    BY <1>3 DEF Read, Go
  <2>2. (\A i \in owed : i \in Sent) /\ (\A i \in InTurn : i \in Sent)
    BY <1>2, <1>3
  <2>3. CursorInv'
    BY <1>0, <1>1, <1>2, <2>2 DEF CursorInv, Kept
  <2>4. QED
    BY <2>1, <2>3 DEF SpanInv, Sending
<1>4. CASE Extracted(from) # {}
  <2>1. /\ pending' = Extracted(from) /\ through' = Max(Extracted(from))
        /\ pc' = "sending" /\ UNCHANGED <<cursor, retry, from>>
    BY <1>4 DEF Read, Go, disk
  <2>2. \A i \in Extracted(from) : i <= through'
    BY <1>2, <1>4, <2>1, ExtractedMax
  <2>3. Extracted(from)' = Extracted(from)
    BY <1>0, <2>1 DEF Extracted, InFile, Extractable
  <2>4. CursorInv'
    BY <1>0, <1>1, <2>1 DEF CursorInv, Kept
  <2>5. \A i \in owed : i \in Sent \/ i <= through'
    BY <1>2, <2>2
  <2>6. SpanInv'
    BY <1>0, <1>1, <1>2, <2>1, <2>2, <2>3, <2>5 DEF SpanInv, Sending
  <2>7. QED
    BY <2>4, <2>6
<1>5. QED
  BY <1>3, <1>4

\* Recording a batch forgets nothing and records all of it.
LEMMA Recorded ==
    ASSUME TypeOK, NEW batch, batch \subseteq pending, Record(batch)
    PROVE  Sent' = Sent \cup batch
<1>1. flushed \in 0..MaxLines /\ recorded \in [1..MaxLines -> 0..2]
  <2>1. Len(lines) \in Nat /\ Len(lines) <= MaxLines /\ MaxLines \in Nat
    BY DEF TypeOK, MaxLines
  <2>2. QED
    BY <2>1 DEF TypeOK
<1>2. batch \subseteq 1..MaxLines
  <2>1. batch \subseteq 1..flushed
    BY Offsets
  <2>2. MaxLines \in Nat
    BY DEF MaxLines
  <2>3. QED
    BY <1>1, <2>1, <2>2
<1>3. /\ DOMAIN recorded' = 1..MaxLines
      /\ \A i \in 1..MaxLines :
            recorded'[i] = IF i \in batch /\ recorded[i] < 2 THEN recorded[i] + 1
                           ELSE recorded[i]
  BY <1>1 DEF Record
<1>4. \A i \in 1..MaxLines : recorded'[i] > 0 <=> recorded[i] > 0 \/ i \in batch
  BY <1>1, <1>3
<1>5. DOMAIN recorded = 1..MaxLines
  BY <1>1
<1>6. QED
  BY <1>2, <1>3, <1>4, <1>5 DEF Sent

LEMMA TailSend ==
    ASSUME TypeOK, CursorInv, SpanInv, SendBatch \/ SendFails
    PROVE  CursorInv' /\ SpanInv'
<1>0. /\ UNCHANGED <<lines, flushed, cursor, retry, owed, from, through>>
      /\ pc = "sending"
  BY DEF SendBatch, SendFails, host, disk
<1>1. InTurn' = InTurn /\ \A i : Extractable(i)' = Extractable(i)
  BY <1>0, FileKept
<1>2. Extracted(from)' = Extracted(from)
  BY <1>0 DEF Extracted, InFile, Extractable
<1>3. /\ Sent \subseteq Sent'
      /\ pending' \subseteq pending /\ pending \subseteq pending' \cup Sent'
      /\ pc' \in {"sending", "committing", "retrying"}
      /\ pc' = "committing" => pending' = {}
  <2>1. CASE SendBatch
    <3>1. Batch \subseteq pending
      BY DEF Batch
    <3>2. Sent' = Sent \cup Batch
      BY <2>1, <3>1, Recorded DEF SendBatch
    <3>3. QED
      BY <2>1, <3>2 DEF SendBatch, Go
  <2>2. CASE SendFails
    <3>1. PICK batch : batch \subseteq Batch /\ Record(batch)
      <4>1. PICK last \in Batch \cup {0} : Record({i \in Batch : i <= last})
        BY <2>2 DEF SendFails
      <4>2. QED
        BY <4>1
    <3>2. batch \subseteq pending
      BY <3>1 DEF Batch
    <3>3. Sent' = Sent \cup batch
      BY <3>1, <3>2, Recorded
    <3>4. QED
      BY <2>2, <3>3 DEF SendFails, Go
  <2>3. QED
    BY <2>1, <2>2
<1>4. CursorInv'
  BY <1>0, <1>1, <1>3 DEF CursorInv, Kept
<1>5. SpanInv'
  BY <1>0, <1>1, <1>2, <1>3 DEF SpanInv, Sending
<1>6. QED
  BY <1>4, <1>5

\* While a Stop sends, what is neither sent nor pending is not in its span.
LEMMA Span ==
    ASSUME TypeOK, CursorInv, SpanInv, pc \in Sending
    PROVE  /\ flushed \in Nat /\ from \in 1..flushed /\ through \in 0..flushed
           /\ \A i \in owed :
                  i \in 1..flushed /\ Extractable(i) /\ (i \in Sent \/ i > from)
           /\ \A i \in owed : i \in pending \cup Sent
           /\ \A i \in InTurn : i \in 1..flushed /\ (i <= from => i \in Sent)
           /\ \A i \in InTurn : i <= through => i \in pending \cup Sent
<1>1. /\ flushed \in Nat /\ from \in 1..flushed /\ through \in 0..flushed
      /\ owed \subseteq 1..flushed
      /\ \A i \in 1..flushed : i \in Extracted(from) <=> i > from /\ Extractable(i)
      /\ \A i \in InTurn : i \in 1..flushed /\ Extractable(i)
  <2>1. from > 0
    BY DEF SpanInv
  <2>2. QED
    BY <2>1, Offsets
<1>2. /\ \A i \in owed : Extractable(i) /\ (i \in Sent \/ i > from)
      /\ \A i \in owed : i \in Sent \/ i <= through
      /\ \A i \in InTurn : i <= from => i \in Sent
      /\ \A i \in Extracted(from) : i <= through => i \in pending \cup Sent
  BY DEF CursorInv, SpanInv
<1>3. QED
  BY <1>1, <1>2

LEMMA TailRetry ==
    ASSUME TypeOK, CursorInv, SpanInv, WriteRetry
    PROVE  CursorInv' /\ SpanInv'
<1>0. /\ UNCHANGED <<lines, flushed, cursor, recorded>> /\ pc = "retrying" /\ pc' = "idle"
      /\ retry' = from /\ owed' = owed \cup {i \in Extracted(from) : i <= through}
  BY DEF WriteRetry, host, Go
<1>1. InTurn' = InTurn /\ (\A i : Extractable(i)' = Extractable(i)) /\ Sent' = Sent
  BY <1>0, FileKept DEF Sent
<1>2. pc \in Sending
  BY <1>0 DEF Sending
<1>3. \A i \in owed' : Extractable(i) /\ (i \in Sent \/ i > from)
  <2>1. \A i \in Extracted(from) : Extractable(i) /\ i > from
    BY DEF Extracted
  <2>2. QED
    BY <1>0, <1>2, <2>1, Span
<1>4. CursorInv'
  BY <1>0, <1>1, <1>2, <1>3, Span DEF CursorInv, Kept
<1>5. QED
  BY <1>0, <1>4 DEF SpanInv, Sending

LEMMA TailCommit ==
    ASSUME TypeOK, CursorInv, SpanInv, Commit
    PROVE  CursorInv' /\ SpanInv'
<1>0. /\ UNCHANGED <<lines, flushed, retry, recorded, owed, from, through, pending>>
      /\ pc = "committing" /\ pc' = "clearing" /\ cursor' = through
  BY DEF Commit, CommitOffset, host, Go
<1>1. InTurn' = InTurn /\ (\A i : Extractable(i)' = Extractable(i)) /\ Sent' = Sent
  BY <1>0, FileKept DEF Sent
<1>2. pc \in Sending /\ pending = {} /\ Extracted(from)' = Extracted(from)
  BY <1>0 DEF Sending, SpanInv, Extracted, InFile, Extractable
<1>3. \A i \in InTurn : i <= through => i \in Sent
  BY <1>2, Span
<1>4. CursorInv'
  BY <1>0, <1>1, <1>3 DEF CursorInv, Kept
<1>5. SpanInv'
  BY <1>0, <1>1, <1>2 DEF SpanInv, Sending
<1>6. QED
  BY <1>4, <1>5

LEMMA TailClear ==
    ASSUME TypeOK, CursorInv, SpanInv, ClearRetry
    PROVE  CursorInv' /\ SpanInv'
<1>0. /\ UNCHANGED <<lines, flushed, cursor, recorded, owed>>
      /\ pc = "clearing" /\ pc' = "idle" /\ retry' = 0
  BY DEF ClearRetry, host, Go
<1>1. InTurn' = InTurn /\ (\A i : Extractable(i)' = Extractable(i)) /\ Sent' = Sent
  BY <1>0, FileKept DEF Sent
<1>2. pc \in Sending /\ pending = {} /\ cursor = through
  BY <1>0 DEF Sending, SpanInv
<1>3. /\ \A i \in owed : Extractable(i) /\ i \in Sent
      /\ \A i \in InTurn : i \in 1..flushed /\ (i <= cursor => i \in Sent)
  BY <1>2, Span
<1>4. CursorInv'
  BY <1>0, <1>1, <1>3 DEF CursorInv, Kept
<1>5. QED
  BY <1>0, <1>4 DEF SpanInv, Sending

\* What the host writes is behind no cursor.
LEMMA TailHost ==
    ASSUME TypeOK, HostInv, CursorInv, SpanInv, TypeOK', HostInv', Turn \/ Flush
    PROVE  CursorInv' /\ SpanInv'
<1>0. /\ UNCHANGED <<cursor, retry, recorded, owed, from, through, pending>>
      /\ pc' \in {pc, "idle", "start"}
  BY DEF Turn, Flush, disk, Go
<1>1. /\ \A i \in 1..flushed : Extractable(i)' = Extractable(i)
      /\ \A c \in Nat : \A i \in Extracted(c)' : i \in Extracted(c) \/ i > flushed
      /\ \A i \in InTurn' : i \in InTurn \/ i > flushed
  BY FileGrows
<1>2. Sent' = Sent
  BY <1>0 DEF Sent
<1>3. /\ flushed \in Nat /\ cursor \in 0..flushed /\ retry \in 0..flushed
      /\ from \in 0..flushed /\ through \in 0..flushed /\ owed \subseteq 1..flushed
  BY Offsets
<1>4. \A i \in InTurn' : i \in Nat
  <2>1. \A i \in InTurn' : i \in InFile'
    BY DEF InTurn, Extracted
  <2>2. QED
    BY <2>1 DEF InFile
<1>5. CursorInv'
  BY <1>0, <1>1, <1>2, <1>3, <1>4 DEF CursorInv, Kept
<1>6. \A i \in Extracted(from)' : i <= through => i \in Extracted(from)
  <2>1. PICK f \in Nat : f = from /\ f = from'
    BY <1>0, <1>3
  <2>2. Extracted(from)' = Extracted(f)' /\ \A i \in Extracted(f)' : i \in InFile'
    BY <2>1 DEF Extracted
  <2>3. \A i \in Extracted(from)' : i \in Nat
    BY <2>2 DEF InFile
  <2>4. \A i \in Extracted(from)' : i \in Extracted(from) \/ i > flushed
    BY <1>1, <2>1, <2>2
  <2>5. QED
    BY <1>3, <2>3, <2>4
<1>7. SpanInv'
  BY <1>0, <1>1, <1>2, <1>3, <1>4, <1>6 DEF SpanInv, Sending
<1>8. QED
  BY <1>5, <1>7

LEMMA TailStep ==
    ASSUME TailInv, [Next]_vars
    PROVE  TailInv'
<1>1. TypeOK' /\ HostInv'
  BY BaseStep DEF TailInv
<1>2. TypeOK /\ HostInv /\ CursorInv /\ SpanInv
  BY DEF TailInv
<1>3. CASE Turn \/ Flush
  BY <1>1, <1>2, <1>3, TailHost DEF TailInv
<1>4. CASE StopActive \/ NoPath \/ Unreadable \/ RecordPayload \/ RecordPayloadFails \/ Dies
  <2>1. /\ UNCHANGED <<lines, flushed, cursor, retry, recorded, owed>>
        /\ pc' \in {"idle", "recording"}
    BY <1>4 DEF StopActive, NoPath, Unreadable, RecordPayload, RecordPayloadFails, Dies,
        host, disk, Go
  <2>2. QED
    BY <1>1, <1>2, <2>1, TailKept DEF Sending, TailInv
<1>5. CASE StartReading
  <2>1. UNCHANGED <<lines, flushed, recorded, owed>>
    BY <1>5 DEF StartReading, host
  <2>2. CASE pc' = "polling"
    <3>1. UNCHANGED <<cursor, retry>>
      BY <1>5, <2>2 DEF StartReading, disk, Go
    <3>2. QED
      BY <1>1, <1>2, <2>1, <2>2, <3>1, TailKept DEF Sending, TailInv
  <2>3. CASE pc' = "idle"
    <3>1. NoAssistantTurn
      BY <1>5, <2>3 DEF StartReading, Go
    <3>2. QED
      BY <1>1, <1>2, <2>1, <2>3, <3>1, TailReset DEF Sending, TailInv
  <2>4. CASE pc' = "reading"
    <3>1. ~NoAssistantTurn /\ from' = ReadFrom /\ UNCHANGED <<cursor, retry>>
      BY <1>5, <2>4 DEF StartReading, disk, Go
    <3>2. QED
      BY <1>1, <1>2, <2>1, <2>4, <3>1, TailPlanned DEF TailInv
  <2>5. QED
    BY <1>5, <2>2, <2>3, <2>4 DEF StartReading, Go
<1>6. CASE CatchUp
  <2>1. /\ UNCHANGED <<lines, flushed, cursor, retry, recorded, owed>>
        /\ ~NoAssistantTurn /\ from' = ReadFrom /\ pc' = "reading"
    BY <1>6 DEF CatchUp, host, disk, Go
  <2>2. QED
    BY <1>1, <1>2, <2>1, TailPlanned DEF TailInv
<1>7. CASE CatchUpTimesOut
  <2>1. UNCHANGED <<lines, flushed, recorded, owed>> /\ pc' \in {"idle", "recording"}
    BY <1>7 DEF CatchUpTimesOut, host, Go
  <2>2. NoAssistantTurn \/ UNCHANGED <<cursor, retry>>
    BY <1>7 DEF CatchUpTimesOut, disk
  <2>3. pc' \notin Sending \cup {"reading"}
    BY <2>1 DEF Sending
  <2>4. CursorInv' /\ SpanInv'
    BY <1>2, <2>1, <2>2, <2>3, TailReset, TailKept
  <2>5. QED
    BY <1>1, <2>4 DEF TailInv
<1>8. CASE Read \/ SendBatch \/ SendFails
  BY <1>1, <1>2, <1>8, TailRead, TailSend DEF TailInv
<1>9. CASE WriteRetry \/ Commit \/ ClearRetry
  BY <1>1, <1>2, <1>9, TailRetry, TailCommit, TailClear DEF TailInv
<1>10. CASE UNCHANGED vars
  <2>1. /\ InTurn' = InTurn /\ Sent' = Sent /\ Extracted(from)' = Extracted(from)
        /\ \A i : Extractable(i)' = Extractable(i)
    BY <1>10 DEF vars, host, InTurn, Sent, Extracted, Extractable, InFile, NoAssistantTurn,
        TurnStart, LastExtractable
  <2>2. QED
    BY <1>1, <1>2, <1>10, <2>1 DEF vars, host, disk, CursorInv, SpanInv, Kept, TailInv
<1>11. QED
  BY <1>3, <1>4, <1>5, <1>6, <1>7, <1>8, <1>9, <1>10 DEF Next, HookStep

LEMMA TailInit == Init => TailInv
<1> SUFFICES ASSUME Init PROVE TailInv
  OBVIOUS
<1>1. TypeOK /\ HostInv
  BY BaseInit
<1>2. InTurn = {} /\ owed = {} /\ pc = "idle"
  BY DEF Init, InTurn, NoAssistantTurn, Extracted, InFile
<1>3. QED
  BY <1>1, <1>2 DEF TailInv, CursorInv, SpanInv, Sending

\* ClaudeStop!NoTailLost: whatever a Stop meets, no thought or reply whose
\* adjudication failed leaves the reach of the retry cursor before it is
\* recorded, and the stored cursor passes no unrecorded one of the latest turn.
THEOREM NoTailLostHolds == Spec => []NoTailLost
<1>1. Spec => []TailInv
  BY TailInit, TailStep, PTL DEF Spec
<1>2. TailInv => NoTailLost
  <2> SUFFICES ASSUME TailInv PROVE NoTailLost
    OBVIOUS
  <2>1. \A i \in owed \cup InTurn : Kept(i) <=> recorded[i] > 0 \/ (retry > 0 /\ retry < i)
    <3>1. owed \cup InTurn \subseteq DOMAIN recorded
      <4>1. /\ flushed \in 0..Len(lines) /\ Len(lines) <= MaxLines
            /\ Len(lines) \in Nat /\ MaxLines \in Nat
            /\ DOMAIN recorded = 1..MaxLines
        BY DEF TailInv, TypeOK, MaxLines
      <4>2. owed \cup InTurn \subseteq 1..flushed
        BY Offsets DEF TailInv
      <4>3. QED
        BY <4>1, <4>2
    <3>2. QED
      BY <3>1 DEF Kept, Sent
  <2>2. ~NoAssistantTurn => InTurn = Extracted(TurnStart)
    BY DEF InTurn
  <2>3. QED
    BY <2>1, <2>2 DEF TailInv, CursorInv, NoTailLost
<1>3. QED
  BY <1>1, <1>2, PTL

-----------------------------------------------------------------------------
\* A step at which something fails is out of OnceInv's reach.
LEMMA OnceFault == ASSUME TypeOK, Fault PROVE OnceInv'
BY DEF TypeOK, Fault, OnceInv

\* The offsets of the sent lines, and that each was sent once.
LEMMA SentOffsets ==
    ASSUME TypeOK
    PROVE  /\ flushed \in Nat /\ Sent \subseteq 1..MaxLines /\ MaxLines \in Nat
           /\ recorded \in [1..MaxLines -> 0..2]
           /\ cursor \in 0..flushed /\ from \in 0..flushed /\ through \in 0..flushed
           /\ pending \subseteq 1..flushed
<1>1. MaxLines \in Nat
  BY DEF MaxLines
<1>2. recorded \in [1..MaxLines -> 0..2]
  BY DEF TypeOK
<1>3. Sent \subseteq 1..MaxLines
  BY <1>2 DEF Sent
<1>4. QED
  BY <1>1, <1>2, <1>3, Offsets

\* A step outside reading and sending.
LEMMA OnceQuiet ==
    ASSUME TypeOK, OnceInv, pc \notin Sending \cup {"reading"},
           UNCHANGED <<faults, recorded>>, cursor' \in Nat, cursor' >= cursor,
           retry' \in {0, retry}, pc' \notin Sending \cup {"reading"}
    PROVE  OnceInv'
<1> SUFFICES ASSUME faults = 0 PROVE OnceInv'
  BY DEF OnceInv
<1>1. Sent' = Sent
  BY DEF Sent
<1>2. cursor \in Nat /\ \A i \in Sent : i \in Nat
  BY SentOffsets
<1>3. /\ retry' = 0 /\ pc' # "retrying"
      /\ \A i \in Sent' : recorded'[i] = 1
      /\ \A i \in Sent : i <= cursor
  BY <1>1 DEF OnceInv, Sending
<1>4. \A i \in Sent' : i <= cursor'
  BY <1>1, <1>2, <1>3
<1>5. QED
  BY <1>3, <1>4 DEF OnceInv, Sending

\* The plan of a Stop without a retry starts behind everything that is sent.
LEMMA OncePlanned ==
    ASSUME TypeOK, HostInv, OnceInv, ~NoAssistantTurn, pc \notin Sending \cup {"reading"},
           UNCHANGED <<faults, recorded, cursor, retry>>, from' = ReadFrom, pc' = "reading"
    PROVE  OnceInv'
<1> SUFFICES ASSUME faults = 0 PROVE OnceInv'
  BY DEF OnceInv
<1>1. Sent' = Sent
  BY DEF Sent
<1>2. /\ cursor \in Nat /\ \A i \in Sent : i \in Nat
      /\ ReadFrom \in Nat /\ TurnStart \in Nat
  BY SentOffsets, ReadFromInFile
<1>3. /\ retry = 0 /\ \A i \in Sent : recorded[i] = 1 /\ i <= cursor
  BY DEF OnceInv
<1>4. ReadFrom >= cursor
  <2>1. ~RetryActive
    BY <1>3 DEF RetryActive
  <2>2. QED
    BY <1>2, <2>1, ReadFromInFile
<1>5. \A i \in Sent : i <= ReadFrom
  BY <1>2, <1>3, <1>4
<1>6. QED
  BY <1>1, <1>3, <1>5 DEF OnceInv, Sending

LEMMA OnceRead ==
    ASSUME TypeOK, OnceInv, Read
    PROVE  OnceInv'
<1> SUFFICES ASSUME faults = 0 PROVE OnceInv'
  BY DEF Read, OnceInv
<1>0. pc = "reading" /\ UNCHANGED <<faults, recorded>>
  BY DEF Read
<1>1. Sent' = Sent
  BY <1>0 DEF Sent
<1>2. /\ cursor \in 0..flushed /\ from \in 0..flushed /\ flushed \in Nat
      /\ \A i \in Sent : i \in Nat
  BY SentOffsets
<1>3. /\ retry = 0
      /\ \A i \in Sent : recorded[i] = 1 /\ i <= from /\ i <= cursor
  BY <1>0 DEF OnceInv
<1>4. CASE Extracted(from) = {}
  <2>1. retry' = 0 /\ pc' = "idle" /\ cursor' \in {flushed, cursor}
    BY <1>4 DEF Read, Go
  <2>2. \A i \in Sent : i <= cursor'
    BY <1>2, <1>3, <2>1
  <2>3. QED
    BY <1>0, <1>1, <1>3, <2>1, <2>2 DEF OnceInv, Sending
<1>5. CASE Extracted(from) # {}
  <2>1. /\ retry' = retry /\ pc' = "sending" /\ pending' = Extracted(from)
        /\ through' = Max(Extracted(from))
    BY <1>5 DEF Read, Go, disk
  <2>2. through' \in Nat /\ through' > from /\ \A i \in pending' : i > from
    <3>1. \A i \in Extracted(from) : i > from /\ i \in Nat
      BY <1>2 DEF Extracted, InFile
    <3>2. through' \in Extracted(from)
      BY <1>2, <1>5, <2>1, ExtractedMax
    <3>3. QED
      BY <2>1, <3>1, <3>2
  <2>3. \A i \in Sent : i <= through' /\ i \notin pending'
    BY <1>2, <1>3, <2>2
  <2>4. QED
    BY <1>0, <1>1, <1>3, <2>1, <2>3 DEF OnceInv, Sending
<1>6. QED
  BY <1>4, <1>5

\* A batch holds only lines that were never sent.
LEMMA OnceSend ==
    ASSUME TypeOK, SpanInv, OnceInv, SendBatch
    PROVE  OnceInv'
<1> SUFFICES ASSUME faults = 0 PROVE OnceInv'
  BY DEF SendBatch, OnceInv
<1>0. /\ pc = "sending" /\ UNCHANGED <<faults, retry, through>> /\ Record(Batch)
      /\ pending' = pending \ Batch /\ pc' \in {"sending", "committing"}
      /\ Batch \subseteq pending
  BY DEF SendBatch, Go, disk, Batch
<1>1. Sent' = Sent \cup Batch
  BY <1>0, Recorded
<1>2. /\ retry = 0 /\ \A i \in Sent : recorded[i] = 1 /\ i <= through /\ i \notin pending
  BY <1>0 DEF OnceInv, Sending
<1>3. \A i \in pending : i <= through
  BY <1>0 DEF SpanInv, Sending
<1>4. \A i \in Sent' : i <= through' /\ i \notin pending'
  BY <1>0, <1>1, <1>2, <1>3
<1>5. \A i \in Sent' : recorded'[i] = 1
  <2> SUFFICES ASSUME NEW i \in Sent' PROVE recorded'[i] = 1
    OBVIOUS
  <2>1. recorded' = [j \in 1..MaxLines |->
                        IF j \in Batch /\ recorded[j] < 2 THEN recorded[j] + 1
                        ELSE recorded[j]]
    BY <1>0, SentOffsets DEF Record
  <2>2. i \in 1..MaxLines
    <3>1. DOMAIN recorded' = 1..MaxLines
      BY <2>1
    <3>2. QED
      BY <3>1 DEF Sent
  <2>3. CASE i \in Sent
    <3>1. i \notin Batch /\ recorded[i] = 1
      BY <1>0, <1>2, <2>3
    <3>2. QED
      BY <2>1, <2>2, <3>1
  <2>4. CASE i \in Batch
    <3>1. i \notin Sent /\ recorded[i] \in 0..2
      BY <1>0, <1>2, <2>2, <2>4, SentOffsets
    <3>2. recorded[i] = 0
      BY <2>2, <3>1, SentOffsets DEF Sent
    <3>3. QED
      BY <2>1, <2>2, <2>4, <3>2
  <2>5. QED
    BY <1>1, <2>3, <2>4
<1>6. QED
  BY <1>0, <1>2, <1>4, <1>5 DEF OnceInv, Sending

LEMMA OnceStep ==
    ASSUME TailInv, OnceInv, [Next]_vars
    PROVE  OnceInv'
<1>1. TypeOK /\ HostInv /\ CursorInv /\ SpanInv /\ TypeOK'
  BY BaseStep DEF TailInv
<1>2. /\ flushed \in Nat /\ cursor \in 0..flushed /\ cursor' \in Nat
      /\ faults \in Nat
  <2>1. flushed \in Nat /\ cursor \in 0..flushed /\ faults \in Nat
    BY <1>1, Offsets DEF TypeOK
  <2>2. cursor' \in 0..flushed' /\ flushed' \in 0..Len(lines') /\ lines' \in Seq(Lines)
    BY <1>1 DEF TypeOK
  <2>3. QED
    BY <2>1, <2>2
<1>3. CASE CatchUpTimesOut \/ Unreadable \/ RecordPayloadFails \/ SendFails \/ Dies
  BY <1>1, <1>3, OnceFault DEF CatchUpTimesOut, Unreadable, RecordPayloadFails, SendFails, Dies
<1>4. CASE Turn \/ StopActive \/ NoPath \/ RecordPayload
  <2>1. /\ pc \in {"idle", "start", "recording"}
        /\ UNCHANGED <<faults, recorded, cursor, retry>>
        /\ pc' \in {"idle", "start", "recording"}
    BY <1>4 DEF Turn, StopActive, NoPath, RecordPayload, disk, Go
  <2>2. /\ pc \notin Sending \cup {"reading"} /\ pc' \notin Sending \cup {"reading"}
    BY <2>1 DEF Sending
  <2>3. QED
    BY <1>1, <1>2, <2>1, <2>2, OnceQuiet
<1>5. CASE StartReading
  <2>1. /\ UNCHANGED <<faults, recorded>> /\ pc = "start"
    BY <1>5 DEF StartReading
  <2>2. CASE pc' \in {"polling", "idle"}
    <3>1. (retry' = retry /\ cursor' = cursor) \/ (retry' = 0 /\ cursor' = flushed)
      BY <1>5, <2>2 DEF StartReading, disk, Go
    <3>2. pc \notin Sending \cup {"reading"} /\ pc' \notin Sending \cup {"reading"}
      BY <2>1, <2>2 DEF Sending
    <3>3. cursor' >= cursor
      BY <1>2, <3>1
    <3>4. QED
      BY <1>1, <1>2, <2>1, <3>1, <3>2, <3>3, OnceQuiet
  <2>3. CASE pc' = "reading"
    <3>1. ~NoAssistantTurn /\ from' = ReadFrom /\ UNCHANGED <<cursor, retry>>
      BY <1>5, <2>3 DEF StartReading, disk, Go
    <3>2. pc \notin Sending \cup {"reading"}
      BY <2>1 DEF Sending
    <3>3. QED
      BY <1>1, <2>1, <2>3, <3>1, <3>2, OncePlanned
  <2>4. QED
    BY <1>5, <2>2, <2>3 DEF StartReading, Go
<1>6. CASE CatchUp
  <2>1. /\ UNCHANGED <<faults, recorded, cursor, retry>> /\ pc = "polling"
        /\ ~NoAssistantTurn /\ from' = ReadFrom /\ pc' = "reading"
    BY <1>6 DEF CatchUp, disk, Go
  <2>2. pc \notin Sending \cup {"reading"}
    BY <2>1 DEF Sending
  <2>3. QED
    BY <1>1, <2>1, <2>2, OncePlanned
<1>7. CASE Read \/ SendBatch
  BY <1>1, <1>7, OnceRead, OnceSend
<1>8. CASE WriteRetry
  BY <1>2, <1>8 DEF WriteRetry, OnceInv
<1>9. CASE Commit
  <2>1. /\ UNCHANGED <<faults, retry, recorded, through, pending>>
        /\ pc = "committing" /\ pc' = "clearing" /\ Sent' = Sent
    BY <1>9 DEF Commit, Go, Sent
  <2>2. QED
    BY <2>1 DEF OnceInv, Sending
<1>10. CASE ClearRetry
  <2>1. /\ UNCHANGED <<faults, cursor, recorded>> /\ retry' = 0
        /\ pc = "clearing" /\ pc' = "idle" /\ Sent' = Sent
    BY <1>10 DEF ClearRetry, Go, Sent
  <2>2. cursor = through
    BY <1>1, <2>1 DEF SpanInv
  <2>3. QED
    BY <2>1, <2>2 DEF OnceInv, Sending
<1>11. CASE Flush \/ UNCHANGED vars
  <2>1. /\ UNCHANGED <<faults, cursor, retry, recorded, pc, from, through, pending>>
        /\ Sent' = Sent
    BY <1>11 DEF Flush, vars, disk, Sent
  <2>2. QED
    BY <2>1 DEF OnceInv
<1>12. QED
  BY <1>3, <1>4, <1>5, <1>6, <1>7, <1>8, <1>9, <1>10, <1>11 DEF Next, HookStep

\* ClaudeStop!OnceWithoutFaults: Stops that meet no failure, kill or late
\* transcript never record a thought or a reply twice, however their reads overlap
\* with what the host has yet to write.
THEOREM OnceWithoutFaultsHolds == Spec => []OnceWithoutFaults
<1>1. Init => TailInv /\ OnceInv
  <2>1. Init => Sent = {}
    <3>1. MaxLines \in Nat
      BY DEF MaxLines
    <3>2. QED
      BY <3>1 DEF Init, Sent
  <2>2. Init => OnceInv
    BY <2>1 DEF Init, OnceInv, Sending
  <2>3. QED
    BY <2>2, TailInit
<1>2. TailInv /\ OnceInv /\ [Next]_vars => (TailInv /\ OnceInv)'
  BY TailStep, OnceStep
<1>3. TailInv /\ OnceInv => OnceWithoutFaults
  <2> SUFFICES ASSUME TypeOK, OnceInv, faults = 0, NEW i \in DOMAIN recorded
               PROVE  recorded[i] <= 1
    BY DEF TailInv, OnceWithoutFaults
  <2>1. recorded[i] \in 0..2
    BY SentOffsets
  <2>2. i \in Sent => recorded[i] = 1
    BY DEF OnceInv
  <2>3. QED
    BY <2>1, <2>2 DEF Sent
<1>4. QED
  BY <1>1, <1>2, <1>3, PTL DEF Spec
=============================================================================
