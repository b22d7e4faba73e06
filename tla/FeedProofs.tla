------------------------------ MODULE FeedProofs ------------------------------
(***************************************************************************)
(* Proofs about Feed, for any runs and agents, any number of writes, and   *)
(* any number of calls that fail or feeds that are reloaded.               *)
(***************************************************************************)
EXTENDS Feed, SequenceTheorems, TLAPS

LOCAL INSTANCE SequencesExt

USE OwnerAssumption

-----------------------------------------------------------------------------
(***************************************************************************)
(* Sequences and partial functions.                                        *)
(***************************************************************************)
IsSeq(s) == s \in Seq(ToSet(s))

LEMMA MapIsSeq == ASSUME NEW S, NEW n \in Nat, NEW f \in [1..n -> S] PROVE f \in Seq(S)
<1>1. \E k \in Nat : f \in [1..k -> S]
  OBVIOUS
<1>2. QED
  BY <1>1, SeqDef, Zenon

LEMMA SeqOfItems == ASSUME NEW T, NEW s \in Seq(T) PROVE IsSeq(s) /\ ToSet(s) \subseteq T
<1>1. /\ Len(s) \in Nat /\ s \in [1..Len(s) -> T] /\ DOMAIN s = 1..Len(s)
  BY LenProperties
<1>2. s \in [1..Len(s) -> ToSet(s)] /\ ToSet(s) \subseteq T
  BY <1>1 DEF ToSet
<1>3. s \in Seq(ToSet(s))
  BY <1>1, <1>2, MapIsSeq
<1>4. QED
  BY <1>2, <1>3, Zenon DEF IsSeq

LEMMA AppendItems ==
    ASSUME NEW s, IsSeq(s), NEW e
    PROVE  /\ IsSeq(Append(s, e)) /\ ToSet(Append(s, e)) = ToSet(s) \cup {e}
           /\ Len(s) \in Nat /\ Len(Append(s, e)) = Len(s) + 1
           /\ DOMAIN s = 1..Len(s) /\ DOMAIN Append(s, e) = 1..Len(s) + 1
           /\ \A i \in 1..Len(s) : Append(s, e)[i] = s[i]
           /\ Append(s, e)[Len(s) + 1] = e
<1> DEFINE T == ToSet(s) \cup {e}
           a == Append(s, e)
<1>1. s \in Seq(T) /\ e \in T
  <2>1. s \in Seq(ToSet(s)) /\ ToSet(s) \subseteq T
    BY DEF IsSeq
  <2> HIDE DEF T
  <2>2. s \in Seq(T)
    BY <2>1
  <2>3. QED
    BY <2>2 DEF T
<1>2. /\ a \in Seq(T) /\ Len(s) \in Nat /\ Len(a) = Len(s) + 1
      /\ DOMAIN s = 1..Len(s) /\ DOMAIN a = 1..Len(s) + 1
      /\ \A i \in 1..Len(s) : a[i] = s[i]
      /\ a[Len(s) + 1] = e
  <2> HIDE DEF T
  <2>1. QED
    BY <1>1, AppendProperties, LenProperties
<1>3. ToSet(a) = ToSet(s) \cup {e}
  <2> HIDE DEF T, a
  <2>1. \A i \in 1..Len(s) + 1 : i \in 1..Len(s) \/ i = Len(s) + 1
    BY <1>2
  <2>2. QED
    BY <1>2, <2>1 DEF ToSet
<1>4. IsSeq(a)
  <2> HIDE DEF T, a
  <2>1. QED
    BY <1>2, SeqOfItems
<1>5. QED
  BY <1>2, <1>3, <1>4

LEMMA TailItems ==
    ASSUME NEW s, IsSeq(s), s # << >>
    PROVE  /\ IsSeq(Tail(s)) /\ ToSet(Tail(s)) \subseteq ToSet(s)
           /\ Len(s) \in Nat \ {0} /\ DOMAIN s = 1..Len(s) /\ Head(s) = s[1]
           /\ Head(s) \in ToSet(s)
           /\ DOMAIN Tail(s) = 1..Len(s) - 1
           /\ \A i \in 1..Len(s) - 1 : Tail(s)[i] = s[i + 1]
<1>1. /\ s \in Seq(ToSet(s)) /\ Tail(s) \in Seq(ToSet(s))
      /\ Len(s) \in Nat \ {0} /\ DOMAIN s = 1..Len(s) /\ Head(s) = s[1]
      /\ Len(Tail(s)) = Len(s) - 1 /\ DOMAIN Tail(s) = 1..Len(Tail(s))
      /\ \A i \in 1..Len(s) - 1 : Tail(s)[i] = s[i + 1]
  BY HeadTailProperties, LenProperties, EmptySeq DEF IsSeq
<1>2. Head(s) \in ToSet(s)
  BY <1>1 DEF ToSet
<1>3. QED
  BY <1>1, <1>2, SeqOfItems

\* One element is taken out; the others stay, in their order.
LEMMA RemoveItem ==
    ASSUME NEW T, NEW s \in Seq(T), NEW i \in DOMAIN s
    PROVE  /\ RemoveAt(s, i) \in Seq(T)
           /\ DOMAIN RemoveAt(s, i) = 1..Len(s) - 1 /\ Len(s) \in Nat /\ i \in 1..Len(s)
           /\ \A j \in 1..Len(s) - 1 :
                  RemoveAt(s, i)[j] = IF j < i THEN s[j] ELSE s[j + 1]
<1>1. Len(s) \in Nat /\ i \in 1..Len(s)
  BY LenProperties
<1>2. PICK a : a = SubSeq(s, 1, i - 1)
  OBVIOUS
<1>3. PICK b : b = SubSeq(s, i + 1, Len(s))
  OBVIOUS
<1>4. PICK c : c = a \o b
  OBVIOUS
<1>5. RemoveAt(s, i) = c
  BY <1>2, <1>3, <1>4 DEF RemoveAt
<1>6. a \in Seq(T) /\ Len(a) = i - 1 /\ \A j \in 1..i - 1 : a[j] = s[j]
  BY <1>1, <1>2
<1>7. b \in Seq(T) /\ Len(b) = Len(s) - i /\ \A j \in 1..Len(s) - i : b[j] = s[i + j]
  BY <1>1, <1>3
<1>8. /\ c \in Seq(T) /\ Len(c) = Len(a) + Len(b)
      /\ \A j \in 1..Len(a) + Len(b) :
            c[j] = IF j <= Len(a) THEN a[j] ELSE b[j - Len(a)]
  BY <1>4, <1>6, <1>7, ConcatProperties
<1>9. PICK n \in Nat, m \in Nat : n = Len(a) /\ m = Len(b) /\ n = i - 1 /\ m = Len(s) - i
  BY <1>1, <1>6, <1>7
<1>10. ASSUME NEW j \in 1..Len(s) - 1
       PROVE  c[j] = IF j < i THEN s[j] ELSE s[j + 1]
  <2>1. j \in 1..n + m
    BY <1>1, <1>9
  <2>2. c[j] = IF j <= n THEN a[j] ELSE b[j - n]
    BY <1>8, <1>9, <2>1
  <2>3. CASE j < i
    <3>1. j \in 1..i - 1 /\ j <= n
      BY <1>1, <1>9, <2>3
    <3>2. QED
      BY <1>6, <2>2, <2>3, <3>1
  <2>4. CASE ~(j < i)
    <3>1. j - n \in 1..Len(s) - i /\ i + (j - n) = j + 1 /\ ~(j <= n)
      BY <1>1, <1>9, <2>4
    <3>2. QED
      BY <1>7, <2>2, <2>4, <3>1
  <2>5. QED
    BY <2>3, <2>4
<1>11. DOMAIN c = 1..Len(s) - 1
  <2>1. n + m = Len(s) - 1
    BY <1>1, <1>9
  <2>2. DOMAIN c = 1..Len(c)
    BY <1>8, LenProperties
  <2>3. QED
    BY <1>8, <1>9, <2>1, <2>2
<1>12. QED
  BY <1>1, <1>5, <1>8, <1>10, <1>11

OneLess(T, s, i) ==
    /\ RemoveAt(s, i) \in Seq(T)
    /\ DOMAIN RemoveAt(s, i) = 1..Len(s) - 1 /\ Len(s) \in Nat /\ i \in 1..Len(s)
    /\ \A j \in 1..Len(s) - 1 :
           RemoveAt(s, i)[j] = IF j < i THEN s[j] ELSE s[j + 1]

COROLLARY ItemRemoved ==
    ASSUME NEW T, NEW s \in Seq(T), NEW i \in DOMAIN s PROVE OneLess(T, s, i)
  BY RemoveItem DEF OneLess

LEMMA RemoveLeaves ==
    ASSUME NEW T, NEW s \in Seq(T), NEW i \in DOMAIN s
    PROVE  \A j \in DOMAIN RemoveAt(s, i) : \E k \in DOMAIN s : RemoveAt(s, i)[j] = s[k]
<1>1. /\ DOMAIN RemoveAt(s, i) = 1..Len(s) - 1 /\ Len(s) \in Nat
      /\ \A j \in 1..Len(s) - 1 :
             RemoveAt(s, i)[j] = IF j < i THEN s[j] ELSE s[j + 1]
  BY RemoveItem
<1>2. DOMAIN s = 1..Len(s)
  BY LenProperties
<1>3. \A j \in 1..Len(s) - 1 : j \in 1..Len(s) /\ j + 1 \in 1..Len(s)
  BY <1>1
<1>4. QED
  BY <1>1, <1>2, <1>3

LEMMA PartialMaps ==
    ASSUME NEW S, NEW f, Partial(f, S)
    PROVE  /\ \A r \in DOMAIN f : r \in Runs /\ f[r] \in S
           /\ \A g : Partial(g, S) => Partial(Over(f, g), S)
           /\ \A r \in Runs, v \in S : Partial(With(f, r, v), S)
           /\ \A K : Partial(Only(f, K), S)
BY DEF Partial, Over, With, Only

-----------------------------------------------------------------------------
(***************************************************************************)
(* Types, part by part.                                                    *)
(***************************************************************************)
ServerOK == store \in [Runs -> Row] /\ agents \subseteq Agents /\ late \subseteq Runs
TailOK(t) ==
    /\ t \in [pc : {"off", "poll", "rollup", "send"}, prints : {t.prints},
             seen : {t.seen}, out : Seq(Runs \X Row)]
    /\ Partial(t.prints, Mark) /\ Partial(t.seen, Mark)
MailOK == IsSeq(inbox) /\ \A m \in ToSet(inbox) : MessageOK(m)
FlightOK(f) ==
    /\ f \in [busy : BOOLEAN, gen : Nat, asked : SUBSET Runs, got : {f.got}]
    /\ Partial(f.got, Row)
AppOK(a) ==
    /\ a \in [rows : {a.rows}, load : {"Loading", "Ready", "Live", "Failed"},
             strips : {a.strips}, pending : {a.pending}, failed : BOOLEAN,
             known : SUBSET Agents, asked : SUBSET Agents]
    /\ Partial(a.rows, Row) /\ Partial(a.pending, Mark)
    /\ Partial(a.strips, [revision : Mark, of : Row])
TaskOK ==
    /\ task \in {"listing", "opening", "streaming", "ended", "none"}
    /\ fetches \in Seq(Nat)
    /\ gen \in Nat \ {0}
    /\ used \in [DOMAIN Bounds -> Nat]

LEMMA TypeParts ==
    TypeOK <=> ServerOK /\ TailOK(tail) /\ MailOK /\ FlightOK(strips) /\ AppOK(app) /\ TaskOK
BY Zenon DEF TypeOK, ServerOK, TailOK, MailOK, FlightOK, AppOK, TaskOK, IsSeq

LEMMA NothingYet == ASSUME NEW S PROVE Partial(None, S) /\ DOMAIN None = {}
BY DEF Partial, None

LEMMA Reading ==
    ASSUME ServerOK
    PROVE  /\ \A r \in Runs : Fingerprint(r) \in Mark /\ store[r] \in Row
           /\ Partial(Rows, Row) /\ DOMAIN Rows = {r \in Runs : Live(r)}
           /\ \A r \in DOMAIN Rows : Rows[r] = store[r]
           /\ \A row \in Row : Revision(row) \in Mark
BY DEF ServerOK, Fingerprint, Row, Mark, Rows, Partial, Revision

LEMMA TypeInit == Init => TypeOK
<1> SUFFICES ASSUME Init PROVE TypeOK
  OBVIOUS
<1>1. ServerOK
  BY DEF Init, ServerOK, NoRows, Row
<1>2. TailOK(tail)
  BY NothingYet, EmptySeq DEF Init, TailOK, TailOff
<1>3. MailOK
  <2>1. inbox \in Seq({}) /\ inbox = << >>
    BY EmptySeq DEF Init
  <2>2. ToSet(inbox) = {}
    BY <2>1 DEF ToSet
  <2>3. QED
    BY <2>1, <2>2, SeqOfItems DEF MailOK
<1>4. FlightOK(strips)
  BY NothingYet DEF Init, FlightOK, Idle
<1>5. AppOK(app)
  BY NothingYet DEF Init, AppOK
<1>6. TaskOK
  BY EmptySeq DEF Init, TaskOK
<1>7. QED
  BY <1>1, <1>2, <1>3, <1>4, <1>5, <1>6, TypeParts

LEMMA ServerStep ==
    ASSUME ServerOK, Ledger
    PROVE  ServerOK'
<1>1. CASE \E r \in Runs, shown, newer \in BOOLEAN : InsertEvent(r, shown, newer)
  <2>1. PICK r \in Runs, shown \in BOOLEAN, newer \in BOOLEAN : InsertEvent(r, shown, newer)
    BY <1>1
  <2>2. store[r] \in Row
    BY DEF ServerOK
  <2>3. [count |-> store[r].count + 1,
         shown |-> IF shown THEN store[r].shown + 1 ELSE store[r].shown,
         last |-> IF newer \/ store[r].count = 0 THEN store[r].last + 1
                  ELSE store[r].last] \in Row
    BY <2>2 DEF Row
  <2>4. store' \in [Runs -> Row]
    BY <2>1, <2>3 DEF InsertEvent, ServerOK
  <2>5. agents' \subseteq Agents /\ late' \subseteq Runs
    BY <2>1 DEF InsertEvent, ServerOK
  <2>6. QED
    BY <2>4, <2>5 DEF ServerOK
<1>2. CASE \E a \in Agents : DeleteAgent(a)
  <2>1. PICK a \in Agents : DeleteAgent(a)
    BY <1>2
  <2>2. \A r \in Runs : store[r] \in Row /\ [NoRows EXCEPT !.last = store[r].last] \in Row
    BY DEF ServerOK, Row, NoRows
  <2>3. store' \in [Runs -> Row]
    BY <2>1, <2>2 DEF DeleteAgent
  <2>4. QED
    BY <2>1, <2>3 DEF DeleteAgent, ServerOK
<1>3. QED
  BY <1>1, <1>2 DEF Ledger

LEMMA TailStep ==
    ASSUME ServerOK, TailOK(tail), RosterTail
    PROVE  TailOK(tail')
<1>0. /\ tail.out \in Seq(Runs \X Row) /\ Partial(tail.prints, Mark) /\ Partial(tail.seen, Mark)
  BY DEF TailOK
<1>1. CASE ReadFingerprints
  <2>1. PICK prints : /\ prints = [r \in {q \in Runs : Live(q) /\ Changed(q)} |-> Fingerprint(r)]
                      /\ tail' = [tail EXCEPT !.pc = "rollup", !.prints = prints]
    BY <1>1 DEF ReadFingerprints
  <2>2. Partial(prints, Mark)
    BY <2>1, Reading DEF Partial
  <2>3. QED
    BY <2>1, <2>2 DEF TailOK
<1>2. CASE Send
  <2>1. CASE tail.out = << >>
    BY <1>2, <2>1 DEF Send, TailOK
  <2>2. CASE tail.out # << >>
    <3>1. PICK i \in DOMAIN tail.out : tail' = [tail EXCEPT !.out = RemoveAt(tail.out, i)]
      BY <1>2, <2>2 DEF Send
    <3>2. RemoveAt(tail.out, i) \in Seq(Runs \X Row)
      <4>1. OneLess(Runs \X Row, tail.out, i)
        BY <1>0, ItemRemoved, Zenon
      <4>2. QED
        BY <4>1 DEF OneLess
    <3>3. QED
      BY <3>1, <3>2 DEF TailOK
  <2>3. QED
    BY <2>1, <2>2
<1>3. CASE \E r \in Runs : Rollup(r)
  <2>1. PICK r \in Runs : Rollup(r)
    BY <1>3
  <2>2. PICK seen, prints, out, pc :
            /\ seen = With(tail.seen, r, tail.prints[r])
            /\ prints = Only(tail.prints, DOMAIN tail.prints \ {r})
            /\ out = IF Live(r) THEN Append(tail.out, <<r, store[r]>>) ELSE tail.out
            /\ pc \in {"send", tail.pc}
            /\ tail' = [tail EXCEPT !.seen = seen, !.prints = prints, !.out = out, !.pc = pc]
    BY <2>1 DEF Rollup
  <2>3. tail.prints[r] \in Mark
    BY <1>0, <2>1, PartialMaps DEF Rollup
  <2>4. Partial(seen, Mark) /\ Partial(prints, Mark)
    BY <1>0, <2>2, <2>3, PartialMaps
  <2>5. out \in Seq(Runs \X Row)
    <3>1. <<r, store[r]>> \in Runs \X Row
      BY Reading
    <3>2. QED
      BY <1>0, <2>2, <3>1
  <2>6. QED
    BY <2>2, <2>4, <2>5 DEF TailOK
<1>4. QED
  BY <1>1, <1>2, <1>3 DEF RosterTail

LEMMA MailGrows ==
    ASSUME MailOK, NEW m, MessageOK(m), inbox' = Append(inbox, m)
    PROVE  MailOK'
<1>1. IsSeq(inbox') /\ ToSet(inbox') = ToSet(inbox) \cup {m}
  BY AppendItems DEF MailOK
<1>2. QED
  BY <1>1 DEF MailOK

\* The messages of the roster tail, the feed's task and the calls.
LEMMA MailStep ==
    ASSUME TypeOK, RosterTail \/ Calls
    PROVE  MailOK'
<1>0. /\ ServerOK /\ TailOK(tail) /\ MailOK /\ FlightOK(strips) /\ AppOK(app) /\ TaskOK
      /\ gen \in Nat /\ None = None
  BY TypeParts DEF TaskOK
<1>1. CASE inbox' = inbox
  BY <1>0, <1>1 DEF MailOK
<1>2. CASE \E m : MessageOK(m) /\ inbox' = Append(inbox, m)
  BY <1>0, <1>2, MailGrows
<1>3. CASE Send
  <2>1. CASE tail.out # << >>
    <3>1. PICK i \in DOMAIN tail.out :
              inbox' = Append(inbox, [kind |-> "update", gen |-> gen, row |-> tail.out[i]])
      BY <1>3, <2>1 DEF Send
    <3>2. tail.out[i] \in Runs \X Row
      <4>1. tail.out \in Seq(Runs \X Row)
        BY <1>0 DEF TailOK
      <4>2. QED
        BY <3>1, <4>1, ElementOfSeq, LenProperties
    <3>3. MessageOK([kind |-> "update", gen |-> gen, row |-> tail.out[i]])
      BY <1>0, <3>2 DEF MessageOK
    <3>4. QED
      BY <1>2, <3>1, <3>3
  <2>2. QED
    BY <1>1, <1>3, <2>1 DEF Send
<1>4. CASE ReadFingerprints \/ \E r \in Runs : Rollup(r)
  BY <1>1, <1>4 DEF ReadFingerprints, Rollup
<1>5. CASE ListReplies
  BY <1>0, <1>2, <1>5, Reading DEF ListReplies, Says, MessageOK
<1>6. CASE ListFails
  BY <1>0, <1>2, <1>6, NothingYet DEF ListFails, Says, MessageOK
<1>7. CASE StreamOpens \/ StreamEnds
  BY <1>0, <1>2, <1>7 DEF StreamOpens, StreamEnds, Says, MessageOK
<1>8. CASE \E i \in DOMAIN fetches : AgentsReply(i) \/ AgentsFail(i)
  <2>1. PICK i \in DOMAIN fetches : AgentsReply(i) \/ AgentsFail(i)
    BY <1>8
  <2>2. fetches[i] \in Nat
    BY <1>0, <2>1, ElementOfSeq, LenProperties DEF TaskOK
  <2>3. agents \subseteq Agents
    BY <1>0 DEF ServerOK
  <2>4. QED
    BY <1>1, <1>2, <2>1, <2>2, <2>3 DEF AgentsReply, AgentsFail, Says, MessageOK
<1>9. CASE \E r \in Runs : BuildStrip(r)
  BY <1>1, <1>9 DEF BuildStrip
<1>10. CASE \E ok \in BOOLEAN : StripsReply(ok)
  <2>1. PICK ok \in BOOLEAN : StripsReply(ok)
    BY <1>10
  <2>2. strips.gen \in Nat /\ Partial(strips.got, Row)
    BY <1>0 DEF FlightOK
  <2>3. PICK m : /\ m = [kind |-> "strips", gen |-> strips.gen, ok |-> ok, rows |-> strips.got]
                 /\ inbox' = Append(inbox, m)
    BY <2>1 DEF StripsReply, Says
  <2>4. m.ok \in BOOLEAN
    BY <2>3, Zenon
  <2>5. MessageOK(m)
    BY <2>2, <2>3, <2>4 DEF MessageOK
  <2>6. QED
    BY <1>2, <2>3, <2>5
<1>11. QED
  BY <1>3, <1>4, <1>5, <1>6, <1>7, <1>8, <1>9, <1>10 DEF RosterTail, Calls

LEMMA CallStep ==
    ASSUME TypeOK, Calls
    PROVE  TailOK(tail') /\ FlightOK(strips')
<1>0. /\ ServerOK /\ TailOK(tail) /\ FlightOK(strips) /\ Partial(strips.got, Row)
  BY TypeParts DEF FlightOK
<1>1. CASE ListReplies \/ ListFails \/ \E i \in DOMAIN fetches : AgentsReply(i) \/ AgentsFail(i)
  BY <1>0, <1>1 DEF ListReplies, ListFails, AgentsReply, AgentsFail
<1>2. CASE StreamOpens \/ StreamEnds
  <2>1. TailOK(TailOff) /\ TailOK([TailOff EXCEPT !.pc = "poll"])
    BY NothingYet, EmptySeq DEF TailOK, TailOff
  <2>2. QED
    BY <1>0, <1>2, <2>1 DEF StreamOpens, StreamEnds
<1>3. CASE \E r \in Runs : BuildStrip(r)
  <2>1. PICK r \in Runs : BuildStrip(r)
    BY <1>3
  <2>2. PICK got : /\ got = IF Live(r) THEN With(strips.got, r, store[r]) ELSE strips.got
                   /\ strips' = [strips EXCEPT !.asked = strips.asked \ {r}, !.got = got]
    BY <2>1 DEF BuildStrip
  <2>3. Partial(got, Row)
    BY <1>0, <2>2, Reading, PartialMaps
  <2>4. FlightOK(strips')
    BY <1>0, <2>2, <2>3 DEF FlightOK
  <2>5. QED
    BY <1>0, <2>1, <2>4 DEF BuildStrip
<1>4. CASE \E ok \in BOOLEAN : StripsReply(ok)
  <2>1. strips' = [strips EXCEPT !.gen = 0] /\ tail' = tail
    BY <1>4 DEF StripsReply
  <2>2. QED
    BY <1>0, <2>1 DEF FlightOK
<1>5. QED
  BY <1>1, <1>2, <1>3, <1>4 DEF Calls

LEMMA Spent == ASSUME TaskOK, NEW what \in DOMAIN Bounds, Spend(what)
               PROVE  used' \in [DOMAIN Bounds -> Nat]
BY DEF TaskOK, Spend

LEMMA TaskStep ==
    ASSUME TypeOK, Ledger \/ RosterTail \/ Calls \/ Reload
    PROVE  TaskOK'
<1>0. TaskOK /\ "writes" \in DOMAIN Bounds /\ "troubles" \in DOMAIN Bounds
  BY TypeParts DEF Bounds
<1>1. CASE Ledger
  <2>1. Spend("writes") /\ UNCHANGED <<task, fetches, gen>>
    BY <1>1 DEF Ledger, InsertEvent, DeleteAgent
  <2>2. QED
    BY <1>0, <2>1, Spent DEF TaskOK
<1>2. CASE RosterTail
  <2>1. UNCHANGED <<task, fetches, gen, used>>
    BY <1>2 DEF RosterTail, ReadFingerprints, Rollup, Send
  <2>2. QED
    BY <1>0, <2>1 DEF TaskOK
<1>3. CASE ListReplies \/ StreamOpens
  <2>1. /\ UNCHANGED <<fetches, gen, used>> /\ task' \in {"opening", "streaming"}
    BY <1>3 DEF ListReplies, StreamOpens
  <2>2. QED
    BY <1>0, <2>1 DEF TaskOK
<1>4. CASE ListFails \/ StreamEnds
  <2>1. UNCHANGED <<fetches, gen>> /\ task' = "ended" /\ Spend("troubles")
    BY <1>4 DEF ListFails, StreamEnds
  <2>2. QED
    BY <1>0, <2>1, Spent DEF TaskOK
<1>5. CASE \E i \in DOMAIN fetches : AgentsReply(i) \/ AgentsFail(i)
  <2>1. PICK i \in DOMAIN fetches : AgentsReply(i) \/ AgentsFail(i)
    BY <1>5
  <2>2. /\ fetches' = RemoveAt(fetches, i) /\ UNCHANGED <<task, gen>>
        /\ used' = used \/ Spend("troubles")
    BY <2>1 DEF AgentsReply, AgentsFail
  <2>3. fetches' \in Seq(Nat)
    BY <1>0, <2>1, <2>2, RemoveItem DEF TaskOK
  <2>4. QED
    BY <1>0, <2>2, <2>3, Spent DEF TaskOK
<1>6. CASE \/ \E r \in Runs : BuildStrip(r)
           \/ \E ok \in BOOLEAN : StripsReply(ok)
  <2>1. UNCHANGED <<task, fetches, gen>> /\ (used' = used \/ Spend("troubles"))
    BY <1>6 DEF BuildStrip, StripsReply
  <2>2. QED
    BY <1>0, <2>1, Spent DEF TaskOK
<1>7. CASE Reload
  <2>1. /\ UNCHANGED fetches /\ task' = "listing" /\ Spend("troubles")
        /\ gen' = gen + (IF task = "none" THEN 1 ELSE 2)
    BY <1>7 DEF Reload
  <2>2. gen' \in Nat \ {0}
    BY <1>0, <2>1 DEF TaskOK
  <2>3. QED
    BY <1>0, <2>1, <2>2, Spent DEF TaskOK
<1>8. QED
  BY <1>1, <1>2, <1>3, <1>4, <1>5, <1>6, <1>7 DEF Calls

LEMMA LoadStripsType ==
    ASSUME NEW a, NEW flight, AppOK(a), FlightOK(flight), gen \in Nat, LoadStrips(a, flight)
    PROVE  AppOK(app') /\ FlightOK(strips')
<1>1. CASE flight.busy
  BY <1>1 DEF LoadStrips
<1>2. CASE ~flight.busy
  <2>1. PICK pending : /\ pending = [r \in Stale(a) |-> Revision(a.rows[r])]
                       /\ app' = [a EXCEPT !.pending = pending]
    BY <1>2 DEF LoadStrips
  <2>2. /\ Stale(a) \subseteq Runs
        /\ \A r \in Stale(a) : r \in Runs /\ a.rows[r] \in Row
    BY DEF Stale, AppOK, Partial
  <2>3. Partial(pending, Mark)
    BY <2>1, <2>2 DEF Partial, Revision, Row, Mark
  <2>4. AppOK(app')
    BY <2>1, <2>3 DEF AppOK
  <2>5. FlightOK(Idle) /\ FlightOK([busy |-> TRUE, gen |-> gen, asked |-> Stale(a), got |-> None])
    BY <2>2, NothingYet DEF FlightOK, Idle
  <2>6. FlightOK(strips')
    BY <1>2, <2>5 DEF LoadStrips
  <2>7. QED
    BY <2>4, <2>6
<1>3. QED
  BY <1>1, <1>2

LEMMA SetTrajectoriesType ==
    ASSUME NEW a, AppOK(a), NEW rows, Partial(rows, Row)
    PROVE  LET b == [set_trajectories(a, rows) EXCEPT !.asked = {}]
           IN  /\ AppOK(b) /\ b.rows = rows /\ b.strips = Only(a.strips, DOMAIN rows)
               /\ b.pending = a.pending /\ b.failed = a.failed
<1>1. Partial(Only(a.strips, DOMAIN rows), [revision : Mark, of : Row])
  BY PartialMaps DEF AppOK
<1>2. QED
  BY <1>1 DEF AppOK, set_trajectories

LEMMA UpsertType ==
    ASSUME NEW a, AppOK(a), NEW r \in Runs, NEW row \in Row
    PROVE  LET b == upsert_trajectory(a, r, row)
               c == [b EXCEPT !.asked = b.asked \cup Missing(b)]
           IN  /\ AppOK(c) /\ c.rows = With(a.rows, r, row) /\ c.strips = a.strips
               /\ c.pending = a.pending /\ c.failed = a.failed
<1>1. Partial(With(a.rows, r, row), Row)
  BY PartialMaps DEF AppOK
<1>2. PICK b : b = upsert_trajectory(a, r, row)
  OBVIOUS
<1>3. AppOK(b) /\ b.rows = With(a.rows, r, row) /\ b.strips = a.strips
      /\ b.pending = a.pending /\ b.failed = a.failed
  BY <1>1, <1>2 DEF AppOK, upsert_trajectory
<1>4. Missing(b) \subseteq Agents
  BY <1>3 DEF Missing, AppOK, Partial
<1>5. QED
  BY <1>2, <1>3, <1>4 DEF AppOK

\* A reply with its strips, as set_sparklines takes it.
Ready(rows) ==
    [app EXCEPT !.strips = Over([r \in DOMAIN rows \cap DOMAIN app.pending |->
                                    [revision |-> Stamp(r), of |-> rows[r]]], @),
                !.pending = None, !.failed = FALSE]

LEMMA ReadyType ==
    ASSUME AppOK(app), NEW rows, Partial(rows, Row)
    PROVE  /\ AppOK(Ready(rows)) /\ Ready(rows).rows = app.rows
           /\ Ready(rows).pending = None
           /\ Ready(rows).strips =
                 Over([r \in DOMAIN rows \cap DOMAIN app.pending |->
                          [revision |-> app.pending[r], of |-> rows[r]]], app.strips)
<1>1. PICK fresh : fresh = [r \in DOMAIN rows \cap DOMAIN app.pending |->
                               [revision |-> app.pending[r], of |-> rows[r]]]
  OBVIOUS
<1>2. Partial(fresh, [revision : Mark, of : Row])
  BY <1>1 DEF AppOK, Partial
<1>3. PICK over : over = Over(fresh, app.strips)
  OBVIOUS
<1>4. Partial(over, [revision : Mark, of : Row]) /\ Partial(None, Mark)
  BY <1>2, <1>3, PartialMaps, NothingYet DEF AppOK
<1>5. Ready(rows) = [app EXCEPT !.strips = over, !.pending = None, !.failed = FALSE]
  BY <1>1, <1>3 DEF Ready, Stamp
<1>6. /\ AppOK(Ready(rows)) /\ Ready(rows).rows = app.rows
      /\ Ready(rows).pending = None /\ Ready(rows).strips = over
  BY <1>4, <1>5 DEF AppOK
<1>7. QED
  BY <1>1, <1>3, <1>6

\* What the event loop does with the message at the head of its channel.
LEMMA LoopCases ==
    ASSUME OnLoaded
    PROVE  LET m == Head(inbox)
           IN  /\ inbox # << >> /\ inbox' = Tail(inbox) /\ UNCHANGED <<server, tail, gen, used>>
               /\ \/ m.kind = "strips" /\ TakeStrips(m)
                  \/ m.kind # "strips" /\ m.gen # gen /\ UNCHANGED <<app, fetches, strips, task>>
                  \/ m.kind = "list" /\ m.gen = gen /\ TakeList(m)
                  \/ m.kind = "update" /\ m.gen = gen /\ TakeUpdate(m)
                  \/ m.kind = "ended" /\ m.gen = gen /\ TakeEnded(m)
                  \/ m.kind \in {"live", "agents"} /\ m.gen = gen /\ TakeOther(m)
BY DEF OnLoaded, Current

LEMMA LoopType ==
    ASSUME TypeOK, OnLoaded
    PROVE  MailOK' /\ AppOK(app') /\ FlightOK(strips') /\ TaskOK'
<1>0. /\ MailOK /\ AppOK(app) /\ FlightOK(strips) /\ TaskOK /\ FlightOK(Idle)
      /\ gen \in Nat
  BY TypeParts, NothingYet DEF FlightOK, Idle, TaskOK
<1>1. PICK m : m = Head(inbox)
  OBVIOUS
<1>2. /\ MessageOK(m) /\ MailOK'
      /\ UNCHANGED <<gen, used>>
  BY <1>0, <1>1, LoopCases, TailItems DEF MailOK
<1>3. AppOK(app') /\ FlightOK(strips')
  <2>1. CASE m.kind = "strips" /\ TakeStrips(m)
    <3>1. Partial(m.rows, Row)
      BY <1>2, <2>1 DEF MessageOK
    <3>2. \/ \E a \in {app, Ready(m.rows)} : LoadStrips(a, Idle)
          \/ app' = [app EXCEPT !.failed = TRUE] /\ strips' = Idle
      BY <2>1 DEF TakeStrips, Ready
    <3>3. AppOK(Ready(m.rows)) /\ AppOK([app EXCEPT !.failed = TRUE])
      BY <1>0, <3>1, ReadyType DEF AppOK
    <3>4. QED
      BY <1>0, <3>2, <3>3, LoadStripsType
  <2>2. CASE UNCHANGED <<app, strips>>
    BY <1>0, <2>2
  <2>3. CASE m.kind = "list" /\ TakeList(m)
    <3>1. CASE m.ok
      <4>1. Partial(m.rows, Row)
        BY <1>2, <2>3 DEF MessageOK
      <4>2. PICK a : a = [set_trajectories(app, m.rows) EXCEPT !.asked = {}]
        OBVIOUS
      <4>3. AppOK(a) /\ LoadStrips(a, strips)
        BY <1>0, <2>3, <3>1, <4>1, <4>2, SetTrajectoriesType DEF TakeList
      <4>4. QED
        BY <1>0, <4>3, LoadStripsType
    <3>2. CASE ~m.ok
      <4>1. app' = [app EXCEPT !.load = "Failed"] /\ strips' = strips
        BY <2>3, <3>2 DEF TakeList
      <4>2. QED
        BY <1>0, <4>1 DEF AppOK
    <3>3. QED
      BY <3>1, <3>2
  <2>4. CASE m.kind = "update" /\ TakeUpdate(m)
    <3>1. m.row[1] \in Runs /\ m.row[2] \in Row
      BY <1>2, <2>4 DEF MessageOK
    <3>2. PICK b : b = upsert_trajectory(app, m.row[1], m.row[2])
      OBVIOUS
    <3>3. PICK c : c = [b EXCEPT !.asked = b.asked \cup Missing(b)]
      OBVIOUS
    <3>4. AppOK(c) /\ LoadStrips(c, strips)
      BY <1>0, <2>4, <3>1, <3>2, <3>3, UpsertType DEF TakeUpdate
    <3>5. QED
      BY <1>0, <3>4, LoadStripsType
  <2>5. CASE m.kind = "ended" /\ TakeEnded(m)
    BY <1>0, <2>5 DEF TakeEnded, AppOK
  <2>6. CASE m.kind \in {"live", "agents"} /\ TakeOther(m)
    <3>1. m.kind = "agents" => m.got \subseteq Agents
      BY <1>2, <2>6 DEF MessageOK
    <3>2. QED
      BY <1>0, <2>6, <3>1 DEF TakeOther, set_agents, AppOK
  <2>7. QED
    BY <1>1, <2>1, <2>2, <2>3, <2>4, <2>5, <2>6, LoopCases
<1>4. TaskOK'
  <2>1. /\ fetches' \in {fetches, Append(fetches, gen)} /\ task' \in {task, "none"}
    BY <1>1, LoopCases DEF TakeStrips, TakeList, TakeUpdate, TakeEnded, TakeOther
  <2>2. fetches' \in Seq(Nat)
    BY <1>0, <2>1 DEF TaskOK
  <2>3. QED
    BY <1>0, <1>2, <2>1, <2>2 DEF TaskOK
<1>5. QED
  BY <1>2, <1>3, <1>4

LEMMA TypeStep == TypeOK /\ [Next]_vars => TypeOK'
<1> SUFFICES ASSUME TypeOK, [Next]_vars PROVE TypeOK'
  OBVIOUS
<1>0. /\ ServerOK /\ TailOK(tail) /\ MailOK /\ FlightOK(strips) /\ AppOK(app) /\ TaskOK
  BY TypeParts
<1>1. ASSUME ServerOK', TailOK(tail'), MailOK', FlightOK(strips'), AppOK(app'), TaskOK'
      PROVE  TypeOK'
  <2>1. (TypeOK <=> ServerOK /\ TailOK(tail) /\ MailOK /\ FlightOK(strips) /\ AppOK(app)
                    /\ TaskOK)'
    BY TypeParts, PTL
  <2>2. TailOK(tail)' = TailOK(tail') /\ FlightOK(strips)' = FlightOK(strips')
        /\ AppOK(app)' = AppOK(app')
    BY DEF TailOK, FlightOK, AppOK
  <2>3. QED
    BY <1>1, <2>1, <2>2
<1>2. CASE Ledger
  <2>1. UNCHANGED <<tail, inbox, strips, app>>
    BY <1>2 DEF Ledger, InsertEvent, DeleteAgent
  <2>2. MailOK' /\ TailOK(tail') /\ FlightOK(strips') /\ AppOK(app')
    BY <1>0, <2>1 DEF MailOK
  <2>3. QED
    BY <1>0, <1>1, <1>2, <2>2, ServerStep, TaskStep
<1>3. CASE RosterTail
  <2>1. UNCHANGED <<server, strips, app>>
    BY <1>3 DEF RosterTail, ReadFingerprints, Rollup, Send
  <2>2. ServerOK' /\ FlightOK(strips') /\ AppOK(app')
    BY <1>0, <2>1 DEF ServerOK, server
  <2>3. QED
    BY <1>0, <1>1, <1>3, <2>2, TailStep, MailStep, TaskStep
<1>4. CASE Calls
  <2>1. UNCHANGED <<server, app>>
    BY <1>4 DEF Calls, ListReplies, ListFails, StreamOpens, StreamEnds, AgentsReply,
        AgentsFail, BuildStrip, StripsReply
  <2>2. ServerOK' /\ AppOK(app')
    BY <1>0, <2>1 DEF ServerOK, server
  <2>3. QED
    BY <1>1, <1>4, <2>2, CallStep, MailStep, TaskStep
<1>5. CASE OnLoaded
  <2>1. UNCHANGED <<server, tail>>
    BY <1>5 DEF OnLoaded
  <2>2. ServerOK' /\ TailOK(tail')
    BY <1>0, <2>1 DEF ServerOK, server
  <2>3. QED
    BY <1>1, <1>5, <2>2, LoopType
<1>6. CASE Reload
  <2>1. /\ UNCHANGED <<server, inbox, strips>> /\ tail' = TailOff
        /\ app' = [app EXCEPT !.load = "Loading"]
    BY <1>6 DEF Reload
  <2>2. TailOK(tail')
    BY <2>1, NothingYet, EmptySeq DEF TailOK, TailOff
  <2>3. AppOK(app')
    BY <1>0, <2>1 DEF AppOK
  <2>4. ServerOK' /\ MailOK' /\ FlightOK(strips')
    BY <1>0, <2>1 DEF ServerOK, server, MailOK
  <2>5. QED
    BY <1>1, <1>6, <2>2, <2>3, <2>4, TaskStep
<1>7. CASE UNCHANGED vars
  BY <1>0, <1>1, <1>7 DEF vars, server, ServerOK, MailOK, TaskOK
<1>8. QED
  BY <1>2, <1>3, <1>4, <1>5, <1>6, <1>7 DEF Next

\* Every variable of the feed keeps its type, across reloads, failures and
\* messages of feeds that are gone: Feed!TypeOK.
THEOREM TypeCorrect == Spec => []TypeOK
BY TypeInit, TypeStep, PTL DEF Spec

-----------------------------------------------------------------------------
(***************************************************************************)
(* The invariants.                                                         *)
(***************************************************************************)
\* A fingerprint that was read before: the run has moved on since, or is as it
\* was, or is gone.
Behind(mark, r) ==
    \/ mark[2] < store[r].last
    \/ mark[2] = store[r].last /\ (mark[1] <= store[r].count \/ ~Live(r))
MarkInv ==
    /\ \A r \in DOMAIN tail.seen : Behind(tail.seen[r], r)
    /\ \A r \in DOMAIN tail.prints : Behind(tail.prints[r], r)

\* A pass of the tail rolls every changed run up once.
PassInv ==
    /\ tail.pc # "rollup" => DOMAIN tail.prints = {}
    /\ tail.pc \notin {"rollup", "send"} => tail.out = << >>
    /\ \A i \in DOMAIN tail.out : tail.out[i][1] \notin DOMAIN tail.prints
    /\ \A i, j \in DOMAIN tail.out : tail.out[i][1] = tail.out[j][1] => i = j

\* Whether a message of this feed changes what is shown of r, and to which row.
Tells(m, r) ==
    /\ m.gen = gen
    /\ (m.kind = "update" /\ m.row[1] = r) \/ (m.kind = "list" /\ m.ok)
TellsOf(m, r, row) ==
    /\ Tells(m, r)
    /\ m.kind = "update" => m.row[2] = row
    /\ m.kind = "list" => r \in DOMAIN m.rows /\ m.rows[r] = row

\* What the screen shows of r when it has taken every message in the channel.
LastTold(r, row) ==
    \/ \E k \in DOMAIN inbox :
            /\ TellsOf(inbox[k], r, row)
            /\ \A j \in DOMAIN inbox : j > k => ~Tells(inbox[j], r)
    \/ /\ \A k \in DOMAIN inbox : ~Tells(inbox[k], r)
       /\ r \in DOMAIN app.rows /\ app.rows[r] = row

\* A run in which the tail finds nothing new is on its way to the screen as it is,
\* and nothing older comes behind it.
Settled(r) ==
    /\ Live(r) /\ r \in DOMAIN tail.seen \ DOMAIN tail.prints
    /\ tail.seen[r] = Fingerprint(r)
Rolled(r) == \E i \in DOMAIN tail.out : tail.out[i][1] = r
ChainInv ==
    \A r \in Runs : Settled(r) =>
        \/ \E i \in DOMAIN tail.out : tail.out[i] = <<r, store[r]>>
        \/ ~Rolled(r) /\ LastTold(r, store[r])

StaleInv == strips.busy \/ app.failed \/ Stale(app) = {}

CurrentInv == MarkInv /\ PassInv /\ ChainInv /\ StaleInv

\* A row that the run had once, and has still if its stamp is the last one.
Past(row, r) ==
    /\ row.count > 0 /\ row.last <= store[r].last
    /\ Live(r) /\ r \notin late /\ row.last = store[r].last => row = store[r]
PastMessage(m) ==
    /\ m.kind = "update" => Past(m.row[2], m.row[1])
    /\ m.kind \in {"list", "strips"} => \A r \in DOMAIN m.rows : Past(m.rows[r], r)
PastInv ==
    /\ \A i \in DOMAIN tail.out : Past(tail.out[i][2], tail.out[i][1])
    /\ \A m \in ToSet(inbox) : PastMessage(m)
    /\ \A r \in DOMAIN strips.got : Past(strips.got[r], r)
    /\ \A r \in DOMAIN app.rows : Past(app.rows[r], r)
    /\ \A r \in DOMAIN app.strips : Past(app.strips[r].of, r)

\* A strip is built no earlier than the row that asked for it.
NotBefore(rows) ==
    \A r \in DOMAIN rows \cap DOMAIN app.pending : app.pending[r][2] <= rows[r].last
OrderInv ==
    /\ \A r \in DOMAIN app.pending : app.pending[r][2] <= store[r].last
    /\ NotBefore(strips.got)
    /\ \A m \in ToSet(inbox) : m.kind = "strips" => NotBefore(m.rows)
    /\ \A r \in DOMAIN app.strips : app.strips[r].revision[2] <= app.strips[r].of.last

\* One batch of strips is under way at a time.
BatchInv ==
    \A k \in DOMAIN inbox : inbox[k].kind = "strips" =>
        /\ strips.busy /\ strips.gen = 0
        /\ \A j \in DOMAIN inbox : inbox[j].kind = "strips" => j = k

StripsInv == PastInv /\ OrderInv /\ BatchInv
-----------------------------------------------------------------------------
(***************************************************************************)
(* The event loop, by what it does to the rows, the strips and the batch.  *)
(***************************************************************************)
\* The message leaves rows, strips and batch alone.
Quiet(m) ==
    /\ m.kind # "strips" /\ \A r \in Runs : ~Tells(m, r)
    /\ strips' = strips /\ app'.rows = app.rows /\ app'.strips = app.strips
    /\ app'.pending = app.pending /\ app'.failed = app.failed
\* A batch that failed: nothing is asked for again.
Refused(m) ==
    /\ m.kind = "strips" /\ strips' = Idle
    /\ app'.rows = app.rows /\ app'.strips = app.strips
    /\ app'.pending = app.pending /\ app'.failed
\* A batch of an older feed.
Late(m) == m.kind = "strips" /\ LoadStrips(app, Idle)
Drawn(m) == m.kind = "strips" /\ LoadStrips(Ready(m.rows), Idle)
Listed(m) ==
    /\ m.kind = "list" /\ m.gen = gen /\ m.ok
    /\ \E a : /\ AppOK(a) /\ a.rows = m.rows /\ a.strips = Only(app.strips, DOMAIN m.rows)
              /\ a.pending = app.pending /\ a.failed = app.failed /\ LoadStrips(a, strips)
Updated(m) ==
    /\ m.kind = "update" /\ m.gen = gen
    /\ \E a : /\ AppOK(a) /\ a.rows = With(app.rows, m.row[1], m.row[2])
              /\ a.strips = app.strips
              /\ a.pending = app.pending /\ a.failed = app.failed /\ LoadStrips(a, strips)

LEMMA LoopEffect ==
    ASSUME TypeOK, OnLoaded
    PROVE  LET m == Head(inbox)
           IN  /\ inbox # << >> /\ inbox' = Tail(inbox) /\ UNCHANGED <<server, tail, gen>>
               /\ m \in ToSet(inbox) /\ MessageOK(m)
               /\ Quiet(m) \/ Refused(m) \/ Late(m) \/ Drawn(m) \/ Listed(m) \/ Updated(m)
<1>0. AppOK(app) /\ MailOK
  BY TypeParts
<1>1. PICK m : m = Head(inbox)
  OBVIOUS
<1>2. /\ inbox # << >> /\ inbox' = Tail(inbox) /\ UNCHANGED <<server, tail, gen>>
      /\ m \in ToSet(inbox) /\ MessageOK(m)
  BY <1>0, <1>1, LoopCases, TailItems DEF MailOK
<1> SUFFICES Quiet(m) \/ Refused(m) \/ Late(m) \/ Drawn(m) \/ Listed(m) \/ Updated(m)
  BY <1>1, <1>2
<1>3. CASE m.kind = "strips" /\ TakeStrips(m)
  <2>1. CASE m.gen = gen /\ ~m.ok
    <3>1. app' = [app EXCEPT !.failed = TRUE] /\ strips' = Idle
      BY <1>3, <2>1 DEF TakeStrips
    <3>2. app'.rows = app.rows /\ app'.strips = app.strips /\ app'.pending = app.pending
      BY <1>0, <3>1 DEF AppOK
    <3>3. app'.failed
      <4>1. "failed" \in DOMAIN app
        BY <1>0 DEF AppOK
      <4>2. QED
        BY <3>1, <4>1
    <3>4. QED
      BY <1>3, <3>1, <3>2, <3>3, Zenon DEF Refused
  <2>2. CASE m.gen # gen \/ m.ok
    BY <1>3, <2>2 DEF TakeStrips, Late, Drawn, Ready
  <2>3. QED
    BY <2>1, <2>2
<1>4. CASE m.kind # "strips" /\ m.gen # gen /\ UNCHANGED <<app, fetches, strips, task>>
  BY <1>4 DEF Quiet, Tells
<1>5. CASE m.kind = "list" /\ m.gen = gen /\ TakeList(m)
  <2>1. CASE m.ok
    <3>1. PICK a : a = [set_trajectories(app, m.rows) EXCEPT !.asked = {}]
      OBVIOUS
    <3>2. Partial(m.rows, Row)
      BY <1>2, <1>5 DEF MessageOK
    <3>3. /\ AppOK(a) /\ a.rows = m.rows /\ a.strips = Only(app.strips, DOMAIN m.rows)
          /\ a.pending = app.pending /\ a.failed = app.failed
      BY <1>0, <3>1, <3>2, SetTrajectoriesType
    <3>4. LoadStrips(a, strips)
      BY <1>5, <2>1, <3>1 DEF TakeList
    <3>5. QED
      BY <1>5, <2>1, <3>3, <3>4, Zenon DEF Listed
  <2>2. CASE ~m.ok
    <3>1. app' = [app EXCEPT !.load = "Failed"] /\ strips' = strips
      BY <1>5, <2>2 DEF TakeList
    <3>2. /\ app'.rows = app.rows /\ app'.strips = app.strips
          /\ app'.pending = app.pending /\ app'.failed = app.failed
      BY <1>0, <3>1 DEF AppOK
    <3>3. m.kind # "strips" /\ \A r \in Runs : ~Tells(m, r)
      BY <1>5, <2>2 DEF Tells
    <3>4. QED
      BY <3>1, <3>2, <3>3, Zenon DEF Quiet
  <2>3. QED
    BY <2>1, <2>2
<1>6. CASE m.kind = "update" /\ m.gen = gen /\ TakeUpdate(m)
  <2>1. PICK b : b = upsert_trajectory(app, m.row[1], m.row[2])
    OBVIOUS
  <2>2. PICK a : a = [b EXCEPT !.asked = b.asked \cup Missing(b)]
    OBVIOUS
  <2>3. m.row[1] \in Runs /\ m.row[2] \in Row
    BY <1>2, <1>6 DEF MessageOK
  <2>4. /\ AppOK(a) /\ a.rows = With(app.rows, m.row[1], m.row[2])
        /\ a.strips = app.strips /\ a.pending = app.pending /\ a.failed = app.failed
    BY <1>0, <2>1, <2>2, <2>3, UpsertType
  <2>5. LoadStrips(a, strips)
    BY <1>6, <2>1, <2>2 DEF TakeUpdate
  <2>6. QED
    BY <1>6, <2>4, <2>5, Zenon DEF Updated
<1>7. CASE m.kind \in {"ended", "live", "agents"} /\ (TakeEnded(m) \/ TakeOther(m))
  <2>1. /\ app'.rows = app.rows /\ app'.strips = app.strips
        /\ app'.pending = app.pending /\ app'.failed = app.failed /\ strips' = strips
    BY <1>0, <1>7 DEF TakeEnded, TakeOther, set_agents, AppOK
  <2>2. m.kind # "strips" /\ \A r \in Runs : ~Tells(m, r)
    BY <1>7 DEF Tells
  <2>3. QED
    BY <2>1, <2>2, Zenon DEF Quiet
<1>8. QED
  BY <1>1, <1>2, <1>3, <1>4, <1>5, <1>6, <1>7, LoopCases

LEMMA LoadStripsKeeps ==
    ASSUME NEW a, NEW flight, AppOK(a), LoadStrips(a, flight)
    PROVE  /\ app'.rows = a.rows /\ app'.strips = a.strips /\ app'.failed = a.failed
           /\ Stale(app') = Stale(a)
           /\ flight.busy => app'.pending = a.pending /\ strips' = flight
           /\ ~flight.busy =>
                  /\ app'.pending = [r \in Stale(a) |-> Revision(a.rows[r])]
                  /\ strips'.got = None /\ (strips'.busy \/ Stale(a) = {})
<1>1. CASE flight.busy
  BY <1>1 DEF LoadStrips
<1>2. CASE ~flight.busy
  <2>1. PICK pending : /\ pending = [r \in Stale(a) |-> Revision(a.rows[r])]
                       /\ app' = [a EXCEPT !.pending = pending]
    BY <1>2 DEF LoadStrips
  <2>2. /\ app'.rows = a.rows /\ app'.strips = a.strips /\ app'.failed = a.failed
        /\ app'.pending = pending
    BY <2>1 DEF AppOK
  <2>3. Stale(app') = Stale(a)
    BY <2>2 DEF Stale
  <2>4. strips' = IF Stale(a) = {} THEN Idle
                  ELSE [busy |-> TRUE, gen |-> gen, asked |-> Stale(a), got |-> None]
    BY <1>2 DEF LoadStrips
  <2>5. strips'.got = None
    BY <2>4 DEF Idle
  <2>6. strips'.busy \/ Stale(a) = {}
    BY <2>4, Zenon
  <2>7. QED
    BY <1>2, <2>1, <2>2, <2>3, <2>5, <2>6, Zenon
<1>3. QED
  BY <1>1, <1>2

-----------------------------------------------------------------------------
(***************************************************************************)
(* The ledger and the tail, by what they do to a run.                      *)
(***************************************************************************)
\* A run is as it was, or gone, or has a row more, with a later stamp or late.
LEMMA LedgerRow ==
    ASSUME ServerOK, Ledger
    PROVE  /\ UNCHANGED <<tail, task, inbox, fetches, strips, app, gen>>
           /\ late \subseteq late'
           /\ \A r \in Runs :
                \/ store'[r] = store[r]
                \/ store'[r].count = 0 /\ store'[r].last = store[r].last
                \/ /\ store'[r].count = store[r].count + 1
                   /\ \/ store'[r].last = store[r].last + 1
                      \/ /\ store'[r].last = store[r].last
                         /\ store[r].count > 0 /\ r \in late'
<1>1. CASE \E r \in Runs, shown, newer \in BOOLEAN : InsertEvent(r, shown, newer)
  <2>1. PICK q \in Runs, shown \in BOOLEAN, newer \in BOOLEAN : InsertEvent(q, shown, newer)
    BY <1>1
  <2>2. PICK many, last, row :
            /\ last = IF newer \/ store[q].count = 0 THEN store[q].last + 1 ELSE store[q].last
            /\ row = [count |-> store[q].count + 1, shown |-> many, last |-> last]
            /\ store' = [store EXCEPT ![q] = row]
    BY <2>1 DEF InsertEvent
  <2>3. store[q].count \in Nat /\ store[q].last \in Nat
    BY DEF ServerOK, Row
  <2>4. late' = IF newer \/ store[q].count = 0 THEN late ELSE late \cup {q}
    BY <2>1 DEF InsertEvent
  <2>5. \A r \in Runs : r # q => store'[r] = store[r]
    BY <2>2 DEF ServerOK
  <2>6. store'[q].count = store[q].count + 1 /\ store'[q].last = last
    BY <2>2 DEF ServerOK
  <2>7. \/ last = store[q].last + 1
        \/ last = store[q].last /\ store[q].count > 0 /\ q \in late'
    BY <2>2, <2>3, <2>4
  <2>8. UNCHANGED <<tail, task, inbox, fetches, strips, app, gen>> /\ late \subseteq late'
    BY <2>1, <2>4 DEF InsertEvent
  <2>9. QED
    BY <2>5, <2>6, <2>7, <2>8
<1>2. CASE \E a \in Agents : DeleteAgent(a)
  <2>1. PICK a \in Agents : DeleteAgent(a)
    BY <1>2
  <2>2. \A r \in Runs : \/ store'[r] = store[r]
                        \/ store'[r] = [NoRows EXCEPT !.last = store[r].last]
    BY <2>1 DEF DeleteAgent
  <2>3. QED
    BY <2>1, <2>2 DEF DeleteAgent, NoRows
<1>3. QED
  BY <1>1, <1>2 DEF Ledger

LEMMA ReadEffect ==
    ASSUME TailOK(tail), ReadFingerprints
    PROVE  /\ UNCHANGED <<store, late, inbox, strips, app, gen>>
           /\ tail.pc = "poll" /\ tail'.pc = "rollup"
           /\ tail'.seen = tail.seen /\ tail'.out = tail.out
           /\ tail'.prints = [r \in {q \in Runs : Live(q) /\ Changed(q)} |-> Fingerprint(r)]
<1>1. PICK prints : /\ prints = [r \in {q \in Runs : Live(q) /\ Changed(q)} |-> Fingerprint(r)]
                    /\ tail' = [tail EXCEPT !.pc = "rollup", !.prints = prints]
  BY DEF ReadFingerprints
<1>2. /\ tail'.pc = "rollup" /\ tail'.seen = tail.seen /\ tail'.out = tail.out
      /\ tail'.prints = prints
  BY <1>1 DEF TailOK
<1>3. QED
  BY <1>1, <1>2 DEF ReadFingerprints, server

LEMMA RollupEffect ==
    ASSUME TailOK(tail), NEW r \in Runs, Rollup(r)
    PROVE  /\ UNCHANGED <<store, late, inbox, strips, app, gen>>
           /\ r \in DOMAIN tail.prints /\ tail.pc = "rollup"
           /\ tail'.pc = IF DOMAIN tail.prints = {r} THEN "send" ELSE "rollup"
           /\ tail'.seen = With(tail.seen, r, tail.prints[r])
           /\ tail'.prints = Only(tail.prints, DOMAIN tail.prints \ {r})
           /\ tail'.out = IF Live(r) THEN Append(tail.out, <<r, store[r]>>) ELSE tail.out
<1>1. PICK seen, prints, out, pc :
          /\ seen = With(tail.seen, r, tail.prints[r])
          /\ prints = Only(tail.prints, DOMAIN tail.prints \ {r})
          /\ out = IF Live(r) THEN Append(tail.out, <<r, store[r]>>) ELSE tail.out
          /\ pc = IF DOMAIN tail.prints = {r} THEN "send" ELSE tail.pc
          /\ tail' = [tail EXCEPT !.seen = seen, !.prints = prints, !.out = out, !.pc = pc]
  BY DEF Rollup
<1>2. tail'.seen = seen /\ tail'.prints = prints /\ tail'.out = out /\ tail'.pc = pc
  BY <1>1 DEF TailOK
<1>3. QED
  BY <1>1, <1>2 DEF Rollup, server

LEMMA SendEffect ==
    ASSUME TailOK(tail), Send
    PROVE  /\ UNCHANGED <<store, late, strips, app, gen>>
           /\ tail.pc = "send" /\ tail'.seen = tail.seen /\ tail'.prints = tail.prints
           /\ \/ /\ tail.out = << >> /\ tail'.out = << >>
                 /\ tail'.pc = "poll" /\ inbox' = inbox
              \/ /\ tail'.pc = "send"
                 /\ \E i \in DOMAIN tail.out :
                        /\ inbox' = Append(inbox, [kind |-> "update", gen |-> gen,
                                                   row |-> tail.out[i]])
                        /\ tail'.out = RemoveAt(tail.out, i)
<1>1. tail.pc = "send" /\ UNCHANGED <<store, late, strips, app, gen>>
  BY DEF Send, server
<1>2. CASE tail.out = << >>
  <2>1. tail' = [tail EXCEPT !.pc = "poll"] /\ inbox' = inbox
    BY <1>2 DEF Send
  <2>2. /\ tail'.seen = tail.seen /\ tail'.prints = tail.prints /\ tail'.out = << >>
        /\ tail'.pc = "poll"
    BY <1>2, <2>1 DEF TailOK
  <2>3. QED
    BY <1>1, <1>2, <2>1, <2>2
<1>3. CASE tail.out # << >>
  <2>1. PICK i \in DOMAIN tail.out : \E out :
            /\ inbox' = Append(inbox, [kind |-> "update", gen |-> gen, row |-> tail.out[i]])
            /\ out = RemoveAt(tail.out, i)
            /\ tail' = [tail EXCEPT !.out = out]
    BY <1>3 DEF Send
  <2>2. PICK out : /\ out = RemoveAt(tail.out, i)
                   /\ tail' = [tail EXCEPT !.out = out]
    BY <2>1
  <2>3. /\ tail'.seen = tail.seen /\ tail'.prints = tail.prints /\ tail'.out = out
        /\ tail'.pc = "send"
    BY <1>1, <2>2 DEF TailOK
  <2>4. QED
    BY <1>1, <2>1, <2>2, <2>3
<1>4. QED
  BY <1>2, <1>3

\* The tail starts afresh, or stops.
LEMMA OffEffect ==
    ASSUME StreamOpens \/ StreamEnds \/ Reload
    PROVE  /\ UNCHANGED <<store, late, strips>>
           /\ tail'.pc \in {"off", "poll"} /\ tail'.out = << >>
           /\ DOMAIN tail'.seen = {} /\ DOMAIN tail'.prints = {}
BY NothingYet DEF StreamOpens, StreamEnds, Reload, TailOff, server

\* The other calls.
OtherCalls ==
    \/ ListReplies \/ ListFails
    \/ \E i \in DOMAIN fetches : AgentsReply(i) \/ AgentsFail(i)
    \/ \E r \in Runs : BuildStrip(r)
    \/ \E ok \in BOOLEAN : StripsReply(ok)

LEMMA OtherEffect ==
    ASSUME OtherCalls
    PROVE  UNCHANGED <<store, late, tail, app, gen>>
BY DEF OtherCalls, ListReplies, ListFails, AgentsReply, AgentsFail, BuildStrip, StripsReply,
       server

-----------------------------------------------------------------------------
(***************************************************************************)
(* Fingerprints, and the passes of the tail.                               *)
(***************************************************************************)
LEMMA MarkStep == TypeOK /\ MarkInv /\ [Next]_vars => MarkInv'
<1> SUFFICES ASSUME TypeOK, MarkInv, [Next]_vars PROVE MarkInv'
  OBVIOUS
<1>0. /\ ServerOK /\ TailOK(tail) /\ Partial(tail.prints, Mark) /\ Partial(tail.seen, Mark)
  BY TypeParts DEF TailOK
<1>1. CASE Ledger
  <2>1. ASSUME NEW r \in Runs, NEW mark \in Mark, Behind(mark, r) PROVE Behind(mark, r)'
    <3>1. /\ mark[1] \in Nat /\ mark[2] \in Nat /\ store[r].count \in Nat
          /\ store[r].last \in Nat
      BY <1>0 DEF Mark, ServerOK, Row
    <3>2. \/ store'[r] = store[r]
          \/ store'[r].count = 0 /\ store'[r].last = store[r].last
          \/ /\ store'[r].count = store[r].count + 1
             /\ \/ store'[r].last = store[r].last + 1
                \/ store'[r].last = store[r].last /\ store[r].count > 0
      BY <1>0, <1>1, LedgerRow
    <3>3. QED
      BY <2>1, <3>1, <3>2 DEF Behind, Live
  <2>2. tail' = tail
    BY <1>0, <1>1, LedgerRow
  <2>3. QED
    BY <1>0, <2>1, <2>2, PartialMaps DEF MarkInv
<1>2. ASSUME store' = store
      PROVE  \A r, mark : Behind(mark, r) => Behind(mark, r)'
  BY <1>2 DEF Behind, Live
<1>3. CASE ReadFingerprints
  <2>1. \A r \in Runs : Behind(Fingerprint(r), r)
    BY <1>0 DEF Behind, Fingerprint, ServerOK, Row
  <2>2. /\ store' = store /\ tail'.seen = tail.seen
        /\ \A r \in DOMAIN tail'.prints : r \in Runs /\ tail'.prints[r] = Fingerprint(r)
    BY <1>0, <1>3, ReadEffect
  <2>3. QED
    BY <1>2, <2>1, <2>2 DEF MarkInv
<1>4. CASE \E r \in Runs : Rollup(r)
  <2>1. PICK r \in Runs : Rollup(r)
    BY <1>4
  <2>2. /\ store' = store /\ r \in DOMAIN tail.prints
        /\ tail'.seen = With(tail.seen, r, tail.prints[r])
        /\ tail'.prints = Only(tail.prints, DOMAIN tail.prints \ {r})
    BY <1>0, <2>1, RollupEffect
  <2>3. /\ \A q \in DOMAIN tail'.seen : Behind(tail'.seen[q], q)
        /\ \A q \in DOMAIN tail'.prints : Behind(tail'.prints[q], q)
    BY <2>2 DEF MarkInv, With, Over, Only
  <2>4. QED
    BY <1>2, <2>2, <2>3 DEF MarkInv
<1>5. CASE Send
  <2>1. store' = store /\ tail'.seen = tail.seen /\ tail'.prints = tail.prints
    BY <1>0, <1>5, SendEffect
  <2>2. QED
    BY <1>2, <2>1 DEF MarkInv
<1>6. CASE StreamOpens \/ StreamEnds \/ Reload
  BY <1>6, OffEffect DEF MarkInv
<1>7. CASE OtherCalls \/ OnLoaded \/ UNCHANGED vars
  <2>1. store' = store /\ tail' = tail
    BY <1>7, OtherEffect DEF OnLoaded, vars, server
  <2>2. QED
    BY <1>2, <2>1 DEF MarkInv
<1>8. QED
  BY <1>1, <1>3, <1>4, <1>5, <1>6, <1>7 DEF Next, RosterTail, Calls, OtherCalls

LEMMA PassStep == TypeOK /\ PassInv /\ [Next]_vars => PassInv'
<1> SUFFICES ASSUME TypeOK, PassInv, [Next]_vars PROVE PassInv'
  OBVIOUS
<1>0. TailOK(tail) /\ ServerOK /\ tail.out \in Seq(Runs \X Row)
  BY TypeParts DEF TailOK
<1>1. CASE ReadFingerprints
  <2>1. tail.out = << >> /\ tail'.out = << >> /\ tail'.pc = "rollup"
    BY <1>0, <1>1, ReadEffect DEF PassInv
  <2>2. QED
    BY <2>1 DEF PassInv
<1>2. CASE \E r \in Runs : Rollup(r)
  <2>1. PICK r \in Runs : Rollup(r)
    BY <1>2
  <2>2. /\ r \in DOMAIN tail.prints /\ tail.pc = "rollup"
        /\ tail'.pc = IF DOMAIN tail.prints = {r} THEN "send" ELSE "rollup"
        /\ tail'.out = IF Live(r) THEN Append(tail.out, <<r, store[r]>>) ELSE tail.out
        /\ DOMAIN tail'.prints = DOMAIN tail.prints \ {r}
    BY <1>0, <2>1, RollupEffect DEF Only
  <2>3. /\ \A i \in DOMAIN tail.out : tail.out[i][1] \notin DOMAIN tail.prints
        /\ \A i, j \in DOMAIN tail.out : tail.out[i][1] = tail.out[j][1] => i = j
    BY DEF PassInv
  <2>4. CASE Live(r)
    <3>1. PICK e, out : e = <<r, store[r]>> /\ out = Append(tail.out, e) /\ tail'.out = out
      BY <2>2, <2>4
    <3>2. IsSeq(tail.out)
      BY <1>0, SeqOfItems
    <3>3. PICK n \in Nat : /\ DOMAIN tail.out = 1..n /\ DOMAIN out = 1..n + 1
                           /\ \A i \in 1..n : out[i] = tail.out[i]
                           /\ out[n + 1][1] = r
      <4>1. /\ Len(tail.out) \in Nat /\ DOMAIN tail.out = 1..Len(tail.out)
            /\ DOMAIN out = 1..Len(tail.out) + 1
            /\ \A i \in 1..Len(tail.out) : out[i] = tail.out[i]
            /\ out[Len(tail.out) + 1] = e
        BY <3>1, <3>2, AppendItems
      <4>2. QED
        BY <3>1, <4>1
    <3>4. \A i \in 1..n : out[i][1] \notin DOMAIN tail.prints /\ out[i][1] # r
      BY <2>2, <2>3, <3>3
    <3>5. \A i \in 1..n + 1 : i \in 1..n \/ i = n + 1
      BY <3>3
    <3>6. \A i \in 1..n + 1 : out[i][1] \notin DOMAIN tail'.prints
      BY <2>2, <3>3, <3>4, <3>5
    <3>7. \A i, j \in 1..n + 1 : out[i][1] = out[j][1] => i = j
      BY <2>3, <3>3, <3>4, <3>5
    <3>8. QED
      BY <2>2, <3>1, <3>3, <3>6, <3>7 DEF PassInv
  <2>5. CASE ~Live(r)
    BY <2>2, <2>3, <2>5 DEF PassInv
  <2>6. QED
    BY <2>4, <2>5
<1>3. CASE Send
  <2>1. CASE tail'.out = << >> /\ tail'.prints = tail.prints /\ tail.pc = "send" /\ tail'.pc = "poll"
    BY <2>1 DEF PassInv
  <2>2. CASE \E i \in DOMAIN tail.out : /\ tail'.out = RemoveAt(tail.out, i)
                                        /\ tail'.prints = tail.prints
                                        /\ tail.pc = "send" /\ tail'.pc = "send"
    <3>0. PICK i \in DOMAIN tail.out : tail'.out = RemoveAt(tail.out, i)
      BY <2>2
    <3>1. PICK out : out = RemoveAt(tail.out, i) /\ tail'.out = out
      BY <3>0
    <3>2. PICK n \in Nat : /\ n = Len(tail.out) /\ DOMAIN tail.out = 1..n
                           /\ DOMAIN out = 1..n - 1 /\ i \in 1..n
                           /\ \A j \in 1..n - 1 :
                                out[j] = IF j < i THEN tail.out[j] ELSE tail.out[j + 1]
      <4>1. /\ DOMAIN RemoveAt(tail.out, i) = 1..Len(tail.out) - 1
            /\ Len(tail.out) \in Nat /\ i \in 1..Len(tail.out)
            /\ \A j \in 1..Len(tail.out) - 1 :
                  RemoveAt(tail.out, i)[j] = IF j < i THEN tail.out[j] ELSE tail.out[j + 1]
        <5>1. OneLess(Runs \X Row, tail.out, i)
          BY <1>0, ItemRemoved, Zenon
        <5>2. QED
          BY <5>1 DEF OneLess
      <4>2. DOMAIN tail.out = 1..Len(tail.out)
        BY <1>0, LenProperties
      <4>3. QED
        BY <3>1, <4>1, <4>2
    <3>3. PICK h : /\ h = [j \in 1..n - 1 |-> IF j < i THEN j ELSE j + 1]
                   /\ \A j \in 1..n - 1 : h[j] \in 1..n /\ out[j] = tail.out[h[j]]
                   /\ \A j, k \in 1..n - 1 : h[j] = h[k] => j = k
      <4>1. PICK h : h = [j \in 1..n - 1 |-> IF j < i THEN j ELSE j + 1]
        OBVIOUS
      <4>2. \A j \in 1..n - 1 : h[j] \in 1..n /\ h[j] = IF j < i THEN j ELSE j + 1
        BY <3>2, <4>1
      <4>3. \A j, k \in 1..n - 1 : h[j] = h[k] => j = k
        BY <3>2, <4>2
      <4>4. \A j \in 1..n - 1 : out[j] = tail.out[h[j]]
        BY <3>2, <4>2
      <4>5. QED
        BY <4>1, <4>2, <4>3, <4>4
    <3>4. /\ \A j \in 1..n : tail.out[j][1] \notin DOMAIN tail.prints
          /\ \A j, k \in 1..n : tail.out[j][1] = tail.out[k][1] => j = k
      BY <3>2 DEF PassInv
    <3>5. /\ \A j \in 1..n - 1 : out[j][1] \notin DOMAIN tail.prints
          /\ \A j, k \in 1..n - 1 : out[j][1] = out[k][1] => j = k
      <4>1. ASSUME NEW j \in 1..n - 1 PROVE out[j][1] \notin DOMAIN tail.prints
        <5>1. h[j] \in 1..n /\ out[j] = tail.out[h[j]]
          BY <3>3
        <5>2. QED
          BY <3>4, <5>1
      <4>2. ASSUME NEW j \in 1..n - 1, NEW k \in 1..n - 1, out[j][1] = out[k][1] PROVE j = k
        <5>1. /\ h[j] \in 1..n /\ out[j] = tail.out[h[j]]
              /\ h[k] \in 1..n /\ out[k] = tail.out[h[k]]
          BY <3>3
        <5>2. h[j] = h[k]
          BY <3>4, <4>2, <5>1
        <5>3. QED
          BY <3>3, <5>2
      <4>3. QED
        BY <4>1, <4>2
    <3>6. DOMAIN tail'.out = 1..n - 1 /\ tail'.out = out
      BY <3>1, <3>2
    <3>7. tail'.prints = tail.prints /\ tail'.pc = "send" /\ DOMAIN tail.prints = {}
      BY <2>2 DEF PassInv
    <3>8. QED
      BY <3>5, <3>6, <3>7 DEF PassInv
  <2>3. QED
    BY <1>0, <1>3, <2>1, <2>2, SendEffect
<1>4. CASE StreamOpens \/ StreamEnds \/ Reload
  BY <1>4, OffEffect DEF PassInv
<1>5. CASE Ledger \/ OtherCalls \/ OnLoaded \/ UNCHANGED vars
  <2>1. tail' = tail
    BY <1>0, <1>5, LedgerRow, OtherEffect DEF OnLoaded, vars
  <2>2. QED
    BY <2>1 DEF PassInv
<1>6. QED
  BY <1>1, <1>2, <1>3, <1>4, <1>5 DEF Next, RosterTail, Calls, OtherCalls

-----------------------------------------------------------------------------
(***************************************************************************)
(* What the screen will show of a run.                                     *)
(***************************************************************************)
\* A message that is not about the run changes nothing; one with its row is what
\* it will be shown with.
LEMMA MailTold ==
    ASSUME MailOK, NEW m, inbox' = Append(inbox, m), gen' = gen, app' = app,
           NEW r \in Runs, NEW row,
           (LastTold(r, row) /\ ~Tells(m, r)) \/ TellsOf(m, r, row)
    PROVE  LastTold(r, row)'
<1>1. PICK n \in Nat : /\ DOMAIN inbox = 1..n /\ DOMAIN inbox' = 1..n + 1
                       /\ \A i \in 1..n : inbox'[i] = inbox[i]
                       /\ inbox'[n + 1] = m
  <2>1. /\ Len(inbox) \in Nat /\ DOMAIN inbox = 1..Len(inbox)
        /\ DOMAIN Append(inbox, m) = 1..Len(inbox) + 1
        /\ \A i \in 1..Len(inbox) : Append(inbox, m)[i] = inbox[i]
        /\ Append(inbox, m)[Len(inbox) + 1] = m
    BY AppendItems DEF MailOK
  <2>2. QED
    BY <2>1
<1>2. \A j \in 1..n + 1 : j \in 1..n \/ j = n + 1
  BY <1>1
<1>3. CASE TellsOf(m, r, row)
  <2>1. n + 1 \in 1..n + 1 /\ \A j \in 1..n + 1 : ~(j > n + 1)
    BY <1>1
  <2>2. \E k \in 1..n + 1 : /\ TellsOf(inbox'[k], r, row)
                            /\ \A j \in 1..n + 1 : j > k => ~Tells(inbox'[j], r)
    BY <1>1, <1>3, <2>1
  <2>3. QED
    BY <1>1, <2>2 DEF LastTold, TellsOf, Tells
<1>4. CASE ~Tells(m, r) /\ \E k \in 1..n : /\ TellsOf(inbox[k], r, row)
                                           /\ \A j \in 1..n : j > k => ~Tells(inbox[j], r)
  <2>1. PICK k \in 1..n : /\ TellsOf(inbox[k], r, row)
                          /\ \A j \in 1..n : j > k => ~Tells(inbox[j], r)
    BY <1>4
  <2>2. k \in 1..n + 1 /\ TellsOf(inbox'[k], r, row)
    BY <1>1, <2>1
  <2>3. \A j \in 1..n + 1 : j > k => ~Tells(inbox'[j], r)
    BY <1>1, <1>2, <1>4, <2>1
  <2>4. QED
    BY <1>1, <2>2, <2>3 DEF LastTold, TellsOf, Tells
<1>5. CASE /\ ~Tells(m, r) /\ \A k \in 1..n : ~Tells(inbox[k], r)
           /\ r \in DOMAIN app.rows /\ app.rows[r] = row
  <2>1. \A k \in 1..n + 1 : ~Tells(inbox'[k], r)
    BY <1>1, <1>2, <1>5
  <2>2. QED
    BY <1>1, <1>5, <2>1 DEF LastTold, Tells
<1>6. QED
  BY <1>1, <1>3, <1>4, <1>5 DEF LastTold

\* The message at the head is taken: its row is shown, or what was shown stays.
LEMMA HeadTold ==
    ASSUME TypeOK, OnLoaded, NEW r \in Runs
    PROVE  LET m == Head(inbox)
           IN  /\ ~Tells(m, r) /\ r \in DOMAIN app.rows =>
                        r \in DOMAIN app'.rows /\ app'.rows[r] = app.rows[r]
               /\ \A row : TellsOf(m, r, row) =>
                        r \in DOMAIN app'.rows /\ app'.rows[r] = row
<1>0. AppOK(app)
  BY TypeParts
<1>1. PICK m : m = Head(inbox)
  OBVIOUS
<1>2. /\ MessageOK(m)
      /\ Quiet(m) \/ Refused(m) \/ Late(m) \/ Drawn(m) \/ Listed(m) \/ Updated(m)
  BY <1>1, LoopEffect
<1> SUFFICES /\ ~Tells(m, r) /\ r \in DOMAIN app.rows =>
                     r \in DOMAIN app'.rows /\ app'.rows[r] = app.rows[r]
             /\ \A row : TellsOf(m, r, row) =>
                     r \in DOMAIN app'.rows /\ app'.rows[r] = row
  BY <1>1
<1>3. CASE Quiet(m)
  BY <1>3 DEF Quiet, TellsOf
<1>4. CASE Refused(m) \/ Late(m) \/ Drawn(m)
  <2>1. app'.rows = app.rows
    <3>1. Late(m) => app'.rows = app.rows
      BY <1>0, LoadStripsKeeps DEF Late
    <3>2. Drawn(m) => app'.rows = app.rows
      <4>1. SUFFICES ASSUME Drawn(m) PROVE app'.rows = app.rows
        OBVIOUS
      <4>2. Partial(m.rows, Row)
        BY <1>2, <4>1 DEF Drawn, MessageOK
      <4>3. AppOK(Ready(m.rows)) /\ Ready(m.rows).rows = app.rows
        BY <1>0, <4>2, ReadyType
      <4>4. QED
        BY <4>1, <4>3, LoadStripsKeeps DEF Drawn
    <3>3. QED
      BY <1>4, <3>1, <3>2 DEF Refused
  <2>2. m.kind = "strips"
    BY <1>4 DEF Refused, Late, Drawn
  <2>3. QED
    BY <2>1, <2>2 DEF TellsOf, Tells
<1>5. CASE Listed(m)
  <2>1. app'.rows = m.rows
    BY <1>5, LoadStripsKeeps DEF Listed
  <2>2. QED
    BY <1>5, <2>1 DEF Listed, TellsOf, Tells
<1>6. CASE Updated(m)
  <2>1. app'.rows = With(app.rows, m.row[1], m.row[2]) /\ m.kind = "update" /\ m.gen = gen
    BY <1>6, LoadStripsKeeps DEF Updated
  <2>2. CASE m.row[1] = r
    BY <2>1, <2>2 DEF With, Over, TellsOf, Tells
  <2>3. CASE m.row[1] # r
    BY <2>1, <2>3 DEF With, Over, TellsOf, Tells
  <2>4. QED
    BY <2>2, <2>3
<1>7. QED
  BY <1>2, <1>3, <1>4, <1>5, <1>6

LEMMA LoopTold ==
    ASSUME TypeOK, OnLoaded, NEW r \in Runs, NEW row, LastTold(r, row)
    PROVE  LastTold(r, row)'
<1>0. MailOK /\ gen' = gen /\ inbox # << >> /\ inbox' = Tail(inbox)
  BY TypeParts, LoopEffect
<1>1. PICK m : m = Head(inbox)
  OBVIOUS
<1>2. PICK n \in Nat \ {0} : /\ DOMAIN inbox = 1..n /\ DOMAIN inbox' = 1..n - 1
                             /\ \A i \in 1..n - 1 : inbox'[i] = inbox[i + 1]
                             /\ m = inbox[1]
  <2>1. /\ Len(inbox) \in Nat \ {0} /\ DOMAIN inbox = 1..Len(inbox) /\ Head(inbox) = inbox[1]
        /\ DOMAIN Tail(inbox) = 1..Len(inbox) - 1
        /\ \A i \in 1..Len(inbox) - 1 : Tail(inbox)[i] = inbox[i + 1]
    BY <1>0, TailItems DEF MailOK
  <2>2. QED
    BY <1>0, <1>1, <2>1
<1>3. /\ ~Tells(m, r) /\ r \in DOMAIN app.rows =>
              r \in DOMAIN app'.rows /\ app'.rows[r] = app.rows[r]
      /\ TellsOf(m, r, row) => r \in DOMAIN app'.rows /\ app'.rows[r] = row
  BY <1>1, HeadTold
<1>4. CASE \E k \in 1..n : /\ TellsOf(inbox[k], r, row)
                           /\ \A j \in 1..n : j > k => ~Tells(inbox[j], r)
  <2>1. PICK k \in 1..n : /\ TellsOf(inbox[k], r, row)
                          /\ \A j \in 1..n : j > k => ~Tells(inbox[j], r)
    BY <1>4
  <2>2. CASE k = 1
    <3>1. \A j \in 1..n - 1 : j + 1 \in 1..n /\ j + 1 > k
      BY <1>2, <2>2
    <3>2. \A j \in 1..n - 1 : ~Tells(inbox'[j], r)
      BY <1>2, <2>1, <3>1
    <3>3. r \in DOMAIN app'.rows /\ app'.rows[r] = row
      BY <1>2, <1>3, <2>1, <2>2
    <3>4. QED
      BY <1>0, <1>2, <3>2, <3>3 DEF LastTold, Tells
  <2>3. CASE k # 1
    <3>1. k - 1 \in 1..n - 1 /\ (k - 1) + 1 = k
      BY <1>2, <2>1, <2>3
    <3>2. TellsOf(inbox'[k - 1], r, row)
      BY <1>2, <2>1, <3>1
    <3>3. \A j \in 1..n - 1 : j > k - 1 => j + 1 \in 1..n /\ j + 1 > k
      BY <1>2, <2>1
    <3>4. \A j \in 1..n - 1 : j > k - 1 => ~Tells(inbox'[j], r)
      BY <1>2, <2>1, <3>3
    <3>5. QED
      BY <1>0, <1>2, <3>1, <3>2, <3>4 DEF LastTold, TellsOf, Tells
  <2>4. QED
    BY <2>2, <2>3
<1>5. CASE /\ \A k \in 1..n : ~Tells(inbox[k], r)
           /\ r \in DOMAIN app.rows /\ app.rows[r] = row
  <2>1. \A j \in 1..n - 1 : j + 1 \in 1..n
    BY <1>2
  <2>2. \A j \in 1..n - 1 : ~Tells(inbox'[j], r)
    BY <1>2, <1>5, <2>1
  <2>3. r \in DOMAIN app'.rows /\ app'.rows[r] = row
    <3>1. 1 \in 1..n
      BY <1>2
    <3>2. QED
      BY <1>2, <1>3, <1>5, <3>1
  <2>4. QED
    BY <1>0, <1>2, <2>2, <2>3 DEF LastTold, Tells
<1>6. QED
  BY <1>2, <1>4, <1>5 DEF LastTold

Chained(r) ==
    \/ \E i \in DOMAIN tail.out : tail.out[i] = <<r, store[r]>>
    \/ ~Rolled(r) /\ LastTold(r, store[r])

LEMMA ChainStep == TypeOK /\ MarkInv /\ PassInv /\ ChainInv /\ [Next]_vars => ChainInv'
<1> SUFFICES ASSUME TypeOK, MarkInv, PassInv, ChainInv, [Next]_vars,
                    NEW r \in Runs, Settled(r)'
             PROVE  Chained(r)'
  BY DEF ChainInv, Chained
<1>0. /\ ServerOK /\ TailOK(tail) /\ MailOK /\ tail.out \in Seq(Runs \X Row)
      /\ Partial(tail.seen, Mark) /\ Partial(tail.prints, Mark)
  BY TypeParts DEF TailOK
<1>1. Settled(r) => Chained(r)
  BY DEF ChainInv, Chained
<1>2. ASSUME Settled(r), UNCHANGED <<store, inbox, app, gen>>, tail'.out = tail.out
      PROVE  Chained(r)'
  BY <1>1, <1>2 DEF Chained, Rolled, LastTold, Tells, TellsOf
<1>3. CASE Ledger
  <2>1. /\ UNCHANGED <<tail, inbox, app, gen>>
        /\ \/ store'[r] = store[r]
           \/ store'[r].count = 0 /\ store'[r].last = store[r].last
           \/ /\ store'[r].count = store[r].count + 1
              /\ \/ store'[r].last = store[r].last + 1
                 \/ store'[r].last = store[r].last /\ store[r].count > 0
    BY <1>0, <1>3, LedgerRow
  <2>2. /\ r \in DOMAIN tail.seen \ DOMAIN tail.prints
        /\ tail.seen[r] = <<store'[r].count, store'[r].last>> /\ store'[r].count > 0
    BY <2>1 DEF Settled, Fingerprint, Live
  <2>3. Behind(tail.seen[r], r)
    BY <2>2 DEF MarkInv
  <2>4. store[r].count \in Nat /\ store[r].last \in Nat
    BY <1>0 DEF ServerOK, Row
  <2>5. store'[r] = store[r]
    BY <2>1, <2>2, <2>3, <2>4 DEF Behind, Live
  <2>6. Settled(r)
    BY <2>2, <2>5 DEF Settled, Fingerprint, Live
  <2>7. QED
    BY <1>1, <2>1, <2>5, <2>6 DEF Chained, Rolled, LastTold, Tells, TellsOf
<1>4. CASE ReadFingerprints
  <2>1. /\ UNCHANGED <<store, inbox, app, gen>> /\ tail'.out = tail.out
        /\ tail.pc = "poll" /\ tail'.seen = tail.seen
        /\ tail'.prints = [q \in {s \in Runs : Live(s) /\ Changed(s)} |-> Fingerprint(q)]
    BY <1>0, <1>4, ReadEffect
  <2>2. Live(r) /\ ~Changed(r) /\ DOMAIN tail.prints = {}
    BY <2>1 DEF Settled, Live, PassInv
  <2>3. Settled(r)
    BY <2>2 DEF Settled, Changed
  <2>4. QED
    BY <1>2, <2>1, <2>3
<1>5. CASE \E q \in Runs : Rollup(q)
  <2>1. PICK q \in Runs : Rollup(q)
    BY <1>5
  <2>2. /\ UNCHANGED <<store, inbox, app, gen>> /\ q \in DOMAIN tail.prints
        /\ tail'.seen = With(tail.seen, q, tail.prints[q])
        /\ tail'.prints = Only(tail.prints, DOMAIN tail.prints \ {q})
        /\ tail'.out = IF Live(q) THEN Append(tail.out, <<q, store[q]>>) ELSE tail.out
    BY <1>0, <2>1, RollupEffect
  <2>3. Live(r)
    BY <2>2 DEF Settled, Live
  <2>4. ASSUME Live(q)
        PROVE  \E n \in Nat : /\ DOMAIN tail.out = 1..n /\ DOMAIN tail'.out = 1..n + 1
                              /\ \A i \in 1..n : tail'.out[i] = tail.out[i]
                              /\ tail'.out[n + 1] = <<q, store[q]>>
    <3>1. PICK e : e = <<q, store[q]>> /\ tail'.out = Append(tail.out, e)
      BY <2>2, <2>4
    <3>2. IsSeq(tail.out)
      BY <1>0, SeqOfItems
    <3>3. /\ Len(tail.out) \in Nat /\ DOMAIN tail.out = 1..Len(tail.out)
          /\ DOMAIN Append(tail.out, e) = 1..Len(tail.out) + 1
          /\ \A i \in 1..Len(tail.out) : Append(tail.out, e)[i] = tail.out[i]
          /\ Append(tail.out, e)[Len(tail.out) + 1] = e
      BY <3>2, AppendItems
    <3>4. QED
      BY <3>1, <3>3
  <2>5. CASE q = r
    <3>1. PICK n \in Nat : /\ DOMAIN tail'.out = 1..n + 1
                           /\ tail'.out[n + 1] = <<r, store[r]>>
      BY <2>3, <2>4, <2>5
    <3>2. QED
      BY <2>2, <3>1 DEF Chained
  <2>6. CASE q # r
    <3>1. Settled(r)
      BY <2>2, <2>3, <2>6 DEF Settled, Fingerprint, With, Over, Only
    <3>2. CASE Live(q)
      <4>1. PICK n \in Nat : /\ DOMAIN tail.out = 1..n /\ DOMAIN tail'.out = 1..n + 1
                             /\ \A i \in 1..n : tail'.out[i] = tail.out[i]
                             /\ tail'.out[n + 1] = <<q, store[q]>>
        BY <2>4, <3>2
      <4>2. CASE \E i \in DOMAIN tail.out : tail.out[i] = <<r, store[r]>>
        <5>1. \A i \in 1..n : i \in 1..n + 1
          BY <4>1
        <5>2. QED
          BY <2>2, <4>1, <4>2, <5>1 DEF Chained
      <4>3. CASE ~Rolled(r) /\ LastTold(r, store[r])
        <5>1. \A i \in 1..n + 1 : i \in 1..n \/ i = n + 1
          BY <4>1
        <5>2. \A i \in 1..n + 1 : tail'.out[i][1] # r
          BY <2>6, <4>1, <4>3, <5>1 DEF Rolled
        <5>3. QED
          BY <2>2, <4>1, <4>3, <5>2 DEF Chained, Rolled, LastTold, Tells, TellsOf
      <4>4. QED
        BY <1>1, <3>1, <4>2, <4>3 DEF Chained
    <3>3. CASE ~Live(q)
      BY <1>2, <2>2, <3>1, <3>3
    <3>4. QED
      BY <3>2, <3>3
  <2>7. QED
    BY <2>5, <2>6
<1>6. CASE Send
  <2>1. /\ UNCHANGED <<store, app, gen>> /\ tail'.seen = tail.seen
        /\ tail'.prints = tail.prints
        /\ \/ tail'.out = tail.out /\ inbox' = inbox
           \/ \E i \in DOMAIN tail.out :
                /\ inbox' = Append(inbox, [kind |-> "update", gen |-> gen,
                                           row |-> tail.out[i]])
                /\ tail'.out = RemoveAt(tail.out, i)
    BY <1>0, <1>6, SendEffect
  <2>2. Settled(r)
    BY <2>1 DEF Settled, Live, Fingerprint
  <2>3. CASE tail'.out = tail.out /\ inbox' = inbox
    BY <1>2, <2>1, <2>2, <2>3
  <2>4. CASE \E i \in DOMAIN tail.out :
                /\ inbox' = Append(inbox, [kind |-> "update", gen |-> gen,
                                           row |-> tail.out[i]])
                /\ tail'.out = RemoveAt(tail.out, i)
    <3>0. PICK i \in DOMAIN tail.out :
              /\ inbox' = Append(inbox, [kind |-> "update", gen |-> gen,
                                         row |-> tail.out[i]])
              /\ tail'.out = RemoveAt(tail.out, i)
      BY <2>4
    <3>1. PICK m :
              /\ m = [kind |-> "update", gen |-> gen, row |-> tail.out[i]]
              /\ inbox' = Append(inbox, m) /\ tail'.out = RemoveAt(tail.out, i)
      BY <3>0
    <3>2. PICK n \in Nat : /\ DOMAIN tail.out = 1..n /\ DOMAIN tail'.out = 1..n - 1
                           /\ i \in 1..n
                           /\ \A j \in 1..n - 1 : tail'.out[j] =
                                IF j < i THEN tail.out[j] ELSE tail.out[j + 1]
      <4>1. /\ DOMAIN RemoveAt(tail.out, i) = 1..Len(tail.out) - 1
            /\ Len(tail.out) \in Nat /\ i \in 1..Len(tail.out)
            /\ \A j \in 1..Len(tail.out) - 1 :
                  RemoveAt(tail.out, i)[j] = IF j < i THEN tail.out[j] ELSE tail.out[j + 1]
        <5>1. tail.out \in Seq(Runs \X Row) /\ i \in DOMAIN tail.out
          BY <1>0, <3>1
        <5>2. QED
          <6>1. OneLess(Runs \X Row, tail.out, i)
            BY <5>1, ItemRemoved, Zenon
          <6>2. QED
            BY <6>1 DEF OneLess
      <4>2. DOMAIN tail.out = 1..Len(tail.out)
        BY <1>0, LenProperties
      <4>3. QED
        BY <3>1, <4>1, <4>2
    <3>3. ASSUME NEW k \in 1..n, k # i
          PROVE  \E j \in 1..n - 1 : tail'.out[j] = tail.out[k]
      <4>1. CASE k < i
        <5>1. k \in 1..n - 1
          BY <3>2, <4>1
        <5>2. QED
          BY <3>2, <4>1, <5>1
      <4>2. CASE ~(k < i)
        <5>1. k - 1 \in 1..n - 1 /\ ~(k - 1 < i) /\ (k - 1) + 1 = k
          BY <3>2, <3>3, <4>2
        <5>2. QED
          BY <3>2, <5>1
      <4>3. QED
        BY <4>1, <4>2
    <3>4. ASSUME NEW j \in 1..n - 1
          PROVE  \E k \in 1..n : k # i /\ tail'.out[j] = tail.out[k]
      <4>1. CASE j < i
        <5>1. j \in 1..n /\ j # i
          BY <3>2, <4>1
        <5>2. QED
          BY <3>2, <4>1, <5>1
      <4>2. CASE ~(j < i)
        <5>1. j + 1 \in 1..n /\ j + 1 # i
          BY <3>2, <4>2
        <5>2. QED
          BY <3>2, <4>2, <5>1
      <4>3. QED
        BY <4>1, <4>2
    <3>5. m.kind = "update" /\ m.gen = gen /\ m.row = tail.out[i]
      BY <3>1
    <3>6. CASE tail.out[i] = <<r, store[r]>>
      <4>1. TellsOf(m, r, store[r])
        BY <3>5, <3>6 DEF TellsOf, Tells
      <4>2. LastTold(r, store[r])'
        <5>1. \A row : TellsOf(m, r, row) => LastTold(r, row)'
          BY <1>0, <2>1, <3>1, MailTold
        <5>2. QED
          BY <2>1, <4>1, <5>1
      <4>3. \A k \in 1..n : k # i => tail.out[k][1] # r
        BY <3>2, <3>6 DEF PassInv
      <4>4. \A j \in 1..n - 1 : tail'.out[j][1] # r
        BY <3>4, <4>3
      <4>5. QED
        BY <3>2, <4>2, <4>4 DEF Chained, Rolled
    <3>7. CASE \E k \in DOMAIN tail.out : k # i /\ tail.out[k] = <<r, store[r]>>
      <4>1. \E j \in 1..n - 1 : tail'.out[j] = <<r, store[r]>>
        BY <3>2, <3>3, <3>7
      <4>2. QED
        BY <2>1, <3>2, <4>1 DEF Chained
    <3>8. CASE ~Rolled(r) /\ LastTold(r, store[r])
      <4>1. ~Tells(m, r)
        BY <3>2, <3>5, <3>8 DEF Tells, Rolled
      <4>2. LastTold(r, store[r])'
        <5>1. \A row : LastTold(r, row) => LastTold(r, row)'
          BY <1>0, <2>1, <3>1, <4>1, MailTold
        <5>2. QED
          BY <2>1, <3>8, <5>1
      <4>3. \A j \in 1..n - 1 : tail'.out[j][1] # r
        BY <3>2, <3>4, <3>8 DEF Rolled
      <4>4. QED
        BY <3>2, <4>2, <4>3 DEF Chained, Rolled
    <3>9. QED
      BY <1>1, <2>2, <3>6, <3>7, <3>8 DEF Chained
  <2>5. QED
    BY <2>1, <2>3, <2>4
<1>7. CASE StreamOpens \/ StreamEnds \/ Reload
  BY <1>7, OffEffect DEF Settled
<1>8. CASE OtherCalls
  <2>1. /\ UNCHANGED <<store, tail, app, gen>>
    BY <1>8, OtherEffect
  <2>2. Settled(r)
    BY <2>1 DEF Settled, Live, Fingerprint
  <2>3. CASE inbox' = inbox
    BY <1>2, <2>1, <2>2, <2>3
  <2>4. CASE \E m : inbox' = Append(inbox, m) /\ (~Tells(m, r) \/ TellsOf(m, r, store[r]))
    <3>1. PICK m : inbox' = Append(inbox, m) /\ (~Tells(m, r) \/ TellsOf(m, r, store[r]))
      BY <2>4
    <3>2. \A row : (LastTold(r, row) /\ ~Tells(m, r)) \/ TellsOf(m, r, row) => LastTold(r, row)'
      BY <1>0, <2>1, <3>1, MailTold
    <3>3. LastTold(r, store[r]) => LastTold(r, store[r])'
      BY <2>1, <3>1, <3>2
    <3>4. QED
      BY <1>1, <2>1, <2>2, <3>3 DEF Chained, Rolled
  <2>5. CASE ListReplies
    <3>1. PICK m : /\ m = [kind |-> "list", gen |-> gen, ok |-> TRUE, rows |-> Rows]
                   /\ inbox' = Append(inbox, m)
      BY <2>5 DEF ListReplies, Says
    <3>2. m.kind = "list" /\ m.gen = gen /\ m.rows = Rows
      BY <3>1
    <3>3. m.ok
      BY <3>1, Zenon
    <3>4. r \in DOMAIN Rows /\ Rows[r] = store[r]
      BY <1>0, <2>2, Reading DEF Settled
    <3>5. TellsOf(m, r, store[r])
      BY <3>2, <3>3, <3>4 DEF TellsOf, Tells
    <3>6. QED
      BY <2>4, <3>1, <3>5
  <2>6. CASE ListFails
    <3>1. PICK m : /\ m = [kind |-> "list", gen |-> gen, ok |-> FALSE, rows |-> None]
                   /\ inbox' = Append(inbox, m)
      BY <2>6 DEF ListFails, Says
    <3>2. m.kind = "list"
      BY <3>1
    <3>3. ~m.ok
      BY <3>1, Zenon
    <3>4. QED
      BY <2>4, <3>1, <3>2, <3>3 DEF Tells
  <2>7. CASE \E i \in DOMAIN fetches : AgentsReply(i) \/ AgentsFail(i)
    <3>1. \/ inbox' = inbox
          \/ \E i \in DOMAIN fetches :
                inbox' = Append(inbox, [kind |-> "agents", gen |-> fetches[i], got |-> agents])
      BY <2>7 DEF AgentsReply, AgentsFail, Says
    <3>2. CASE \E m : m.kind = "agents" /\ inbox' = Append(inbox, m)
      BY <2>4, <3>2 DEF Tells
    <3>3. QED
      BY <2>3, <3>1, <3>2
  <2>8. CASE \E q \in Runs : BuildStrip(q)
    BY <2>3, <2>8 DEF BuildStrip
  <2>9. CASE \E ok \in BOOLEAN : StripsReply(ok)
    <3>1. \E ok \in BOOLEAN :
              inbox' = Append(inbox, [kind |-> "strips", gen |-> strips.gen, ok |-> ok,
                                      rows |-> strips.got])
      BY <2>9 DEF StripsReply, Says
    <3>2. QED
      BY <2>4, <3>1 DEF Tells
  <2>10. QED
    BY <1>8, <2>5, <2>6, <2>7, <2>8, <2>9 DEF OtherCalls
<1>9. CASE OnLoaded
  <2>1. UNCHANGED <<store, tail>>
    BY <1>9, LoopEffect DEF server
  <2>2. Settled(r)
    BY <2>1 DEF Settled, Live, Fingerprint
  <2>3. \A row : LastTold(r, row) => LastTold(r, row)'
    BY <1>9, LoopTold
  <2>4. LastTold(r, store[r]) => LastTold(r, store[r])'
    BY <2>1, <2>3
  <2>5. QED
    BY <1>1, <2>1, <2>2, <2>4 DEF Chained, Rolled
<1>10. CASE UNCHANGED vars
  <2>1. UNCHANGED <<store, tail, inbox, app, gen>>
    BY <1>10 DEF vars, server
  <2>2. Settled(r)
    BY <2>1 DEF Settled, Live, Fingerprint
  <2>3. QED
    BY <1>2, <2>1, <2>2
<1>11. QED
  BY <1>3, <1>4, <1>5, <1>6, <1>7, <1>8, <1>9, <1>10 DEF Next, RosterTail, Calls, OtherCalls

LEMMA StaleStep == TypeOK /\ StaleInv /\ [Next]_vars => StaleInv'
<1> SUFFICES ASSUME TypeOK, StaleInv, [Next]_vars PROVE StaleInv'
  OBVIOUS
<1>0. AppOK(app)
  BY TypeParts
<1>1. ASSUME app'.rows = app.rows, app'.strips = app.strips, app'.failed = app.failed,
             strips'.busy = strips.busy
      PROVE  StaleInv'
  <2>1. Stale(app') = Stale(app)
    BY <1>1 DEF Stale
  <2>2. QED
    BY <1>1, <2>1, Zenon DEF StaleInv
<1>2. ASSUME NEW a, NEW flight, AppOK(a), LoadStrips(a, flight), ~flight.busy \/ strips'.busy
      PROVE  StaleInv'
  <2>1. /\ Stale(app') = Stale(a)
        /\ ~flight.busy => strips'.busy \/ Stale(a) = {}
    BY <1>2, LoadStripsKeeps
  <2>2. QED
    BY <1>2, <2>1, Zenon DEF StaleInv
<1>3. CASE Ledger \/ RosterTail \/ UNCHANGED vars
  <2>1. UNCHANGED <<strips, app>>
    BY <1>3 DEF Ledger, InsertEvent, DeleteAgent, RosterTail, ReadFingerprints, Rollup, Send, vars
  <2>2. QED
    BY <1>1, <2>1
<1>4. CASE Calls \/ Reload
  <2>1. app' = app \/ app' = [app EXCEPT !.load = "Loading"]
    BY <1>4 DEF Calls, ListReplies, ListFails, StreamOpens, StreamEnds, AgentsReply,
        AgentsFail, BuildStrip, StripsReply, Reload
  <2>2. app'.rows = app.rows /\ app'.strips = app.strips /\ app'.failed = app.failed
    BY <1>0, <2>1 DEF AppOK
  <2>3. \/ strips' = strips \/ strips' = [strips EXCEPT !.gen = 0]
        \/ \E s, g : strips' = [strips EXCEPT !.asked = s, !.got = g]
    BY <1>4 DEF Calls, ListReplies, ListFails, StreamOpens, StreamEnds, AgentsReply,
        AgentsFail, BuildStrip, StripsReply, Reload
  <2>4. strips'.busy = strips.busy
    BY <2>3, TypeParts DEF FlightOK
  <2>5. QED
    BY <1>1, <2>2, <2>4
<1>5. CASE OnLoaded
  <2>1. PICK m : m = Head(inbox)
    OBVIOUS
  <2>2. /\ MessageOK(m)
        /\ Quiet(m) \/ Refused(m) \/ Late(m) \/ Drawn(m) \/ Listed(m) \/ Updated(m)
    BY <1>5, <2>1, LoopEffect
  <2>3. CASE Quiet(m)
    BY <1>1, <2>3 DEF Quiet
  <2>4. CASE Refused(m)
    BY <2>4, Zenon DEF Refused, StaleInv
  <2>5. ~Idle.busy
    <3>1. Idle = [busy |-> FALSE, gen |-> 0, asked |-> {}, got |-> None]
      BY DEF Idle
    <3>2. QED
      BY <3>1, Zenon
  <2>6. CASE Late(m)
    BY <1>0, <1>2, <2>5, <2>6 DEF Late
  <2>7. CASE Drawn(m)
    <3>1. Partial(m.rows, Row)
      BY <2>2, <2>7 DEF Drawn, MessageOK
    <3>2. AppOK(Ready(m.rows))
      BY <1>0, <3>1, ReadyType
    <3>3. QED
      BY <1>2, <2>5, <2>7, <3>2 DEF Drawn
  <2>8. CASE Listed(m) \/ Updated(m)
    <3>1. PICK a : AppOK(a) /\ LoadStrips(a, strips)
      BY <2>8 DEF Listed, Updated
    <3>2. strips.busy => strips' = strips
      BY <3>1, LoadStripsKeeps
    <3>3. QED
      BY <1>2, <3>1, <3>2, Zenon
  <2>9. QED
    BY <2>2, <2>3, <2>4, <2>6, <2>7, <2>8
<1>6. QED
  BY <1>3, <1>4, <1>5 DEF Next

LEMMA CurrentInit == Init => CurrentInv
<1> SUFFICES ASSUME Init PROVE CurrentInv
  OBVIOUS
<1>1. /\ DOMAIN tail.prints = {} /\ DOMAIN tail.seen = {} /\ tail.out = << >>
  BY NothingYet DEF Init, TailOff
<1>2. MarkInv /\ PassInv /\ ChainInv
  BY <1>1 DEF MarkInv, PassInv, ChainInv, Settled
<1>3. DOMAIN app.rows = {}
  BY NothingYet DEF Init
<1>4. StaleInv
  BY <1>3 DEF StaleInv, Stale
<1>5. QED
  BY <1>2, <1>4 DEF CurrentInv

LEMMA CurrentIsEnough == TypeOK /\ CurrentInv => FeedIsCurrent
<1> SUFFICES ASSUME TypeOK, CurrentInv, CaughtUp, NEW r \in Runs, Live(r)
             PROVE  /\ r \in DOMAIN app.rows /\ app.rows[r] = store[r]
                    /\ ~strips.busy /\ ~app.failed =>
                          /\ r \in DOMAIN app.strips
                          /\ app.strips[r].revision = Revision(app.rows[r])
  BY DEF FeedIsCurrent
<1>1. DOMAIN inbox = {} /\ DOMAIN tail.prints = {} /\ DOMAIN tail.out = {}
  BY DEF CaughtUp, CurrentInv, PassInv
<1>2. Settled(r)
  BY <1>1 DEF CaughtUp, Changed, Settled
<1>3. LastTold(r, store[r])
  BY <1>1, <1>2 DEF CurrentInv, ChainInv
<1>4. r \in DOMAIN app.rows /\ app.rows[r] = store[r]
  BY <1>1, <1>3 DEF LastTold
<1>5. ~strips.busy /\ ~app.failed => Stale(app) = {}
  BY Zenon DEF CurrentInv, StaleInv
<1>6. Stale(app) = {} => r \in DOMAIN app.strips /\ app.strips[r].revision = Revision(app.rows[r])
  BY <1>4 DEF Stale
<1>7. QED
  BY <1>4, <1>5, <1>6, Zenon

\* A feed that has caught up shows every run as the ledger has it, whatever was
\* written, reloaded, refused or reordered on the way (stream.rs 135-154):
\* Feed!FeedIsCurrent.
THEOREM FeedIsCurrentHolds == Spec => []FeedIsCurrent
<1>1. TypeOK /\ CurrentInv /\ [Next]_vars => TypeOK' /\ CurrentInv'
  <2>1. CurrentInv' <=> MarkInv' /\ PassInv' /\ ChainInv' /\ StaleInv'
    BY DEF CurrentInv
  <2>2. QED
    BY <2>1, TypeStep, MarkStep, PassStep, ChainStep, StaleStep DEF CurrentInv
<1>2. QED
  BY <1>1, TypeInit, CurrentInit, CurrentIsEnough, PTL DEF Spec

-----------------------------------------------------------------------------
(***************************************************************************)
(* Where what is shown comes from.                                         *)
(***************************************************************************)
LEMMA LoopSources ==
    ASSUME TypeOK, OnLoaded
    PROVE  LET m == Head(inbox)
           IN  /\ \A r \in DOMAIN app'.rows :
                    \/ r \in DOMAIN app.rows /\ app'.rows[r] = app.rows[r]
                    \/ m.kind = "list" /\ r \in DOMAIN m.rows /\ app'.rows[r] = m.rows[r]
                    \/ m.kind = "update" /\ m.row[1] = r /\ app'.rows[r] = m.row[2]
               /\ \A r \in DOMAIN app'.strips :
                    \/ r \in DOMAIN app.strips /\ app'.strips[r] = app.strips[r]
                    \/ /\ m.kind = "strips" /\ r \in DOMAIN m.rows \cap DOMAIN app.pending
                       /\ app'.strips[r].revision = app.pending[r]
                       /\ app'.strips[r].of = m.rows[r]
               /\ \/ /\ app'.pending = app.pending
                     /\ strips' = strips \/ (m.kind = "strips" /\ strips' = Idle)
                  \/ /\ m.kind = "strips" \/ ~strips.busy
                     /\ strips'.got = None /\ DOMAIN app'.pending \subseteq DOMAIN app'.rows
                     /\ \A r \in DOMAIN app'.pending : app'.pending[r] = Revision(app'.rows[r])
<1> DEFINE RowsFrom(m) ==
        \A r \in DOMAIN app'.rows :
            \/ r \in DOMAIN app.rows /\ app'.rows[r] = app.rows[r]
            \/ m.kind = "list" /\ r \in DOMAIN m.rows /\ app'.rows[r] = m.rows[r]
            \/ m.kind = "update" /\ m.row[1] = r /\ app'.rows[r] = m.row[2]
           StripsFrom(m) ==
        \A r \in DOMAIN app'.strips :
            \/ r \in DOMAIN app.strips /\ app'.strips[r] = app.strips[r]
            \/ /\ m.kind = "strips" /\ r \in DOMAIN m.rows \cap DOMAIN app.pending
               /\ app'.strips[r].revision = app.pending[r]
               /\ app'.strips[r].of = m.rows[r]
           Same(m) == /\ app'.pending = app.pending
                      /\ strips' = strips \/ (m.kind = "strips" /\ strips' = Idle)
           Asked == /\ strips'.got = None /\ DOMAIN app'.pending \subseteq DOMAIN app'.rows
                    /\ \A r \in DOMAIN app'.pending : app'.pending[r] = Revision(app'.rows[r])
<1>0. AppOK(app)
  BY TypeParts
<1>1. PICK m : m = Head(inbox)
  OBVIOUS
<1>2. /\ MessageOK(m)
      /\ Quiet(m) \/ Refused(m) \/ Late(m) \/ Drawn(m) \/ Listed(m) \/ Updated(m)
  BY <1>1, LoopEffect
<1> SUFFICES /\ RowsFrom(m) /\ StripsFrom(m)
             /\ Same(m) \/ ((m.kind = "strips" \/ ~strips.busy) /\ Asked)
  BY <1>1
<1>3. ASSUME NEW a, NEW flight, AppOK(a), LoadStrips(a, flight)
      PROVE  /\ app'.rows = a.rows /\ app'.strips = a.strips
             /\ \/ flight.busy /\ app'.pending = a.pending /\ strips' = flight
                \/ ~flight.busy /\ Asked
  <2>1. /\ app'.rows = a.rows /\ app'.strips = a.strips
        /\ flight.busy => app'.pending = a.pending /\ strips' = flight
        /\ ~flight.busy => /\ app'.pending = [r \in Stale(a) |-> Revision(a.rows[r])]
                           /\ strips'.got = None
    BY <1>3, LoadStripsKeeps
  <2>2. CASE ~flight.busy
    <3>1. Asked
      BY <2>1, <2>2 DEF Stale
    <3>2. QED
      BY <2>1, <2>2, <3>1, Zenon
  <2>3. CASE flight.busy
    BY <2>1, <2>3, Zenon
  <2>4. QED
    BY <2>2, <2>3, Zenon
<1>4. CASE Quiet(m) \/ Refused(m)
  <2>1. /\ app'.rows = app.rows /\ app'.strips = app.strips /\ app'.pending = app.pending
        /\ strips' = strips \/ (m.kind = "strips" /\ strips' = Idle)
    <3>1. CASE Quiet(m)
      BY <3>1, Zenon DEF Quiet
    <3>2. CASE Refused(m)
      BY <3>2, Zenon DEF Refused
    <3>3. QED
      BY <1>4, <3>1, <3>2, Zenon
  <2>2. RowsFrom(m) /\ StripsFrom(m) /\ Same(m)
    BY <2>1
  <2> HIDE DEF RowsFrom, StripsFrom, Same, Asked
  <2>3. QED
    BY <2>2, Zenon
<1>5. ~Idle.busy
  <2>1. Idle = [busy |-> FALSE, gen |-> 0, asked |-> {}, got |-> None]
    BY DEF Idle
  <2>2. QED
    BY <2>1, Zenon
<1>6. CASE Late(m)
  <2>1. app'.rows = app.rows /\ app'.strips = app.strips /\ Asked /\ m.kind = "strips"
    <3> HIDE DEF Asked
    <3>1. QED
      BY <1>0, <1>3, <1>5, <1>6, Zenon DEF Late
  <2>2. QED
    BY <2>1
<1>7. CASE Drawn(m)
  <2>1. Partial(m.rows, Row) /\ m.kind = "strips"
    BY <1>2, <1>7 DEF Drawn, MessageOK
  <2>2. /\ AppOK(Ready(m.rows)) /\ Ready(m.rows).rows = app.rows
        /\ Ready(m.rows).strips =
              Over([r \in DOMAIN m.rows \cap DOMAIN app.pending |->
                          [revision |-> app.pending[r], of |-> m.rows[r]]], app.strips)
    BY <1>0, <2>1, ReadyType
  <2>3. app'.rows = app.rows /\ app'.strips = Ready(m.rows).strips /\ Asked
    <3> HIDE DEF Asked
    <3>1. QED
      BY <1>3, <1>5, <1>7, <2>2, Zenon DEF Drawn
  <2>4. StripsFrom(m)
    BY <2>1, <2>2, <2>3 DEF Over
  <2>5. QED
    BY <2>1, <2>3, <2>4
<1>8. CASE Listed(m)
  <2>1. PICK a : /\ AppOK(a) /\ a.rows = m.rows /\ a.strips = Only(app.strips, DOMAIN m.rows)
                 /\ a.pending = app.pending /\ LoadStrips(a, strips)
    BY <1>8 DEF Listed
  <2>2. /\ app'.rows = a.rows /\ app'.strips = a.strips
        /\ \/ app'.pending = a.pending /\ strips' = strips
           \/ ~strips.busy /\ Asked
    <3> HIDE DEF Asked
    <3>1. QED
      BY <1>3, <2>1, Zenon
  <2>3. RowsFrom(m) /\ StripsFrom(m)
    BY <1>8, <2>1, <2>2 DEF Listed, Only
  <2>4. Same(m) \/ (~strips.busy /\ Asked)
    <3> HIDE DEF Asked
    <3>1. QED
      BY <2>1, <2>2, Zenon
  <2> HIDE DEF RowsFrom, StripsFrom, Same, Asked
  <2>5. QED
    BY <2>3, <2>4, Zenon
<1>9. CASE Updated(m)
  <2>1. PICK a : /\ AppOK(a) /\ a.rows = With(app.rows, m.row[1], m.row[2])
                 /\ a.strips = app.strips
                 /\ a.pending = app.pending /\ LoadStrips(a, strips)
    BY <1>9 DEF Updated
  <2>2. /\ app'.rows = a.rows /\ app'.strips = a.strips
        /\ \/ app'.pending = a.pending /\ strips' = strips
           \/ ~strips.busy /\ Asked
    <3> HIDE DEF Asked
    <3>1. QED
      BY <1>3, <2>1, Zenon
  <2>3. RowsFrom(m) /\ StripsFrom(m)
    BY <1>9, <2>1, <2>2 DEF Updated, With, Over
  <2>4. Same(m) \/ (~strips.busy /\ Asked)
    <3> HIDE DEF Asked
    <3>1. QED
      BY <2>1, <2>2, Zenon
  <2> HIDE DEF RowsFrom, StripsFrom, Same, Asked
  <2>5. QED
    BY <2>3, <2>4, Zenon
<1>10. QED
  BY <1>2, <1>4, <1>6, <1>7, <1>8, <1>9

\* A message that is put into the channel, by what it carries.
LEMMA CallSources ==
    ASSUME TypeOK, Calls
    PROVE  /\ UNCHANGED <<store, late, app>>
           /\ strips'.busy = strips.busy
           /\ \A r \in DOMAIN strips'.got :
                \/ r \in DOMAIN strips.got /\ strips'.got[r] = strips.got[r]
                \/ r \in Runs /\ Live(r) /\ strips'.got[r] = store[r]
           /\ \/ inbox' = inbox /\ strips'.gen = strips.gen
              \/ \E m : /\ inbox' = Append(inbox, m) /\ strips'.gen = strips.gen
                        /\ m.kind = "list" /\ m.rows \in {None, Rows}
              \/ \E m : /\ inbox' = Append(inbox, m) /\ strips'.gen = strips.gen
                        /\ m.kind \in {"live", "ended", "agents"}
              \/ \E m : /\ inbox' = Append(inbox, m) /\ m.kind = "strips" /\ strips.busy
                        /\ m.rows = strips.got /\ strips.gen > 0 /\ strips'.gen = 0
<1>0. FlightOK(strips)
  BY TypeParts
<1>1. UNCHANGED <<store, late, app>>
  BY DEF Calls, ListReplies, ListFails, StreamOpens, StreamEnds, AgentsReply, AgentsFail,
     BuildStrip, StripsReply, server
<1>2. CASE \E r \in Runs : BuildStrip(r)
  <2>1. PICK r \in Runs : BuildStrip(r)
    BY <1>2
  <2>2. PICK asked, got : /\ got = IF Live(r) THEN With(strips.got, r, store[r]) ELSE strips.got
                          /\ strips' = [strips EXCEPT !.asked = asked, !.got = got]
    BY <2>1 DEF BuildStrip
  <2>3. strips'.busy = strips.busy /\ strips'.gen = strips.gen /\ strips'.got = got
    BY <1>0, <2>2 DEF FlightOK
  <2>4. \A q \in DOMAIN got : \/ q \in DOMAIN strips.got /\ got[q] = strips.got[q]
                              \/ q \in Runs /\ Live(q) /\ got[q] = store[q]
    BY <2>2 DEF With, Over
  <2>5. inbox' = inbox
    BY <2>1 DEF BuildStrip
  <2>6. QED
    BY <1>1, <2>3, <2>4, <2>5
<1>3. CASE \E ok \in BOOLEAN : StripsReply(ok)
  <2>0. PICK ok \in BOOLEAN : StripsReply(ok)
    BY <1>3
  <2>1. PICK m :
            /\ m = [kind |-> "strips", gen |-> strips.gen, ok |-> ok, rows |-> strips.got]
            /\ inbox' = Append(inbox, m) /\ strips' = [strips EXCEPT !.gen = 0]
            /\ strips.gen > 0
    BY <2>0 DEF StripsReply, Says
  <2>2. strips.busy
    BY <1>3, Zenon DEF StripsReply
  <2>3. strips'.busy = strips.busy /\ strips'.gen = 0 /\ strips'.got = strips.got
    BY <1>0, <2>1 DEF FlightOK
  <2>4. m.kind = "strips" /\ m.rows = strips.got
    BY <2>1
  <2>5. inbox' = Append(inbox, m) /\ strips.gen > 0
    BY <2>1
  <2>6. QED
    BY <1>1, <2>2, <2>3, <2>4, <2>5, Zenon
<1>4. CASE ListReplies \/ ListFails
  <2>1. strips' = strips
    BY <1>4 DEF ListReplies, ListFails
  <2>2. \E m : inbox' = Append(inbox, m) /\ m.kind = "list" /\ m.rows \in {None, Rows}
    BY <1>4 DEF ListReplies, ListFails, Says
  <2>3. QED
    BY <1>1, <2>1, <2>2
<1>5. CASE StreamOpens \/ StreamEnds \/ \E i \in DOMAIN fetches : AgentsReply(i) \/ AgentsFail(i)
  <2>1. strips' = strips
    BY <1>5 DEF StreamOpens, StreamEnds, AgentsReply, AgentsFail
  <2>2. \/ inbox' = inbox
        \/ \E m : inbox' = Append(inbox, m) /\ m.kind \in {"live", "ended", "agents"}
    <3>1. \/ inbox' = inbox
          \/ inbox' = Append(inbox, [kind |-> "live", gen |-> gen])
          \/ inbox' = Append(inbox, [kind |-> "ended", gen |-> gen])
          \/ \E i \in DOMAIN fetches :
                inbox' = Append(inbox, [kind |-> "agents", gen |-> fetches[i], got |-> agents])
      BY <1>5, Zenon DEF StreamOpens, StreamEnds, AgentsReply, AgentsFail, Says
    <3>2. /\ [kind |-> "live", gen |-> gen].kind = "live"
          /\ [kind |-> "ended", gen |-> gen].kind = "ended"
          /\ \A g : [kind |-> "agents", gen |-> g, got |-> agents].kind = "agents"
      OBVIOUS
    <3>3. QED
      BY <3>1, <3>2, Zenon
  <2>3. QED
    BY <1>1, <2>1, <2>2
<1>6. QED
  BY <1>2, <1>3, <1>4, <1>5 DEF Calls

LEMMA MailStays ==
    ASSUME MailOK, NEW m, inbox' = Append(inbox, m)
    PROVE  ToSet(inbox') = ToSet(inbox) \cup {m}
BY AppendItems DEF MailOK

LEMMA MailLeaves ==
    ASSUME TypeOK, OnLoaded
    PROVE  /\ ToSet(inbox') \subseteq ToSet(inbox) /\ Head(inbox) \in ToSet(inbox)
           /\ MessageOK(Head(inbox))
BY TypeParts, LoopEffect, TailItems DEF MailOK

LEMMA PastStep == TypeOK /\ PastInv /\ [Next]_vars => PastInv'
<1> SUFFICES ASSUME TypeOK, PastInv, [Next]_vars PROVE PastInv'
  OBVIOUS
<1>0. /\ ServerOK /\ TailOK(tail) /\ MailOK /\ FlightOK(strips) /\ AppOK(app)
      /\ tail.out \in Seq(Runs \X Row)
  BY TypeParts DEF TailOK
<1>a. \A i \in DOMAIN tail.out : tail.out[i][1] \in Runs /\ tail.out[i][2] \in Row
  <2>1. \A i \in DOMAIN tail.out : tail.out[i] \in Runs \X Row
    BY <1>0, ElementOfSeq, LenProperties
  <2>2. QED
    BY <2>1
<1>1. CASE Ledger
  <2>1. ASSUME NEW r \in Runs, NEW row \in Row, Past(row, r) PROVE Past(row, r)'
    <3>1. /\ row.last \in Nat /\ store[r].count \in Nat /\ store[r].last \in Nat
      BY <1>0 DEF ServerOK, Row
    <3>2. /\ late \subseteq late'
          /\ \/ store'[r] = store[r]
             \/ store'[r].count = 0 /\ store'[r].last = store[r].last
             \/ /\ store'[r].count = store[r].count + 1
                /\ \/ store'[r].last = store[r].last + 1
                   \/ store'[r].last = store[r].last /\ r \in late'
      BY <1>0, <1>1, LedgerRow
    <3>3. QED
      BY <2>1, <3>1, <3>2 DEF Past, Live
  <2>2. UNCHANGED <<tail, inbox, strips, app>>
    BY <1>0, <1>1, LedgerRow
  <2>3. \A i \in DOMAIN tail.out : Past(tail.out[i][2], tail.out[i][1])'
    BY <1>a, <2>1, <2>2 DEF PastInv
  <2>4. \A m \in ToSet(inbox) : PastMessage(m)'
    <3>1. SUFFICES ASSUME NEW m \in ToSet(inbox) PROVE PastMessage(m)'
      OBVIOUS
    <3>2. MessageOK(m) /\ PastMessage(m)
      BY <1>0 DEF MailOK, PastInv
    <3>3. CASE m.kind = "update"
      <4>1. m.row[1] \in Runs /\ m.row[2] \in Row
        BY <3>2, <3>3 DEF MessageOK
      <4>2. QED
        BY <2>1, <3>2, <3>3, <4>1 DEF PastMessage
    <3>4. CASE m.kind \in {"list", "strips"}
      <4>1. Partial(m.rows, Row)
        BY <3>2, <3>4 DEF MessageOK
      <4>2. \A r \in DOMAIN m.rows : r \in Runs /\ m.rows[r] \in Row
        BY <4>1, PartialMaps
      <4>3. QED
        BY <2>1, <3>2, <3>4, <4>2 DEF PastMessage
    <3>5. QED
      BY <3>3, <3>4 DEF PastMessage
  <2>5. \A r \in DOMAIN strips.got : Past(strips.got[r], r)'
    BY <1>0, <2>1, <2>2, PartialMaps DEF PastInv, FlightOK
  <2>6. \A r \in DOMAIN app.rows : Past(app.rows[r], r)'
    BY <1>0, <2>1, <2>2, PartialMaps DEF PastInv, AppOK
  <2>7. \A r \in DOMAIN app.strips : Past(app.strips[r].of, r)'
    <3>1. \A r \in DOMAIN app.strips : r \in Runs /\ app.strips[r].of \in Row
      BY <1>0 DEF AppOK, Partial
    <3>2. QED
      BY <2>1, <2>2, <3>1 DEF PastInv
  <2>8. QED
    BY <2>2, <2>3, <2>4, <2>5, <2>6, <2>7 DEF PastInv
<1>2. ASSUME UNCHANGED <<store, late>>
      PROVE  /\ \A r, row : Past(row, r)' <=> Past(row, r)
             /\ \A m : PastMessage(m)' <=> PastMessage(m)
  BY <1>2 DEF PastMessage, Past, Live
<1>b. ASSUME NEW r \in Runs, Live(r) PROVE Past(store[r], r)
  BY <1>0, <1>b DEF Past, Live, ServerOK, Row
<1>3. CASE ReadFingerprints
  <2>1. /\ UNCHANGED <<store, late, inbox, strips, app>> /\ tail'.out = tail.out
    BY <1>0, <1>3, ReadEffect
  <2>2. QED
    BY <2>1 DEF PastInv, PastMessage, Past, Live
<1>4. CASE \E q \in Runs : Rollup(q)
  <2>1. PICK q \in Runs : Rollup(q)
    BY <1>4
  <2>2. /\ UNCHANGED <<store, late, inbox, strips, app>>
        /\ tail'.out = IF Live(q) THEN Append(tail.out, <<q, store[q]>>) ELSE tail.out
    BY <1>0, <2>1, RollupEffect
  <2>3. \A i \in DOMAIN tail'.out : Past(tail'.out[i][2], tail'.out[i][1])
    <3>1. CASE Live(q)
      <4>1. PICK e : e = <<q, store[q]>> /\ tail'.out = Append(tail.out, e)
        BY <2>2, <3>1
      <4>2. IsSeq(tail.out)
        BY <1>0, SeqOfItems
      <4>3. /\ Len(tail.out) \in Nat /\ DOMAIN tail.out = 1..Len(tail.out)
            /\ DOMAIN Append(tail.out, e) = 1..Len(tail.out) + 1
            /\ \A i \in 1..Len(tail.out) : Append(tail.out, e)[i] = tail.out[i]
            /\ Append(tail.out, e)[Len(tail.out) + 1] = e
        BY <4>2, AppendItems
      <4>4. Past(e[2], e[1])
        BY <1>b, <3>1, <4>1
      <4>5. \A i \in 1..Len(tail.out) + 1 : i \in 1..Len(tail.out) \/ i = Len(tail.out) + 1
        BY <4>3
      <4>6. \A i \in DOMAIN tail.out : Past(tail.out[i][2], tail.out[i][1])
        BY DEF PastInv
      <4>7. QED
        BY <4>1, <4>3, <4>4, <4>5, <4>6
    <3>2. CASE ~Live(q)
      BY <2>2, <3>2 DEF PastInv
    <3>3. QED
      BY <3>1, <3>2
  <2>4. QED
    BY <2>2, <2>3 DEF PastInv, PastMessage, Past, Live
<1>5. CASE Send
  <2>1. /\ UNCHANGED <<store, late, strips, app>>
        /\ \/ tail'.out = tail.out /\ inbox' = inbox
           \/ \E i \in DOMAIN tail.out :
                /\ inbox' = Append(inbox, [kind |-> "update", gen |-> gen,
                                           row |-> tail.out[i]])
                /\ tail'.out = RemoveAt(tail.out, i)
    BY <1>0, <1>5, SendEffect
  <2>2. CASE tail'.out = tail.out /\ inbox' = inbox
    BY <2>1, <2>2 DEF PastInv, PastMessage, Past, Live
  <2>3. CASE \E i \in DOMAIN tail.out :
                /\ inbox' = Append(inbox, [kind |-> "update", gen |-> gen,
                                           row |-> tail.out[i]])
                /\ tail'.out = RemoveAt(tail.out, i)
    <3>1. PICK i \in DOMAIN tail.out :
                /\ inbox' = Append(inbox, [kind |-> "update", gen |-> gen,
                                           row |-> tail.out[i]])
                /\ tail'.out = RemoveAt(tail.out, i)
      BY <2>3
    <3>2. PICK m : /\ inbox' = Append(inbox, m) /\ m.kind = "update" /\ m.row = tail.out[i]
      BY <3>1
    <3>3. PastMessage(m)
      BY <3>2 DEF PastMessage, PastInv
    <3>4. ToSet(inbox') = ToSet(inbox) \cup {m}
      BY <1>0, <3>2, MailStays
    <3>5. \A x \in ToSet(inbox') : PastMessage(x)
      BY <3>3, <3>4 DEF PastInv
    <3>6. \A j \in DOMAIN tail'.out : \E k \in DOMAIN tail.out : tail'.out[j] = tail.out[k]
      <4>1. tail.out \in Seq(Runs \X Row) /\ i \in DOMAIN tail.out
        BY <1>0, <3>1
      <4>2. \A j \in DOMAIN RemoveAt(tail.out, i) :
                \E k \in DOMAIN tail.out : RemoveAt(tail.out, i)[j] = tail.out[k]
        BY <4>1, RemoveLeaves, Zenon
      <4>3. QED
        BY <3>1, <4>2
    <3>7. \A j \in DOMAIN tail'.out : Past(tail'.out[j][2], tail'.out[j][1])
      BY <3>6 DEF PastInv
    <3>8. QED
      BY <2>1, <3>5, <3>7 DEF PastInv, PastMessage, Past, Live
  <2>4. QED
    BY <2>1, <2>2, <2>3
<1>6. CASE Calls
  <2>1. /\ UNCHANGED <<store, late, app>>
        /\ \A r \in DOMAIN strips'.got :
             \/ r \in DOMAIN strips.got /\ strips'.got[r] = strips.got[r]
             \/ r \in Runs /\ Live(r) /\ strips'.got[r] = store[r]
        /\ \/ inbox' = inbox
           \/ \E m : /\ inbox' = Append(inbox, m) /\ m.kind = "list" /\ m.rows \in {None, Rows}
           \/ \E m : /\ inbox' = Append(inbox, m) /\ m.kind \in {"live", "ended", "agents"}
           \/ \E m : /\ inbox' = Append(inbox, m) /\ m.kind = "strips" /\ m.rows = strips.got
    BY <1>6, CallSources
  <2>2. tail'.out = tail.out \/ tail'.out = << >>
    BY <1>6, OffEffect, OtherEffect DEF Calls, OtherCalls
  <2>3. \A j \in DOMAIN tail'.out : Past(tail'.out[j][2], tail'.out[j][1])
    BY <2>2 DEF PastInv
  <2>4. \A r \in DOMAIN strips'.got : Past(strips'.got[r], r)
    BY <1>b, <2>1 DEF PastInv
  <2>5. \A x \in ToSet(inbox') : PastMessage(x)
    <3>1. ASSUME NEW m, inbox' = Append(inbox, m), PastMessage(m)
          PROVE  \A x \in ToSet(inbox') : PastMessage(x)
      BY <1>0, <3>1, MailStays DEF PastInv
    <3>2. \A r \in DOMAIN Rows : Past(Rows[r], r)
      BY <1>0, <1>b, Reading
    <3>3. \A m : m.kind = "list" /\ m.rows \in {None, Rows} => PastMessage(m)
      BY <3>2, NothingYet DEF PastMessage
    <3>4. \A m : m.kind = "strips" /\ m.rows = strips.got => PastMessage(m)
      BY DEF PastMessage, PastInv
    <3>5. \A m : m.kind \in {"live", "ended", "agents"} => PastMessage(m)
      BY DEF PastMessage
    <3>6. CASE inbox' = inbox
      BY <3>6 DEF PastInv
    <3>7. QED
      BY <2>1, <3>1, <3>3, <3>4, <3>5, <3>6
  <2>6. QED
    BY <2>1, <2>3, <2>4, <2>5 DEF PastInv, PastMessage, Past, Live
<1>7. CASE OnLoaded
  <2>1. PICK m : m = Head(inbox)
    OBVIOUS
  <2>2. /\ UNCHANGED <<store, late, tail>> /\ ToSet(inbox') \subseteq ToSet(inbox)
        /\ m \in ToSet(inbox)
    BY <1>7, <2>1, LoopEffect, MailLeaves DEF server
  <2>3. PastMessage(m)
    BY <2>2 DEF PastInv
  <2>4. \A r \in DOMAIN app'.rows : Past(app'.rows[r], r)
    <3>1. \A r \in DOMAIN app'.rows :
            \/ r \in DOMAIN app.rows /\ app'.rows[r] = app.rows[r]
            \/ m.kind = "list" /\ r \in DOMAIN m.rows /\ app'.rows[r] = m.rows[r]
            \/ m.kind = "update" /\ m.row[1] = r /\ app'.rows[r] = m.row[2]
      BY <1>7, <2>1, LoopSources
    <3>2. QED
      BY <2>3, <3>1 DEF PastInv, PastMessage
  <2>5. \A r \in DOMAIN app'.strips : Past(app'.strips[r].of, r)
    <3>1. \A r \in DOMAIN app'.strips :
            \/ r \in DOMAIN app.strips /\ app'.strips[r] = app.strips[r]
            \/ m.kind = "strips" /\ r \in DOMAIN m.rows /\ app'.strips[r].of = m.rows[r]
      BY <1>7, <2>1, LoopSources
    <3>2. QED
      BY <2>3, <3>1 DEF PastInv, PastMessage
  <2>6. \A r \in DOMAIN strips'.got : Past(strips'.got[r], r)
    <3>1. strips' = strips \/ strips' = Idle \/ strips'.got = None
      BY <1>7, <2>1, LoopSources
    <3>2. QED
      BY <3>1, NothingYet DEF PastInv, Idle
  <2>7. \A x \in ToSet(inbox') : PastMessage(x)
    BY <2>2 DEF PastInv
  <2>8. QED
    BY <2>2, <2>4, <2>5, <2>6, <2>7 DEF PastInv, PastMessage, Past, Live
<1>8. CASE Reload
  <2>1. /\ UNCHANGED <<store, late, inbox, strips>> /\ tail'.out = << >>
        /\ app' = [app EXCEPT !.load = "Loading"]
    BY <1>8, OffEffect DEF Reload
  <2>2. app'.rows = app.rows /\ app'.strips = app.strips
    BY <1>0, <2>1 DEF AppOK
  <2>3. QED
    BY <2>1, <2>2 DEF PastInv, PastMessage, Past, Live
<1>9. CASE UNCHANGED vars
  BY <1>9 DEF PastInv, PastMessage, Past, Live, vars, server
<1>10. QED
  BY <1>1, <1>3, <1>4, <1>5, <1>6, <1>7, <1>8, <1>9 DEF Next, RosterTail

\* While a batch waits in the channel none is in flight, and it is the only one.
LEMMA LoopBatch ==
    ASSUME TypeOK, BatchInv, OnLoaded
    PROVE  /\ Head(inbox).kind = "strips" \/ ~strips.busy =>
                  \A k \in DOMAIN inbox' : inbox'[k].kind # "strips"
           /\ \A k \in DOMAIN inbox' : inbox'[k].kind = "strips" =>
                  /\ strips.busy /\ strips.gen = 0
                  /\ \A j \in DOMAIN inbox' : inbox'[j].kind = "strips" => j = k
<1>0. MailOK /\ inbox # << >> /\ inbox' = Tail(inbox)
  BY TypeParts, LoopEffect
<1>1. PICK n \in Nat \ {0} : /\ DOMAIN inbox = 1..n /\ DOMAIN inbox' = 1..n - 1
                             /\ \A i \in 1..n - 1 : inbox'[i] = inbox[i + 1]
                             /\ Head(inbox) = inbox[1]
  <2>1. /\ Len(inbox) \in Nat \ {0} /\ DOMAIN inbox = 1..Len(inbox) /\ Head(inbox) = inbox[1]
        /\ DOMAIN Tail(inbox) = 1..Len(inbox) - 1
        /\ \A i \in 1..Len(inbox) - 1 : Tail(inbox)[i] = inbox[i + 1]
    BY <1>0, TailItems DEF MailOK
  <2>2. QED
    BY <1>0, <2>1
<1>2. \A k \in 1..n - 1 : k + 1 \in 1..n /\ k + 1 # 1 /\ 1 \in 1..n
  BY <1>1
<1>3. ASSUME NEW k \in 1..n, inbox[k].kind = "strips"
      PROVE  /\ strips.busy /\ strips.gen = 0
             /\ \A j \in 1..n : inbox[j].kind = "strips" => j = k
  BY <1>1, <1>3, Zenon DEF BatchInv
<1>4. ASSUME NEW k \in 1..n - 1, inbox'[k].kind = "strips"
      PROVE  /\ strips.busy /\ strips.gen = 0 /\ inbox[1].kind # "strips"
             /\ \A j \in 1..n - 1 : inbox'[j].kind = "strips" => j = k
  <2>1. inbox[k + 1].kind = "strips"
    BY <1>1, <1>4
  <2>2. strips.busy /\ strips.gen = 0
    BY <1>2, <1>3, <2>1, Zenon
  <2>3. \A j \in 1..n : inbox[j].kind = "strips" => j = k + 1
    BY <1>2, <1>3, <2>1
  <2>4. inbox[1].kind # "strips"
    BY <1>2, <2>3
  <2>5. ASSUME NEW j \in 1..n - 1, inbox'[j].kind = "strips" PROVE j = k
    <3>1. inbox[j + 1].kind = "strips" /\ j + 1 \in 1..n
      BY <1>1, <1>2, <2>5
    <3>2. QED
      BY <2>3, <3>1
  <2>6. QED
    BY <2>2, <2>4, <2>5, Zenon
<1>5. QED
  BY <1>1, <1>4, Zenon

LEMMA BatchStep == TypeOK /\ BatchInv /\ [Next]_vars => BatchInv'
<1> SUFFICES ASSUME TypeOK, BatchInv, [Next]_vars PROVE BatchInv'
  OBVIOUS
<1>0. MailOK /\ TailOK(tail) /\ FlightOK(strips) /\ AppOK(app)
  BY TypeParts
<1>1. CASE inbox' = inbox /\ strips' = strips
  BY <1>1, Zenon DEF BatchInv
<1>2. ASSUME NEW m, inbox' = Append(inbox, m)
      PROVE  \E n \in Nat : /\ DOMAIN inbox = 1..n /\ DOMAIN inbox' = 1..n + 1
                            /\ \A i \in 1..n : inbox'[i] = inbox[i]
                            /\ inbox'[n + 1] = m
                            /\ \A i \in 1..n + 1 : i \in 1..n \/ i = n + 1
  <2>1. /\ Len(inbox) \in Nat /\ DOMAIN inbox = 1..Len(inbox)
        /\ DOMAIN Append(inbox, m) = 1..Len(inbox) + 1
        /\ \A i \in 1..Len(inbox) : Append(inbox, m)[i] = inbox[i]
        /\ Append(inbox, m)[Len(inbox) + 1] = m
    BY <1>0, AppendItems DEF MailOK
  <2>2. PICK n \in Nat : n = Len(inbox)
    BY <2>1
  <2>3. \A i \in 1..n + 1 : i \in 1..n \/ i = n + 1
    OBVIOUS
  <2>4. QED
    BY <1>2, <2>1, <2>2, <2>3
<1>3. ASSUME NEW m, m.kind # "strips", inbox' = Append(inbox, m),
             strips'.busy = strips.busy, strips'.gen = strips.gen
      PROVE  BatchInv'
  <2>1. PICK n \in Nat : /\ DOMAIN inbox = 1..n /\ DOMAIN inbox' = 1..n + 1
                         /\ \A i \in 1..n : inbox'[i] = inbox[i]
                         /\ inbox'[n + 1] = m
                         /\ \A i \in 1..n + 1 : i \in 1..n \/ i = n + 1
    BY <1>2, <1>3
  <2>2. \A k \in 1..n + 1 : inbox'[k].kind = "strips" => k \in 1..n /\ inbox[k].kind = "strips"
    BY <1>3, <2>1
  <2>3. \A k \in 1..n : inbox[k].kind = "strips" =>
            /\ strips.busy /\ strips.gen = 0
            /\ \A j \in 1..n : inbox[j].kind = "strips" => j = k
    BY <2>1, Zenon DEF BatchInv
  <2>4. \A k \in 1..n + 1 : inbox'[k].kind = "strips" =>
            /\ strips'.busy /\ strips'.gen = 0
            /\ \A j \in 1..n + 1 : inbox'[j].kind = "strips" => j = k
    BY <1>3, <2>2, <2>3, Zenon
  <2>5. QED
    BY <2>1, <2>4, Zenon DEF BatchInv
<1>4. CASE Ledger \/ ReadFingerprints \/ (\E r \in Runs : Rollup(r)) \/ Reload \/ UNCHANGED vars
  <2>1. inbox' = inbox /\ strips' = strips
    BY <1>4 DEF Ledger, InsertEvent, DeleteAgent, ReadFingerprints, Rollup, Reload, vars
  <2>2. QED
    BY <1>1, <2>1
<1>5. CASE Send
  <2>1. /\ strips' = strips
        /\ \/ inbox' = inbox
           \/ \E i \in DOMAIN tail.out :
                inbox' = Append(inbox, [kind |-> "update", gen |-> gen, row |-> tail.out[i]])
    BY <1>0, <1>5, SendEffect
  <2>2. CASE \E m : m.kind = "update" /\ inbox' = Append(inbox, m)
    BY <1>3, <2>1, <2>2
  <2>3. QED
    BY <1>1, <2>1, <2>2
<1>6. CASE Calls
  <2>1. /\ strips'.busy = strips.busy
        /\ \/ inbox' = inbox /\ strips'.gen = strips.gen
           \/ \E m : /\ inbox' = Append(inbox, m) /\ strips'.gen = strips.gen
                     /\ m.kind # "strips"
           \/ \E m : /\ inbox' = Append(inbox, m) /\ m.kind = "strips" /\ strips.busy
                     /\ strips.gen > 0 /\ strips'.gen = 0
    <3>1. /\ strips'.busy = strips.busy
          /\ \/ inbox' = inbox /\ strips'.gen = strips.gen
             \/ \E m : /\ inbox' = Append(inbox, m) /\ strips'.gen = strips.gen
                       /\ m.kind = "list" /\ m.rows \in {None, Rows}
             \/ \E m : /\ inbox' = Append(inbox, m) /\ strips'.gen = strips.gen
                       /\ m.kind \in {"live", "ended", "agents"}
             \/ \E m : /\ inbox' = Append(inbox, m) /\ m.kind = "strips" /\ strips.busy
                       /\ m.rows = strips.got /\ strips.gen > 0 /\ strips'.gen = 0
      BY <1>6, CallSources
    <3>2. \A m : m.kind = "list" \/ m.kind \in {"live", "ended", "agents"} => m.kind # "strips"
      OBVIOUS
    <3>3. QED
      BY <3>1, <3>2, Zenon
  <2>2. CASE inbox' = inbox /\ strips'.gen = strips.gen
    BY <2>1, <2>2, Zenon DEF BatchInv
  <2>3. CASE \E m : /\ inbox' = Append(inbox, m) /\ strips'.gen = strips.gen
                    /\ m.kind # "strips"
    BY <1>3, <2>1, <2>3, Zenon
  <2>4. CASE \E m : /\ inbox' = Append(inbox, m) /\ m.kind = "strips" /\ strips.busy
                    /\ strips.gen > 0 /\ strips'.gen = 0
    <3>1. PICK m : /\ inbox' = Append(inbox, m) /\ m.kind = "strips" /\ strips.busy
                   /\ strips.gen > 0 /\ strips'.gen = 0
      BY <2>4, Zenon
    <3>2. PICK n \in Nat : /\ DOMAIN inbox = 1..n /\ DOMAIN inbox' = 1..n + 1
                           /\ \A i \in 1..n : inbox'[i] = inbox[i]
                           /\ inbox'[n + 1] = m
                           /\ \A i \in 1..n + 1 : i \in 1..n \/ i = n + 1
      BY <1>2, <3>1
    <3>3. \A k \in 1..n : inbox[k].kind # "strips"
      <4>1. ~(strips.gen = 0)
        BY <1>0, <3>1 DEF FlightOK
      <4>2. QED
        BY <3>2, <4>1, Zenon DEF BatchInv
    <3>4. \A k \in 1..n + 1 : inbox'[k].kind = "strips" => k = n + 1
      BY <3>2, <3>3
    <3>5. QED
      BY <2>1, <3>1, <3>2, <3>4, Zenon DEF BatchInv
  <2>5. QED
    BY <2>1, <2>2, <2>3, <2>4, Zenon
<1>7. CASE OnLoaded
  <2>1. \/ strips' = strips
        \/ Head(inbox).kind = "strips" \/ ~strips.busy
    BY <1>7, LoopSources, Zenon
  <2>2. /\ Head(inbox).kind = "strips" \/ ~strips.busy =>
                  \A k \in DOMAIN inbox' : inbox'[k].kind # "strips"
        /\ \A k \in DOMAIN inbox' : inbox'[k].kind = "strips" =>
                  /\ strips.busy /\ strips.gen = 0
                  /\ \A j \in DOMAIN inbox' : inbox'[j].kind = "strips" => j = k
    BY <1>7, LoopBatch
  <2>3. QED
    BY <2>1, <2>2, Zenon DEF BatchInv
<1>8. QED
  BY <1>4, <1>5, <1>6, <1>7 DEF Next, RosterTail

LEMMA OrderStep == TypeOK /\ StripsInv /\ PastInv' /\ [Next]_vars => OrderInv'
<1> SUFFICES ASSUME TypeOK, StripsInv, PastInv', [Next]_vars PROVE OrderInv'
  OBVIOUS
<1>0. /\ ServerOK /\ MailOK /\ TailOK(tail) /\ FlightOK(strips) /\ AppOK(app)
      /\ OrderInv /\ BatchInv
  BY TypeParts DEF StripsInv
<1>a. \A r \in DOMAIN app.pending : r \in Runs /\ app.pending[r] \in Mark
  BY <1>0, PartialMaps DEF AppOK
<1>1. CASE Ledger
  <2>1. UNCHANGED <<inbox, strips, app>>
    BY <1>0, <1>1, LedgerRow
  <2>2. \A r \in Runs : store'[r].last >= store[r].last /\ store'[r].last \in Nat
    <3>1. \A r \in Runs : store[r].last \in Nat
      BY <1>0 DEF ServerOK, Row
    <3>2. \A r \in Runs : \/ store'[r].last = store[r].last
                          \/ store'[r].last = store[r].last + 1
      BY <1>0, <1>1, LedgerRow
    <3>3. QED
      BY <3>1, <3>2
  <2>3. \A r \in DOMAIN app.pending : app.pending[r][2] <= store'[r].last
    <3>1. SUFFICES ASSUME NEW r \in DOMAIN app.pending
                   PROVE  app.pending[r][2] <= store'[r].last
      OBVIOUS
    <3>2. app.pending[r][2] \in Nat /\ r \in Runs /\ store[r].last \in Nat
      BY <1>0, <1>a DEF Mark, ServerOK, Row
    <3>3. app.pending[r][2] <= store[r].last
      BY <1>0 DEF OrderInv
    <3>4. QED
      BY <2>2, <3>2, <3>3
  <2>4. QED
    BY <1>0, <2>1, <2>3 DEF OrderInv, NotBefore
<1>2. CASE RosterTail \/ UNCHANGED vars
  <2>1. /\ UNCHANGED <<store, strips, app>>
        /\ inbox' = inbox \/ \E m : m.kind = "update" /\ inbox' = Append(inbox, m)
    <3>1. CASE Send
      BY <1>0, <3>1, SendEffect
    <3>2. QED
      BY <1>2, <3>1 DEF RosterTail, ReadFingerprints, Rollup, vars, server
  <2>2. \A x \in ToSet(inbox') : x.kind = "strips" => x \in ToSet(inbox)
    BY <1>0, <2>1, MailStays
  <2>3. QED
    BY <1>0, <2>1, <2>2 DEF OrderInv, NotBefore
<1>3. CASE Calls
  <2>1. /\ UNCHANGED <<store, app>>
        /\ \A r \in DOMAIN strips'.got :
             \/ r \in DOMAIN strips.got /\ strips'.got[r] = strips.got[r]
             \/ r \in Runs /\ strips'.got[r] = store[r]
    BY <1>3, CallSources
  <2>2. \/ inbox' = inbox
        \/ \E m : inbox' = Append(inbox, m) /\ (m.kind = "strips" => m.rows = strips.got)
    <3>1. \/ inbox' = inbox
          \/ \E m : inbox' = Append(inbox, m) /\ m.kind = "list"
          \/ \E m : inbox' = Append(inbox, m) /\ m.kind \in {"live", "ended", "agents"}
          \/ \E m : inbox' = Append(inbox, m) /\ m.kind = "strips" /\ m.rows = strips.got
      BY <1>3, CallSources
    <3>2. \A m : m.kind = "list" \/ m.kind \in {"live", "ended", "agents"} => m.kind # "strips"
      OBVIOUS
    <3>3. QED
      BY <3>1, <3>2, Zenon
  <2>3. NotBefore(strips'.got)
    BY <1>0, <2>1 DEF OrderInv, NotBefore
  <2>4. \A x \in ToSet(inbox') : x.kind = "strips" => NotBefore(x.rows)
    BY <1>0, <2>2, MailStays DEF OrderInv
  <2>5. QED
    BY <1>0, <2>1, <2>3, <2>4 DEF OrderInv, NotBefore
<1>4. CASE OnLoaded
  <2>1. PICK m : m = Head(inbox)
    OBVIOUS
  <2>2. /\ UNCHANGED <<store, late, tail>> /\ ToSet(inbox') \subseteq ToSet(inbox)
        /\ m \in ToSet(inbox) /\ MailOK' /\ AppOK(app')
    BY <1>4, <2>1, LoopEffect, MailLeaves, LoopType DEF server
  <2>3. \A r \in DOMAIN app'.strips : app'.strips[r].revision[2] <= app'.strips[r].of.last
    <3>1. \A r \in DOMAIN app'.strips :
            \/ r \in DOMAIN app.strips /\ app'.strips[r] = app.strips[r]
            \/ /\ m.kind = "strips" /\ r \in DOMAIN m.rows \cap DOMAIN app.pending
               /\ app'.strips[r].revision = app.pending[r]
               /\ app'.strips[r].of = m.rows[r]
      BY <1>4, <2>1, LoopSources
    <3>2. m.kind = "strips" => NotBefore(m.rows)
      BY <1>0, <2>2 DEF OrderInv
    <3>3. QED
      BY <1>0, <3>1, <3>2 DEF OrderInv, NotBefore
  <2>4. CASE app'.pending = app.pending /\ (strips' = strips \/ strips' = Idle)
    <3>1. NotBefore(strips'.got)
      BY <1>0, <2>4, NothingYet DEF OrderInv, NotBefore, Idle
    <3>2. \A x \in ToSet(inbox') : x.kind = "strips" => NotBefore(x.rows)
      BY <1>0, <2>2 DEF OrderInv
    <3>3. QED
      BY <1>0, <2>2, <2>3, <2>4, <3>1, <3>2 DEF OrderInv, NotBefore
  <2>5. CASE /\ m.kind = "strips" \/ ~strips.busy
             /\ strips'.got = None /\ DOMAIN app'.pending \subseteq DOMAIN app'.rows
             /\ \A r \in DOMAIN app'.pending : app'.pending[r] = Revision(app'.rows[r])
    <3>1. \A k \in DOMAIN inbox' : inbox'[k].kind # "strips"
      BY <1>0, <1>4, <2>1, <2>5, LoopBatch, Zenon
    <3>2. \A x \in ToSet(inbox') : x.kind # "strips"
      BY <3>1 DEF ToSet
    <3>3. \A r \in DOMAIN app'.pending : app'.pending[r][2] <= store[r].last
      <4>1. \A r \in DOMAIN app'.rows : app'.rows[r].last <= store[r].last
        BY <2>2 DEF PastInv, Past
      <4>2. QED
        BY <2>5, <4>1 DEF Revision
    <3>4. DOMAIN strips'.got = {}
      BY <2>5, NothingYet
    <3>5. QED
      BY <2>2, <2>3, <3>2, <3>3, <3>4 DEF OrderInv, NotBefore
  <2>6. QED
    BY <1>4, <2>1, <2>4, <2>5, LoopSources, Zenon
<1>5. CASE Reload
  <2>1. UNCHANGED <<store, inbox, strips>> /\ app' = [app EXCEPT !.load = "Loading"]
    BY <1>5 DEF Reload, server
  <2>2. app'.pending = app.pending /\ app'.strips = app.strips
    BY <1>0, <2>1 DEF AppOK
  <2>3. QED
    BY <1>0, <2>1, <2>2 DEF OrderInv, NotBefore
<1>6. QED
  BY <1>1, <1>2, <1>3, <1>4, <1>5 DEF Next

LEMMA StripsInit == Init => StripsInv
<1> SUFFICES ASSUME Init PROVE StripsInv
  OBVIOUS
<1>1. /\ tail.out = << >> /\ inbox = << >> /\ DOMAIN strips.got = {}
      /\ DOMAIN app.rows = {} /\ DOMAIN app.strips = {} /\ DOMAIN app.pending = {}
  BY NothingYet DEF Init, TailOff, Idle
<1>2. DOMAIN inbox = {} /\ ToSet(inbox) = {} /\ DOMAIN tail.out = {}
  BY <1>1 DEF ToSet
<1>3. PastInv
  BY <1>1, <1>2 DEF PastInv
<1>4. OrderInv
  BY <1>1, <1>2 DEF OrderInv, NotBefore
<1>5. BatchInv
  BY <1>2 DEF BatchInv
<1>6. QED
  BY <1>3, <1>4, <1>5 DEF StripsInv

LEMMA StripsIsEnough == TypeOK /\ StripsInv => StripsAreCurrent
<1> SUFFICES ASSUME TypeOK, StripsInv, NEW r \in DOMAIN app.strips \cap DOMAIN app.rows,
                    app.rows[r] = store[r], r \notin late,
                    app.strips[r].revision = Revision(app.rows[r])
             PROVE  app.strips[r].of = store[r]
  BY DEF StripsAreCurrent
<1>1. /\ r \in Runs /\ app.strips[r].of \in Row /\ store[r] \in Row
  BY TypeParts, PartialMaps DEF AppOK, Partial, ServerOK
<1>2. Past(app.strips[r].of, r) /\ Past(app.rows[r], r)
  BY DEF StripsInv, PastInv
<1>3. app.strips[r].revision[2] <= app.strips[r].of.last
  BY DEF StripsInv, OrderInv
<1>4. store[r].last <= app.strips[r].of.last
  BY <1>3 DEF Revision
<1>5. app.strips[r].of.last = store[r].last
  BY <1>1, <1>2, <1>4 DEF Past, Row
<1>6. Live(r)
  BY <1>2 DEF Past, Live
<1>7. QED
  BY <1>2, <1>5, <1>6 DEF Past

\* A strip that the screen takes for current was built from the rows the run has,
\* unless a row came in with an earlier stamp: it is stamped with the revision
\* that asked for it, and built no earlier (state.rs 414-448):
\* Feed!StripsAreCurrent.
THEOREM StripsAreCurrentHolds == Spec => []StripsAreCurrent
<1>1. TypeOK /\ StripsInv /\ [Next]_vars => TypeOK' /\ StripsInv'
  <2>1. StripsInv' <=> PastInv' /\ OrderInv' /\ BatchInv'
    BY DEF StripsInv
  <2>2. QED
    BY <2>1, TypeStep, PastStep, OrderStep, BatchStep DEF StripsInv
<1>2. QED
  BY <1>1, TypeInit, StripsInit, StripsIsEnough, PTL DEF Spec
=============================================================================
