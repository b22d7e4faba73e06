-------------------------- MODULE HookRunnerProofs --------------------------
(***************************************************************************)
(* Proofs about HookRunner, for any adapter that keeps AdapterAssumption   *)
(* and GatingAssumption, and for any budget, timeout and start-up time;    *)
(* and, for the adapters of MCHooks, that a result is judged as the result *)
(* of the action that was let through.                                     *)
(***************************************************************************)
EXTENDS MCHooks, SequenceTheorems, TLAPS

USE TimesAssumption

\* A handler has heard nothing before it runs, and waits only for what it sent.
HandlerInv ==
    /\ phase \in {"reading", "connecting"} => heard = << >>
    /\ phase = "waiting" => Step.do = "send" /\ rpc.state # "none"

\* A response, once there is one, makes up for what went wrong.
RefusalInv ==
    phase \in {"resolved", "exited"} => Enforced(input, Failures, response)

\* In the run loop the budget's timer comes before any later time.
TimeInv == InRunLoop(input) => clock <= Deadline

\* While no call has failed, the ledger holds the decisions the handler heard,
\* and the one that is on its way; a gate that lets pass waits for none.
LedgerInv ==
    /\ HookErrors \cap Said(heard) = {} =>
        /\ phase \in {"reading", "connecting", "handling"} =>
               Decided = Said(heard) /\ rpc.state # "sent"
        /\ phase = "waiting" =>
               Decided = Said(heard) \cup ({rpc.state} \cap Decisions)
    /\ /\ phase \in {"resolved", "exited"}
       /\ Gating(input)
       /\ ~Refused(input, response)
       => /\ rpc.state # "sent"
          /\ IF Asked(input, response)
             THEN "Escalate" \in Decided /\ "Deny" \notin Decided
             ELSE Decided = {"Allow"}

-----------------------------------------------------------------------------
LEMMA HeardIsSequence ==
    ASSUME NEW in \in Requests, NEW got \in HeardBy(in)
    PROVE  /\ got \in Seq(Answers)
           /\ Len(got) \in 0..MostCalls(in)
<1>1. PICK n \in 0..MostCalls(in) : got \in [1..n -> Answers]
  BY DEF HeardBy
<1>2. n \in Nat
  BY <1>1, AdapterAssumption
<1>3. QED
  BY <1>1, <1>2

LEMMA NothingHeard ==
    ASSUME NEW in \in Requests
    PROVE  << >> \in HeardBy(in) /\ Said(<< >>) = {}
<1>1. MostCalls(in) \in Nat
  BY AdapterAssumption
<1>2. << >> \in [1..0 -> Answers]
  OBVIOUS
<1>3. << >> \in UNION {[1..n -> Answers] : n \in 0..MostCalls(in)}
  BY <1>1, <1>2
<1>4. QED
  BY <1>3 DEF HeardBy, Said

LEMMA SaidByAppend ==
    ASSUME NEW got \in Seq(Answers), NEW a \in Answers
    PROVE  Said(Append(got, a)) = Said(got) \cup {a}
<1>1. DOMAIN Append(got, a) = 1..Len(got) + 1 /\ DOMAIN got = 1..Len(got)
  BY AppendProperties, LenProperties
<1>2. Append(got, a)[Len(got) + 1] = a
  OBVIOUS
<1>3. \A i \in 1..Len(got) : Append(got, a)[i] = got[i]
  OBVIOUS
<1>4. Len(got) \in Nat
  OBVIOUS
<1>5. QED
  BY <1>1, <1>2, <1>3, <1>4 DEF Said

\* A handler that sent an event can hear any answer.
LEMMA HearsOneMore ==
    ASSUME NEW in \in Requests, NEW got \in HeardBy(in), NEW a \in Answers,
           Handler(in, got).do = "send"
    PROVE  Append(got, a) \in HeardBy(in)
<1> DEFINE more == Append(got, a)
<1>1. got \in Seq(Answers) /\ Len(got) \in 0..MostCalls(in) /\ MostCalls(in) \in Nat
  BY HeardIsSequence, AdapterAssumption
<1>2. Len(got) < MostCalls(in)
  BY AdapterAssumption
<1>3. more \in Seq(Answers) /\ Len(more) = Len(got) + 1
  BY <1>1, AppendProperties
<1>4. more \in [1..Len(got) + 1 -> Answers]
  BY <1>3, LenProperties
<1>5. more \in UNION {[1..n -> Answers] : n \in 0..MostCalls(in)}
  BY <1>1, <1>2, <1>4
<1>6. ASSUME NEW k \in 0..Len(got)
      PROVE  Handler(in, SubSeq(more, 1, k)).do = "send"
  <2>1. SubSeq(more, 1, k) = SubSeq(got, 1, k)
    <3>1. CASE k = 0
      BY <3>1, SubSeqEmpty
    <3>2. CASE k # 0
      <4>1. k \in 1..Len(got) /\ 1 \in 1..Len(got)
        BY <1>1, <3>2
      <4>2. more = got \o <<a>> /\ <<a>> \in Seq(Answers)
        BY <1>1, AppendIsConcat
      <4>3. QED
        BY <1>1, <4>1, <4>2, SubSeqOfConcat1
    <3>3. QED
      BY <3>1, <3>2
  <2>2. CASE k = Len(got)
    BY <1>1, <2>1, <2>2, SubSeqFull
  <2>3. CASE k # Len(got)
    <3>1. k \in 0..Len(got) - 1
      BY <1>1, <2>3
    <3>2. QED
      BY <2>1, <3>1 DEF HeardBy
  <2>4. QED
    BY <2>2, <2>3
<1>7. QED
  BY <1>1, <1>3, <1>5, <1>6 DEF HeardBy

-----------------------------------------------------------------------------
RunInv == TypeOK /\ HandlerInv

\* An answer, whichever it is, is heard in the place of what was sent.
LEMMA ReceiveTypes ==
    ASSUME RunInv, NEW a \in Answers, Receive(a)
    PROVE  RunInv'
<1> USE DEF RunInv, TypeOK, HandlerInv, Receive, Busy, Ended
<1>1. Handler(input, heard).do = "send"
  BY DEF Step
<1>2. heard' \in HeardBy(input')
  BY <1>1, HearsOneMore
<1>3. QED
  BY <1>2

LEMMA Types ==
    /\ Init => RunInv
    /\ RunInv /\ [Next]_vars => RunInv'
<1> USE DEF RunInv, TypeOK, HandlerInv
<1>1. Init => RunInv
  <2> SUFFICES ASSUME Init PROVE RunInv
    OBVIOUS
  <2>1. heard \in HeardBy(input)
    BY NothingHeard DEF Init
  <2>2. ledger \in Seq([event : Events, decision : Decisions])
    BY EmptySeq, Zenon DEF Init
  <2>3. rpc \in [event : Events \cup {Control("none")},
                 state : Decisions \cup {"none", "sent"}]
    BY DEF Init
  <2>4. QED
    BY <2>1, <2>2, <2>3 DEF Init, Busy
<1>2. RunInv /\ [Next]_vars => RunInv'
  <2> SUFFICES ASSUME RunInv, [Next]_vars
               PROVE  RunInv'
    OBVIOUS
  <2> USE DEF Busy, Ended, Go, Resolve, HookErrors
  <2>1. ASSUME NEW r, NEW e \in HookErrors \cup {"none"}, Resolve(r, e) PROVE RunInv'
    BY <2>1
  <2>2. CASE ReadEvent \/ Connect \/ ReadDirectlyFails \/ Write \/ WriteFails \/ Kill
    BY <2>2 DEF ReadEvent, Connect, ReadDirectlyFails, Write, WriteFails, Kill
  <2>3. CASE ReadFails \/ AnswerDirectly \/ ConnectFails \/ ParseFails \/ Panics
             \/ Respond \/ BudgetEnds
    BY <2>1, <2>3 DEF ReadFails, AnswerDirectly, ConnectFails, ParseFails, Panics,
        Respond, BudgetEnds
  <2>4. CASE GiveUp
    <3>1. Step.response.value \in HookErrors
      BY <2>4, AdapterAssumption DEF GiveUp, Step
    <3>2. QED
      BY <2>1, <2>4, <3>1 DEF GiveUp
  <2>5. CASE Submit
    <3>1. Step.event \in Events
      BY <2>5, AdapterAssumption DEF Submit, Step
    <3>2. QED
      BY <2>5, <3>1 DEF Submit, Step
  <2>6. CASE HarnessDecides
    <3>1. PICK d \in Decisions :
              /\ rpc' = [rpc EXCEPT !.state = d]
              /\ ledger' = Append(ledger, [event |-> rpc.event, decision |-> d])
      BY <2>6 DEF HarnessDecides
    <3>2. ledger' \in Seq([event : Events, decision : Decisions])
      <4>1. rpc.event \in Events
        BY <2>6 DEF HarnessDecides
      <4>2. [event |-> rpc.event, decision |-> d] \in [event : Events, decision : Decisions]
        BY <4>1
      <4>3. QED
        BY <3>1, <4>2, AppendProperties
    <3>3. QED
      BY <2>6, <3>1, <3>2 DEF HarnessDecides, Step, Decisions
  <2>7. CASE Answer \/ RpcFails \/ RpcTimesOut
    BY <2>7, ReceiveTypes DEF Answer, RpcFails, RpcTimesOut, FromClientError,
        ClientErrors, Answers
  <2>8. CASE Tick
    BY <2>8 DEF Tick, Step
  <2>9. CASE UNCHANGED vars
    BY <2>9 DEF vars, Step
  <2>10. QED
    BY <2>2, <2>3, <2>4, <2>5, <2>6, <2>7, <2>8, <2>9 DEF Next
<1>3. QED
  BY <1>1, <1>2

\* Every variable keeps its type: HookRunner!TypeOK.  Of what a handler hears:
\* it heard one answer to each event it submitted, and nothing else.
THEOREM TypeCorrect == Spec => []TypeOK
<1>1. Spec => []RunInv
  BY Types, PTL DEF Spec
<1>2. RunInv => TypeOK
  BY DEF RunInv
<1>3. QED
  BY <1>1, <1>2, PTL

-----------------------------------------------------------------------------
\* A response to the failure that is its cause.
LEMMA FailureRefuses ==
    ASSUME RunInv, NEW e \in HookErrors,
           \/ Resolve(OnFailure(input, e), e)
           \/ InRunLoop(input) /\ Resolve(OnFailure(Unread(input), e), e)
    PROVE  RefusalInv'
<1>1. e # "none"
  BY DEF HookErrors
<1>2. Failures' = {e} /\ input' = input
  BY <1>1 DEF Resolve, Failures
<1>3. input \in Requests
  BY DEF RunInv, TypeOK
<1>4. Enforced(input, {e}, response')
  BY <1>3, AdapterAssumption DEF Resolve
<1>5. QED
  BY <1>2, <1>4 DEF RefusalInv, Enforced

\* A response of the handler's own.
LEMMA ReplyRefuses ==
    ASSUME RunInv, Step.do = "reply", Resolve(Step.response, "none")
    PROVE  RefusalInv'
<1>1. Failures' = HookErrors \cap Said(heard) /\ input' = input
  BY DEF Resolve, Failures
<1>2. Enforced(input, HookErrors \cap Said(heard), Step.response)
  BY AdapterAssumption DEF RunInv, TypeOK, Step
<1>3. response' = Step.response
  BY DEF Resolve
<1>4. QED
  BY <1>1, <1>2, <1>3 DEF RefusalInv, Enforced

\* HookRunner!FailClosed: whichever timer, error or panic ends the handling of
\* an event, and whatever the handler replies after an error, a hook that must
\* enforce refuses.
THEOREM FailClosedHolds == Spec => []FailClosed
<1>1. Init => RefusalInv
  BY DEF Init, RefusalInv
<1>2. RunInv /\ RefusalInv /\ [Next]_vars => RefusalInv'
  <2> SUFFICES ASSUME RunInv, RefusalInv, [Next]_vars
               PROVE  RefusalInv'
    OBVIOUS
  <2> USE DEF Go
  <2>1. ASSUME NEW next, Go(next), next \notin {"resolved", "exited"}
        PROVE  RefusalInv'
    BY <2>1 DEF RefusalInv
  <2>2. CASE ReadEvent \/ ReadDirectlyFails \/ Connect \/ WriteFails \/ Kill
    BY <2>1, <2>2 DEF ReadEvent, ReadDirectlyFails, Connect, WriteFails, Kill
  <2>3. CASE Write
    BY <2>3 DEF Write, RefusalInv, Failures, Enforced
  <2>4. CASE ReadFails \/ ConnectFails \/ ParseFails \/ Panics
    BY <2>4, FailureRefuses DEF ReadFails, ConnectFails, ParseFails, Panics, HookErrors
  <2>5. CASE BudgetEnds
    BY <2>5, FailureRefuses DEF BudgetEnds, HookErrors
  <2>6. CASE GiveUp
    <3>1. Step.response.value \in HookErrors
      BY <2>6, AdapterAssumption DEF GiveUp, Step, RunInv, TypeOK
    <3>2. QED
      BY <2>6, <3>1, FailureRefuses DEF GiveUp
  <2>7. CASE Respond
    BY <2>7, ReplyRefuses DEF Respond
  <2>8. CASE AnswerDirectly
    <3>1. heard = << >> /\ input \in Requests
      BY <2>8 DEF AnswerDirectly, RunInv, TypeOK, HandlerInv
    <3>2. Failures' = {}
      BY <2>8, <3>1, NothingHeard DEF AnswerDirectly, Resolve, Failures
    <3>3. QED
      BY <3>2 DEF RefusalInv, Enforced
  <2>9. CASE Submit \/ Answer \/ RpcFails \/ RpcTimesOut
    BY <2>9 DEF Submit, Answer, RpcFails, RpcTimesOut, Receive, RefusalInv
  <2>10. CASE HarnessDecides
    BY <2>10 DEF HarnessDecides, RefusalInv, Failures, Enforced
  <2>11. CASE Tick
    BY <2>11 DEF Tick, Busy, RefusalInv
  <2>12. CASE UNCHANGED vars
    BY <2>12 DEF vars, RefusalInv, Failures, Enforced
  <2>13. QED
    BY <2>2, <2>3, <2>4, <2>5, <2>6, <2>7, <2>8, <2>9, <2>10, <2>11, <2>12 DEF Next
<1>3. RefusalInv => FailClosed
  BY DEF RefusalInv, FailClosed
<1>4. QED
  BY <1>1, <1>2, <1>3, Types, PTL DEF Spec

-----------------------------------------------------------------------------
\* A host that outwaits the hook kills no gate.
GateInv == RunInv /\ TimeInv /\ LedgerInv /\ (Gating(input) /\ Patient => phase # "killed")

LEMMA TimeStep ==
    ASSUME RunInv, TimeInv, [Next]_vars
    PROVE  TimeInv'
<1> USE DEF RunInv, TypeOK, TimeInv, Deadline
<1>1. CASE Tick
  BY <1>1 DEF Tick
<1>2. CASE ~Tick
  <2>1. UNCHANGED <<input, clock, began, budget>>
    BY <1>2 DEF Next, vars, Go, Resolve, Receive, ReadEvent, ReadFails, AnswerDirectly,
        ReadDirectlyFails, Connect, ConnectFails, ParseFails, Panics, Submit, Respond,
        GiveUp, HarnessDecides, Answer, RpcFails, RpcTimesOut, BudgetEnds, Write,
        WriteFails, Kill
  <2>2. QED
    BY <2>1
<1>3. QED
  BY <1>1, <1>2

\* The harness decides a call.
LEMMA DecisionRecorded ==
    ASSUME RunInv, NEW d \in Decisions,
           ledger' = Append(ledger, [event |-> rpc.event, decision |-> d])
    PROVE  Decided' = Decided \cup {d}
<1> DEFINE entry == [event |-> rpc.event, decision |-> d]
<1>1. ledger \in Seq([event : Events, decision : Decisions])
  BY DEF RunInv, TypeOK
<1>2. Len(ledger) \in Nat /\ DOMAIN ledger = 1..Len(ledger)
  BY <1>1
<1>3. DOMAIN ledger' = 1..Len(ledger) + 1
  BY <1>1, <1>2
<1>4. ledger'[Len(ledger) + 1] = entry /\ \A i \in 1..Len(ledger) : ledger'[i] = ledger[i]
  BY <1>1, <1>2
<1>5. QED
  BY <1>2, <1>3, <1>4 DEF Decided

\* A gate refuses on the failure that ends it.
LEMMA GateRefusesFailure ==
    ASSUME RunInv, Gating(input), NEW e \in HookErrors,
           Resolve(OnFailure(input, e), e) \/ Resolve(OnFailure(Unread(input), e), e)
    PROVE  Refused(input', response')
<1>1. input \in Requests /\ input' = input
  BY DEF RunInv, TypeOK, Resolve
<1>2. InRunLoop(input) /\ MustRefuse(input, e)
  BY <1>1, GatingAssumption
<1>3. Enforced(input, {e}, response')
  BY <1>1, <1>2, AdapterAssumption DEF Resolve
<1>4. QED
  BY <1>1, <1>2, <1>3 DEF Enforced

\* A gate that lets pass was told so, by everything it asked.
LEMMA GateReplies ==
    ASSUME RunInv, LedgerInv, Gating(input), phase = "handling",
           Step.do = "reply", ~Refused(input, Step.response)
    PROVE  /\ rpc.state # "sent"
           /\ IF Asked(input, Step.response)
              THEN "Escalate" \in Decided /\ "Deny" \notin Decided
              ELSE Decided = {"Allow"}
<1>1. input \in Requests /\ heard \in HeardBy(input)
  BY DEF RunInv, TypeOK
<1>2. HookErrors \cap Said(heard) = {}
  <2>1. Enforced(input, HookErrors \cap Said(heard), Step.response)
    BY <1>1, AdapterAssumption DEF Step
  <2>2. \A e \in HookErrors : MustRefuse(input, e)
    BY <1>1, GatingAssumption
  <2>3. QED
    BY <2>1, <2>2 DEF Enforced
<1>3. Decided = Said(heard) /\ rpc.state # "sent"
  BY <1>2 DEF LedgerInv
<1>4. IF Asked(input, Step.response)
      THEN "Escalate" \in Said(heard) /\ "Deny" \notin Said(heard)
      ELSE Said(heard) = {"Allow"}
  BY <1>1, GatingAssumption DEF Step
<1>5. QED
  BY <1>3, <1>4

\* The actions that end the handling of a gate's event by a refusal.
LEMMA LedgerAtFailure ==
    ASSUME RunInv, NEW e \in HookErrors,
           Resolve(OnFailure(input, e), e) \/ Resolve(OnFailure(Unread(input), e), e)
    PROVE  LedgerInv'
<1>1. phase' = "resolved" /\ input' = input
  BY DEF Resolve
<1>2. Gating(input) => Refused(input', response')
  BY GateRefusesFailure
<1>3. QED
  BY <1>1, <1>2 DEF LedgerInv

LEMMA LedgerStep ==
    ASSUME RunInv, LedgerInv, [Next]_vars
    PROVE  LedgerInv'
<1>1. CASE ReadEvent \/ Connect
  BY <1>1 DEF ReadEvent, Connect, Go, LedgerInv, Decided
<1>2. CASE ReadDirectlyFails \/ WriteFails \/ Kill
  BY <1>2 DEF ReadDirectlyFails, WriteFails, Kill, Go, LedgerInv
<1>3. CASE Write
  BY <1>3 DEF Write, Go, LedgerInv, Decided
<1>4. CASE ReadFails \/ ConnectFails \/ ParseFails \/ Panics \/ BudgetEnds
  BY <1>4, LedgerAtFailure DEF ReadFails, ConnectFails, ParseFails, Panics, BudgetEnds,
      HookErrors
<1>5. CASE GiveUp
  <2>1. Step.response.value \in HookErrors
    BY <1>5, AdapterAssumption DEF GiveUp, Step, RunInv, TypeOK
  <2>2. QED
    BY <1>5, <2>1, LedgerAtFailure DEF GiveUp
<1>6. CASE AnswerDirectly
  <2>1. ~Gating(input)
    BY <1>6, GatingAssumption DEF AnswerDirectly, RunInv, TypeOK
  <2>2. QED
    BY <1>6, <2>1 DEF AnswerDirectly, Resolve, LedgerInv
<1>7. CASE Respond
  <2>1. /\ phase' = "resolved" /\ input' = input /\ rpc' = rpc
        /\ response' = Step.response /\ Decided' = Decided
    BY <1>7 DEF Respond, Resolve, Decided
  <2>2. QED
    BY <1>7, <2>1, GateReplies DEF Respond, LedgerInv
<1>8. CASE Submit
  <2>1. /\ phase = "handling" /\ phase' = "waiting" /\ rpc'.state = "sent"
        /\ heard' = heard /\ Decided' = Decided
    BY <1>8 DEF Submit, Decided
  <2>2. {rpc'.state} \cap Decisions = {}
    BY <2>1 DEF Decisions
  <2>3. QED
    BY <2>1, <2>2 DEF LedgerInv
<1>9. CASE HarnessDecides
  <2>1. PICK d \in Decisions :
            /\ rpc' = [rpc EXCEPT !.state = d]
            /\ ledger' = Append(ledger, [event |-> rpc.event, decision |-> d])
    BY <1>9 DEF HarnessDecides
  <2>2. Decided' = Decided \cup {d}
    BY <2>1, DecisionRecorded
  <2>3. rpc.state = "sent" /\ rpc'.state = d /\ UNCHANGED <<input, phase, heard, response>>
    BY <1>9, <2>1 DEF HarnessDecides, RunInv, TypeOK
  <2>4. {rpc.state} \cap Decisions = {} /\ {rpc'.state} \cap Decisions = {d}
    BY <2>3 DEF Decisions
  <2>5. QED
    BY <2>2, <2>3, <2>4 DEF LedgerInv
<1>10. CASE Answer
  <2>1. /\ phase = "waiting" /\ phase' = "handling" /\ heard' = Append(heard, rpc.state)
        /\ UNCHANGED <<rpc, ledger>> /\ rpc.state \in Decisions
    BY <1>10 DEF Answer, Receive
  <2>2. Said(heard') = Said(heard) \cup {rpc.state}
    BY <2>1, HeardIsSequence, SaidByAppend DEF RunInv, TypeOK, Answers
  <2>3. rpc.state # "sent" /\ Decided' = Decided
    BY <2>1 DEF Decisions, Decided
  <2>4. QED
    BY <2>1, <2>2, <2>3 DEF LedgerInv
<1>11. CASE RpcFails \/ RpcTimesOut
  <2>1. PICK e \in HookErrors : Receive(e)
    BY <1>11 DEF RpcFails, RpcTimesOut, FromClientError, ClientErrors, HookErrors
  <2>2. phase' = "handling" /\ Said(heard') = Said(heard) \cup {e}
    BY <2>1, HeardIsSequence, SaidByAppend DEF Receive, RunInv, TypeOK, Answers
  <2>3. HookErrors \cap Said(heard') # {}
    BY <2>2
  <2>4. QED
    BY <2>2, <2>3 DEF LedgerInv
<1>12. CASE Tick \/ UNCHANGED vars
  BY <1>12 DEF Tick, vars, LedgerInv, Decided
<1>13. QED
  BY <1>1, <1>2, <1>3, <1>4, <1>5, <1>6, <1>7, <1>8, <1>9, <1>10, <1>11, <1>12 DEF Next

\* The times that the host and the hook go by are set when they start.
LEMMA TimesAreSet == [Next]_vars => UNCHANGED <<input, budget, began>> /\ Patient' = Patient
<1> SUFFICES ASSUME [Next]_vars
             PROVE  UNCHANGED <<input, budget, began>> /\ Patient' = Patient
  OBVIOUS
<1>1. UNCHANGED <<input, budget, began>>
  BY DEF Next, vars, Go, Resolve, Receive, ReadEvent, ReadFails, AnswerDirectly,
      ReadDirectlyFails, Connect, ConnectFails, ParseFails, Panics, Submit, Respond,
      GiveUp, HarnessDecides, Answer, RpcFails, RpcTimesOut, BudgetEnds, Write,
      WriteFails, Kill, Tick
<1>2. QED
  BY <1>1 DEF Patient, Deadline

LEMMA GateIsSafe ==
    /\ Init => GateInv
    /\ GateInv /\ [Next]_vars => GateInv'
<1>1. Init => GateInv
  <2> SUFFICES ASSUME Init PROVE GateInv
    OBVIOUS
  <2>1. RunInv
    BY Types
  <2>2. TimeInv
    BY DEF Init, TimeInv, Deadline
  <2>3. LedgerInv
    BY NothingHeard DEF Init, LedgerInv, Decided, RunInv, TypeOK
  <2>4. QED
    BY <2>1, <2>2, <2>3 DEF GateInv, Init
<1>2. GateInv /\ [Next]_vars => GateInv'
  <2> SUFFICES ASSUME GateInv, [Next]_vars
               PROVE  GateInv'
    BY DEF GateInv
  <2>1. RunInv' /\ TimeInv' /\ LedgerInv'
    BY Types, TimeStep, LedgerStep DEF GateInv
  <2>2. CASE Kill
    <3>1. clock >= HostDeadline /\ input' = input /\ input \in Requests
      BY <2>2 DEF Kill, Go, GateInv, RunInv, TypeOK
    <3>2. CASE Gating(input) /\ Patient
      <4>1. InRunLoop(input)
        BY <3>1, <3>2, GatingAssumption
      <4>2. clock <= Deadline /\ Deadline < HostDeadline
        BY <3>2, <4>1 DEF GateInv, TimeInv, Patient
      <4>3. QED
        BY <3>1, <4>2 DEF GateInv, RunInv, TypeOK, Deadline
    <3>3. QED
      BY <2>1, <3>1, <3>2, TimesAreSet DEF GateInv
  <2>3. CASE ~Kill
    <3>1. input' = input /\ (phase' = "killed" => phase = "killed")
      BY <2>3 DEF Next, vars, Go, Resolve, Receive, ReadEvent, ReadFails, AnswerDirectly,
          ReadDirectlyFails, Connect, ConnectFails, ParseFails, Panics, Submit, Respond,
          GiveUp, HarnessDecides, Answer, RpcFails, RpcTimesOut, BudgetEnds, Write,
          WriteFails, Tick
    <3>2. QED
      BY <2>1, <3>1, TimesAreSet DEF GateInv
  <2>4. QED
    BY <2>2, <2>3
<1>3. QED
  BY <1>1, <1>2

-----------------------------------------------------------------------------
\* HookGate's handler of a decision: whether or not the hook still waits.
LEMMA DecidesImplementsRecord ==
    ASSUME GateInv, HarnessDecides
    PROVE  \E d \in Gate!Decisions : Gate!Record(d)
<1>1. PICK d \in Decisions :
          /\ rpc' = [rpc EXCEPT !.state = d]
          /\ ledger' = Append(ledger, [event |-> rpc.event, decision |-> d])
  BY DEF HarnessDecides
<1>2. Decided' = Decided \cup {d}
  BY <1>1, DecisionRecorded DEF GateInv
<1>3. UNCHANGED <<input, Patient, Verdict>>
  BY DEF HarnessDecides, Verdict, Patient, Deadline
<1>4. ~(Gating(input) /\ Verdict = "proceed")
  BY DEF HarnessDecides, Verdict, GateInv, LedgerInv
<1>5. d \in Gate!Decisions
  BY <1>1 DEF Decisions, Gate!Decisions
<1>6. QED
  BY <1>2, <1>3, <1>4, <1>5 DEF Gate!Record

LEMMA WriteImplementsConclude ==
    ASSUME GateInv, Write
    PROVE  \E v \in {"proceed", "refused", "asked"} : Gate!Conclude(v)
<1>1. phase = "resolved" /\ phase' = "exited"
     /\ UNCHANGED <<input, response, ledger, budget, began>>
  BY DEF Write, Go
<1>2. Verdict = "pending" /\ UNCHANGED <<input, Patient, Decided>>
  BY <1>1 DEF Verdict, Decided, Patient, Deadline
<1>3. Verdict' \in {"proceed", "refused", "asked"}
  BY <1>1 DEF Verdict
<1>4. Gating(input) /\ Verdict' = "proceed" => Decided = {"Allow"}
  BY <1>1 DEF Verdict, GateInv, LedgerInv
<1>5. Gating(input) /\ Verdict' = "asked" => "Escalate" \in Decided /\ "Deny" \notin Decided
  BY <1>1 DEF Verdict, GateInv, LedgerInv
<1>6. QED
  BY <1>2, <1>3, <1>4, <1>5 DEF Gate!Conclude

LEMMA KillImplementsAbandon ==
    ASSUME GateInv, GateInv', Kill
    PROVE  Gate!Abandon
<1>1. phase \notin Ended /\ phase' = "killed"
      /\ UNCHANGED <<input, ledger, budget, began>>
  BY DEF Kill, Go
<1>2. Verdict = "pending" /\ Verdict' = "abandoned" /\ UNCHANGED <<input, Patient, Decided>>
  BY <1>1 DEF Verdict, Decided, Ended, Patient, Deadline
<1>3. ~(Gating(input) /\ Patient)
  BY <1>1, <1>2 DEF GateInv
<1>4. QED
  BY <1>2, <1>3 DEF Gate!Abandon

\* HookRunner!GateImplemented: the host goes ahead on what a gate answers only
\* when all that was asked for it was recorded with Allow, and without an answer
\* only if it waits no longer than the hook's start and budget take.
THEOREM GateImplementedHolds == Spec => GateImplemented
<1>1. Init => Gate!Init
  BY DEF Init, Gate!Init, Decided, Verdict, Patient
<1>2. GateInv /\ GateInv' /\ [Next]_vars => [Gate!Next]_Gate!vars
  <2> SUFFICES ASSUME GateInv, GateInv', [Next]_vars
               PROVE  [Gate!Next]_Gate!vars
    OBVIOUS
  <2>1. CASE HarnessDecides
    BY <2>1, DecidesImplementsRecord DEF Gate!Next
  <2>2. CASE Write
    BY <2>2, WriteImplementsConclude DEF Gate!Next
  <2>3. CASE Kill
    BY <2>3, KillImplementsAbandon DEF Gate!Next
  <2>4. CASE ~(HarnessDecides \/ Write \/ Kill)
    <3>1. UNCHANGED <<input, ledger>>
      BY <2>4 DEF Next, vars, Go, Resolve, Receive, ReadEvent, ReadFails, AnswerDirectly,
          ReadDirectlyFails, Connect, ConnectFails, ParseFails, Panics, Submit, Respond,
          GiveUp, Answer, RpcFails, RpcTimesOut, BudgetEnds, WriteFails, Tick
    <3>2. \/ UNCHANGED <<phase, response>>
          \/ {phase, phase'} \cap {"exited", "killed"} = {}
      BY <2>4 DEF Next, vars, Go, Resolve, Receive, ReadEvent, ReadFails, AnswerDirectly,
          ReadDirectlyFails, Connect, ConnectFails, ParseFails, Panics, Submit, Respond,
          GiveUp, Answer, RpcFails, RpcTimesOut, BudgetEnds, WriteFails, Tick, Busy
    <3>3. UNCHANGED Verdict
      BY <3>1, <3>2 DEF Verdict
    <3>4. UNCHANGED Decided
      BY <3>1 DEF Decided
    <3>5. QED
      BY <3>1, <3>3, <3>4, TimesAreSet DEF Gate!vars
  <2>5. QED
    BY <2>1, <2>2, <2>3, <2>4
<1>3. QED
  BY <1>1, <1>2, GateIsSafe, PTL DEF Spec, GateImplemented, Gate!Spec

-----------------------------------------------------------------------------
\* What a handler submits for an input, whatever it is told.
Submits(in) ==
    {Handler(in, got).event : got \in {g \in HeardBy(in) : Handler(in, g).do = "send"}}

\* The call that is on its way and every record the harness made of the hook's
\* calls are of events that its handler submits for this input.
SubmittedInv ==
    /\ rpc.state # "none" => rpc.event \in Submits(input)
    /\ \A i \in DOMAIN ledger : ledger[i].event \in Submits(input)

LEMMA SubmittedStep ==
    ASSUME RunInv, SubmittedInv, [Next]_vars
    PROVE  SubmittedInv'
<1>1. CASE Submit
  <2>1. /\ rpc' = [event |-> Step.event, state |-> "sent"]
        /\ UNCHANGED <<input, ledger>>
    BY <1>1 DEF Submit
  <2>2. Step.event \in Submits(input)
    BY <1>1 DEF Submit, Step, Submits, RunInv, TypeOK
  <2>3. QED
    BY <2>1, <2>2 DEF SubmittedInv
<1>2. CASE HarnessDecides
  <2>1. PICK d \in Decisions :
            /\ rpc' = [rpc EXCEPT !.state = d]
            /\ ledger' = Append(ledger, [event |-> rpc.event, decision |-> d])
    BY <1>2 DEF HarnessDecides
  <2>2. rpc.state = "sent" /\ input' = input /\ rpc'.event = rpc.event
    BY <1>2, <2>1 DEF HarnessDecides, RunInv, TypeOK
  <2>3. rpc.event \in Submits(input)
    BY <2>2 DEF SubmittedInv
  <2>4. ledger \in Seq([event : Events, decision : Decisions])
    BY DEF RunInv, TypeOK
  <2>5. \A i \in DOMAIN ledger' :
            \/ i \in DOMAIN ledger /\ ledger'[i] = ledger[i]
            \/ ledger'[i].event = rpc.event
    BY <2>1, <2>4
  <2>6. QED
    BY <2>2, <2>3, <2>5 DEF SubmittedInv
<1>3. CASE ~(Submit \/ HarnessDecides)
  <2>1. UNCHANGED <<input, rpc, ledger>>
    BY <1>3 DEF Next, vars, Go, Resolve, Receive, ReadEvent, ReadFails, AnswerDirectly,
        ReadDirectlyFails, Connect, ConnectFails, ParseFails, Panics, Respond,
        GiveUp, Answer, RpcFails, RpcTimesOut, BudgetEnds, Write, WriteFails, Kill, Tick
  <2>2. QED
    BY <2>1 DEF SubmittedInv
<1>4. QED
  BY <1>1, <1>2, <1>3

LEMMA LedgerIsSubmitted == Spec => [](RunInv /\ SubmittedInv)
<1>1. Init => SubmittedInv
  BY DEF Init, SubmittedInv
<1>2. QED
  BY <1>1, Types, SubmittedStep, PTL DEF Spec

-----------------------------------------------------------------------------
\* ToolCalls: a call's result is of the kind its action asks for, whatever the
\* name and whichever of the arguments are missing.
LEMMA CodexClassifies ==
    ASSUME NEW call
    PROVE  Codex!ClassifiedResult(call) = Claude!ResultOf(Codex!Classified(call))
<1> USE DEF Codex!ClassifiedResult, Codex!Classified, Claude!ResultOf, Claude!Arm
<1>1. Codex!file_operation_for(call) \in
          {"FileRead", "FileWrite", "FileEdit", "FileDelete", "None"}
  BY DEF Codex!file_operation_for, Codex!file_op_for, Codex!Arm
<1>2. QED
  BY <1>1

LEMMA HermesClassifies ==
    ASSUME NEW call
    PROVE  Hermes!ClassifiedResult(call) = Claude!ResultOf(Hermes!Classified(call))
<1> USE DEF Hermes!ClassifiedResult, Hermes!Classified, Claude!ResultOf, Claude!Arm
<1>1. Hermes!file_operation_for(call) \in
          {"FileRead", "FileWrite", "FileEdit", "FileDelete", "None"}
  BY DEF Hermes!file_operation_for, Hermes!file_op_for, Hermes!Arm
<1>2. QED
  BY <1>1

LEMMA OpenhandsClassifies ==
    ASSUME NEW call
    PROVE  Openhands!ClassifiedResult(call) = Claude!ResultOf(Openhands!Classified(call))
<1> USE DEF Openhands!ClassifiedResult, Openhands!Classified, Claude!ResultOf, Claude!Arm
<1>1. Openhands!file_operation_for(call) \in
          {"FileRead", "FileWrite", "FileEdit", "FileDelete", "None"}
  BY DEF Openhands!file_operation_for, Openhands!file_op_for, Openhands!Arm
<1>2. QED
  BY <1>1

LEMMA OpencodeClassifies ==
    ASSUME NEW call
    PROVE  Opencode!ClassifiedResult(call) = Claude!ResultOf(Opencode!Classified(call))
<1> USE DEF Opencode!ClassifiedResult, Opencode!Classified, Claude!ResultOf, Claude!Arm
<1>1. Opencode!file_operation_for(call) \in
          {"FileRead", "FileWrite", "FileEdit", "FileDelete", "None"}
  BY DEF Opencode!file_operation_for, Opencode!file_op_for, Opencode!Arm
<1>2. QED
  BY <1>1

\* VS Code and Gemini know their tools by name alone.
LEMMA VscodeClassifies ==
    ASSUME NEW call
    PROVE  Vscode!ToolResult(call) =
               Claude!ResultOf(Vscode!normalize_pre_tool_action(call))
BY DEF Vscode!ToolResult, Vscode!normalize_pre_tool_action, Vscode!FileActions, Vscode!Arm,
    Claude!ResultOf, Claude!Arm

LEMMA GeminiClassifies ==
    ASSUME NEW call
    PROVE  Gemini!ToolResult(call) = Claude!ResultOf(Gemini!action_for(call))
BY DEF Gemini!ToolResult, Gemini!action_for, Gemini!FileActions, Gemini!Arm,
    Claude!ResultOf, Claude!Arm

-----------------------------------------------------------------------------
\* The adapters, one by one: what is submitted after a tool call is the result
\* of what is submitted before it.  A call without a name is never submitted.
LEMMA VscodePairs ==
    ASSUME NEW in, NEW before, in.hook = "PostToolUse", before.hook = "PreToolUse",
           before.call = in.call, NEW got, Vscode!Handle(in, got).do = "send"
    PROVE  Vscode!Handle(in, got).event.kind =
               Claude!ResultOf(Vscode!Handle(before, << >>).event.kind)
<1>1. Vscode!Handle(in, got) = Vscode!PostToolUse(in, got)
  BY DEF Vscode!Handle
<1>2. Vscode!Handle(before, << >>) = Vscode!PreToolUse(before, << >>)
  BY DEF Vscode!Handle
<1> USE DEF Vscode!PreToolUse, Vscode!PostToolUse, Vscode!Validated, Vscode!Adjudicate,
            Vscode!Send, Vscode!Fail, Vscode!Reply
<1>3. in.call.name # "blank"
  BY <1>1
<1>4. Vscode!Handle(in, got).event.kind = Vscode!ToolResult(in.call)
  BY <1>1, <1>3 DEF Vscode!Observation
<1>5. Vscode!Handle(before, << >>).event.kind = Vscode!normalize_pre_tool_action(in.call)
  BY <1>2, <1>3 DEF Vscode!Action
<1>6. QED
  BY <1>4, <1>5, VscodeClassifies

LEMMA GeminiPairs ==
    ASSUME NEW in, NEW before, in.hook = "AfterTool", before.hook = "BeforeTool",
           before.call = in.call, NEW got, Gemini!Handle(in, got).do = "send"
    PROVE  Gemini!Handle(in, got).event.kind =
               Claude!ResultOf(Gemini!Handle(before, << >>).event.kind)
<1>1. Gemini!Handle(in, got) = Gemini!AfterTool(in, got)
  BY DEF Gemini!Handle, Gemini!QuietHooks
<1>2. Gemini!Handle(before, << >>) = Gemini!BeforeTool(before, << >>)
  BY DEF Gemini!Handle, Gemini!QuietHooks
<1> USE DEF Gemini!BeforeTool, Gemini!AfterTool, Gemini!Validated, Gemini!Adjudicate,
            Gemini!Send, Gemini!Fail, Gemini!Reply
<1>3. in.call.name # "blank"
  BY <1>1
<1>4. Gemini!Handle(in, got).event.kind = Gemini!ToolResult(in.call)
  BY <1>1, <1>3 DEF Gemini!Observation
<1>5. Gemini!Handle(before, << >>).event.kind = Gemini!action_for(in.call)
  BY <1>2, <1>3 DEF Gemini!Action
<1>6. QED
  BY <1>4, <1>5, GeminiClassifies

LEMMA CodexPairs ==
    ASSUME NEW in, NEW before, in.hook = "PostToolUse", before.hook = "PreToolUse",
           before.call = in.call, NEW got, Codex!Handle(in, got).do = "send"
    PROVE  Codex!Handle(in, got).event.kind =
               Claude!ResultOf(Codex!Handle(before, << >>).event.kind)
<1>1. Codex!Handle(in, got) = Codex!PostToolUse(in, got)
  BY DEF Codex!Handle
<1>2. Codex!Handle(before, << >>) = Codex!PreToolUse(before, << >>)
  BY DEF Codex!Handle
<1> USE DEF Codex!PreToolUse, Codex!PostToolUse, Codex!Validated, Codex!Adjudicate,
            Codex!Advise, Codex!Send, Codex!Fail, Codex!Reply
<1>3. in.call.name # "blank"
  BY <1>1
<1>4. Codex!Handle(in, got).event.kind = Codex!ClassifiedResult(in.call)
  BY <1>1, <1>3 DEF Codex!Observation
<1>5. Codex!Handle(before, << >>).event.kind = Codex!Classified(in.call)
  BY <1>2, <1>3 DEF Codex!Action, Codex!action_from_tool
<1>6. QED
  BY <1>4, <1>5, CodexClassifies

LEMMA HermesPairs ==
    ASSUME NEW in, NEW before, in.hook \in {"PostToolCall", "TransformToolResult"}, before.hook = "PreToolCall",
           before.call = in.call, NEW got, Hermes!Handle(in, got).do = "send"
    PROVE  Hermes!Handle(in, got).event.kind =
               Claude!ResultOf(Hermes!Handle(before, << >>).event.kind)
<1>1. Hermes!Handle(in, got) = Hermes!record_tool_observation(in, got)
  BY DEF Hermes!Handle, Hermes!TextHooks, Hermes!LifecycleHooks, Hermes!ApprovalHooks
<1>2. Hermes!Handle(before, << >>) = Hermes!PreToolCall(before, << >>)
  BY DEF Hermes!Handle, Hermes!TextHooks, Hermes!LifecycleHooks, Hermes!ApprovalHooks
<1> USE DEF Hermes!PreToolCall, Hermes!record_tool_observation, Hermes!Validated, Hermes!Adjudicate,
            Hermes!Observe, Hermes!Send, Hermes!Fail, Hermes!Reply
<1>3. in.call.name # "blank"
  BY <1>1
<1>4. Hermes!Handle(in, got).event.kind = Hermes!ClassifiedResult(in.call)
  BY <1>1, <1>3 DEF Hermes!Observation
<1>5. Hermes!Handle(before, << >>).event.kind = Hermes!Classified(in.call)
  BY <1>2, <1>3 DEF Hermes!Action
<1>6. QED
  BY <1>4, <1>5, HermesClassifies

LEMMA OpenhandsPairs ==
    ASSUME NEW in, NEW before, in.hook = "PostToolUse", before.hook = "PreToolUse",
           before.call = in.call, NEW got, Openhands!Handle(in, got).do = "send"
    PROVE  Openhands!Handle(in, got).event.kind =
               Claude!ResultOf(Openhands!Handle(before, << >>).event.kind)
<1>1. Openhands!Handle(in, got) = Openhands!PostToolUse(in, got)
  BY DEF Openhands!Handle
<1>2. Openhands!Handle(before, << >>) = Openhands!PreToolUse(before, << >>)
  BY DEF Openhands!Handle
<1> USE DEF Openhands!PreToolUse, Openhands!PostToolUse, Openhands!Validated, Openhands!Adjudicate,
            Openhands!Observe, Openhands!Send, Openhands!Fail, Openhands!Reply
<1>3. in.call.name # "blank"
  BY <1>1
<1>4. Openhands!Handle(in, got).event.kind = Openhands!ClassifiedResult(in.call)
  BY <1>1, <1>3 DEF Openhands!Observation
<1>5. Openhands!Handle(before, << >>).event.kind = Openhands!Classified(in.call)
  BY <1>2, <1>3 DEF Openhands!Action
<1>6. QED
  BY <1>4, <1>5, OpenhandsClassifies

LEMMA OpencodePairs ==
    ASSUME NEW in, NEW before, in.hook = "ToolExecuteAfter", in.detail = "plain",
           before.hook = "ToolExecuteBefore", before.detail = "plain",
           before.call = in.call,
           NEW got, Opencode!Handle(in, got).do = "send"
    PROVE  Opencode!Handle(in, got).event.kind =
               Claude!ResultOf(Opencode!Handle(before, << >>).event.kind)
<1> USE DEF Opencode!Handle, Opencode!handle_sidecar_request, Opencode!Send,
            Opencode!Reply
<1>1. Opencode!map_request_to_event(in) =
          Opencode!Observation(Opencode!ClassifiedResult(in.call))
  BY DEF Opencode!map_request_to_event, Opencode!observation_from_tool_payload
<1>2. Opencode!map_request_to_event(before) =
          Opencode!Action(Opencode!Classified(in.call))
  BY DEF Opencode!map_request_to_event, Opencode!action_from_tool_payload
<1>3. /\ Opencode!Handle(in, got).event = Opencode!map_request_to_event(in)
      /\ Opencode!Handle(before, << >>).event = Opencode!map_request_to_event(before)
  OBVIOUS
<1>4. QED
  BY <1>1, <1>2, <1>3, OpencodeClassifies DEF Opencode!Action, Opencode!Observation

-----------------------------------------------------------------------------
LEMMA InputIsRecord ==
    ASSUME NEW in \in MCInputs
    PROVE  in = [agent |-> in.agent, hook |-> in.hook, call |-> in.call,
                 detail |-> in.detail, mentions |-> in.mentions]
BY DEF MCInputs, Of

\* The hook before a tool call, of the same call.
Before(in) == [in EXCEPT !.hook = PreHook[in.agent][in.hook]]
FollowsACall(in) ==
    /\ in.agent \in DOMAIN PreHook
    /\ in.hook \in DOMAIN PreHook[in.agent]
    /\ in.detail = "plain"

LEMMA ResultOfWhatWasAsked ==
    ASSUME NEW in \in MCInputs, FollowsACall(in),
           NEW got, MCHandle(in, got).do = "send"
    PROVE  MCHandle(in, got).event.kind =
               Claude!ResultOf(MCHandle(Before(in), << >>).event.kind)
<1>1. /\ Before(in).agent = in.agent
      /\ Before(in).call = in.call
      /\ Before(in).detail = in.detail
      /\ Before(in).hook = PreHook[in.agent][in.hook]
  BY InputIsRecord DEF Before
<1>2. in.agent \in {"vscode", "gemini", "codex", "hermes", "openhands", "opencode"}
  BY DEF FollowsACall, PreHook
<1>3. CASE in.agent = "vscode"
  <2>1. in.hook = "PostToolUse" /\ Before(in).hook = "PreToolUse"
    BY <1>1, <1>3 DEF FollowsACall, PreHook
  <2>2. /\ MCHandle(in, got) = Vscode!Handle(in, got)
        /\ MCHandle(Before(in), << >>) = Vscode!Handle(Before(in), << >>)
    BY <1>1, <1>3 DEF MCHandle
  <2>3. QED
    BY <1>1, <2>1, <2>2, VscodePairs
<1>4. CASE in.agent = "gemini"
  <2>1. in.hook = "AfterTool" /\ Before(in).hook = "BeforeTool"
    BY <1>1, <1>4 DEF FollowsACall, PreHook
  <2>2. /\ MCHandle(in, got) = Gemini!Handle(in, got)
        /\ MCHandle(Before(in), << >>) = Gemini!Handle(Before(in), << >>)
    BY <1>1, <1>4 DEF MCHandle
  <2>3. QED
    BY <1>1, <2>1, <2>2, GeminiPairs
<1>5. CASE in.agent = "codex"
  <2>1. in.hook = "PostToolUse" /\ Before(in).hook = "PreToolUse"
    BY <1>1, <1>5 DEF FollowsACall, PreHook
  <2>2. /\ MCHandle(in, got) = Codex!Handle(in, got)
        /\ MCHandle(Before(in), << >>) = Codex!Handle(Before(in), << >>)
    BY <1>1, <1>5 DEF MCHandle
  <2>3. QED
    BY <1>1, <2>1, <2>2, CodexPairs
<1>6. CASE in.agent = "hermes"
  <2>1. in.hook \in {"PostToolCall", "TransformToolResult"} /\ Before(in).hook = "PreToolCall"
    BY <1>1, <1>6 DEF FollowsACall, PreHook
  <2>2. /\ MCHandle(in, got) = Hermes!Handle(in, got)
        /\ MCHandle(Before(in), << >>) = Hermes!Handle(Before(in), << >>)
    BY <1>1, <1>6 DEF MCHandle
  <2>3. QED
    BY <1>1, <2>1, <2>2, HermesPairs
<1>7. CASE in.agent = "openhands"
  <2>1. in.hook = "PostToolUse" /\ Before(in).hook = "PreToolUse"
    BY <1>1, <1>7 DEF FollowsACall, PreHook
  <2>2. /\ MCHandle(in, got) = Openhands!Handle(in, got)
        /\ MCHandle(Before(in), << >>) = Openhands!Handle(Before(in), << >>)
    BY <1>1, <1>7 DEF MCHandle
  <2>3. QED
    BY <1>1, <2>1, <2>2, OpenhandsPairs
<1>8. CASE in.agent = "opencode"
  <2>1. in.hook = "ToolExecuteAfter" /\ Before(in).hook = "ToolExecuteBefore"
    BY <1>1, <1>8 DEF FollowsACall, PreHook
  <2>2. /\ MCHandle(in, got) = Opencode!Handle(in, got)
        /\ MCHandle(Before(in), << >>) = Opencode!Handle(Before(in), << >>)
    BY <1>1, <1>8 DEF MCHandle
  <2>3. QED
    BY <1>1, <2>1, <2>2, OpencodePairs DEF FollowsACall
<1>9. QED
  BY <1>2, <1>3, <1>4, <1>5, <1>6, <1>7, <1>8

\* MCHooks!ResultMatchesAction, for the adapters' own inputs and handlers: every
\* record of a call's result is of the kind that the action let through asks
\* for, so that no policy on the outcome of an action is passed by, whatever the
\* tool, the arguments it lacks, and the order of timers, failures and answers.
THEOREM ResultMatchesActionHolds ==
    ASSUME Requests = MCInputs,
           \A in, got : Handler(in, got) = MCHandle(in, got)
    PROVE  Spec => []ResultMatchesAction
<1>1. RunInv /\ SubmittedInv => ResultMatchesAction
  <2> SUFFICES ASSUME RunInv, SubmittedInv, FollowsACall(input),
                      NEW i \in DOMAIN ledger
               PROVE  ledger[i].event.kind =
                          Claude!ResultOf(Handler(Before(input), << >>).event.kind)
    BY DEF ResultMatchesAction, FollowsACall, Before
  <2>1. PICK got \in HeardBy(input) :
            /\ Handler(input, got).do = "send"
            /\ ledger[i].event = Handler(input, got).event
    BY DEF SubmittedInv, Submits
  <2>2. input \in MCInputs /\ MCHandle(input, got).do = "send"
    BY <2>1 DEF RunInv, TypeOK
  <2>3. MCHandle(input, got).event.kind =
            Claude!ResultOf(MCHandle(Before(input), << >>).event.kind)
    BY <2>2, ResultOfWhatWasAsked
  <2>4. QED
    BY <2>1, <2>3
<1>2. QED
  BY <1>1, LedgerIsSubmitted, PTL
=============================================================================
