----------------------------- MODULE HookRunner -----------------------------
(***************************************************************************)
(* One hook process: hooks/core runner.rs, the gRPC client it calls the    *)
(* harness through, and the host that started it and waits.  Three timers  *)
(* run against each other: the hook's budget, the client's time limit on   *)
(* each call, and the host's deadline, which counts from before the        *)
(* process began.  The budget may be set in the environment; as shipped,   *)
(* all three are 30 seconds.  The adapter is a parameter.                  *)
(***************************************************************************)
EXTENDS HookEvents

CONSTANTS
    Requests,           \* what a host can ask
    Handler(_, _),     \* the handler's next step, given the answers so far
    OnFailure(_, _),   \* the response to a failure
    Unread(_),        \* what is left of an input that could not be read
    InRunLoop(_),       \* the inputs that go through the run loop
    MustRefuse(_, _),   \* the failures an input must be refused for
    Refused(_, _), Asked(_, _),   \* how the host reads a response
    MostCalls(_),       \* the most events a handler submits for an input
    Gating(_),          \* the inputs the host must not go ahead with unallowed
    Budgets,            \* what hook_budget may be
    RpcTimeout, HostDeadline, MaxStartup

ASSUME TimesAssumption ==
    /\ {RpcTimeout, HostDeadline, MaxStartup} \subseteq Nat
    /\ Budgets \subseteq Nat \ {0}

\* The answers a handler can have got: one to each event it went on to submit.
HeardBy(in) ==
    {got \in UNION {[1..n -> Answers] : n \in 0..MostCalls(in)} :
        \A k \in 0..Len(got) - 1 : Handler(in, SubSeq(got, 1, k)).do = "send"}
Said(got) == {got[i] : i \in DOMAIN got}
Enforced(in, errors, r) == \A e \in errors : MustRefuse(in, e) => Refused(in, r)

\* What the run loop takes on trust of an adapter: its handler comes to an end,
\* and neither a reply after an error nor a response to a failure, of the event
\* or of one that could not be read, lets pass what must be refused.
ASSUME AdapterAssumption ==
    \A in \in Requests :
        /\ MostCalls(in) \in Nat
        /\ \A got \in HeardBy(in) :
            LET step == Handler(in, got)
            IN  /\ step.do = "send" =>
                       step.event \in Events /\ Len(got) < MostCalls(in)
                /\ step.do = "fail" => step.response.value \in HookErrors
                /\ step.do = "reply" =>
                       Enforced(in, HookErrors \cap Said(got), step.response)
        /\ \A e \in HookErrors :
            /\ Enforced(in, {e}, OnFailure(in, e))
            /\ InRunLoop(in) => Enforced(in, {e}, OnFailure(Unread(in), e))

\* A gate refuses on any failure, and replies what it was told.
ASSUME GatingAssumption ==
    \A in \in Requests :
        Gating(in) =>
            /\ InRunLoop(in)
            /\ \A e \in HookErrors : MustRefuse(in, e)
            /\ \A got \in HeardBy(in) :
                LET step == Handler(in, got)
                IN  step.do = "reply" /\ ~Refused(in, step.response) =>
                        IF Asked(in, step.response)
                        THEN "Escalate" \in Said(got) /\ "Deny" \notin Said(got)
                        ELSE Said(got) = {"Allow"}

VARIABLES
    input,      \* the JSON on stdin
    phase,
    heard,        \* the handler's answers: decisions and errors, in order
    rpc,        \* the last call: its event, and "none", "sent" or the decision
    ledger,     \* the events the harness decided, with its decisions
    response,   \* what the hook resolved to
    cause,      \* the failure that degraded it
    budget,     \* hook_budget
    clock,      \* since the host started the process
    began,      \* when the hook's budget started
    stamp       \* when the last call was sent
vars == <<input, phase, heard, rpc, ledger, response, cause, budget, clock, began,
          stamp>>

Busy == {"reading", "connecting", "handling", "waiting"}
Ended == {"exited", "failed", "killed"}

TypeOK ==
    /\ input \in Requests
    /\ phase \in Busy \cup Ended \cup {"resolved"}
    /\ heard \in HeardBy(input)
    /\ rpc \in [event : Events \cup {Control("none")},
                state : Decisions \cup {"none", "sent"}]
    /\ rpc.state # "none" => rpc.event \in Events
    /\ ledger \in Seq([event : Events, decision : Decisions])
    /\ cause \in HookErrors \cup {"none"}
    /\ budget \in Budgets
    /\ began \in 0..MaxStartup
    /\ clock \in Nat
    /\ stamp \in Nat

Deadline == began + budget

\* The host waits longer than the hook may take.  The shipped host timeouts are
\* as long as the default budget and start earlier: then it does not.
Patient == Deadline < HostDeadline

Step == Handler(input, heard)

Init ==
    /\ input \in Requests
    /\ phase = "reading"
    /\ heard = << >>
    /\ rpc = [event |-> Control("none"), state |-> "none"]
    /\ ledger = << >>
    /\ response = NoOpinion
    /\ cause = "none"
    /\ budget \in Budgets
    /\ began \in 0..MaxStartup
    /\ clock = began
    /\ stamp = 0

-----------------------------------------------------------------------------
Resolve(r, e) ==
    /\ phase' = "resolved"
    /\ response' = r
    /\ cause' = e
    /\ UNCHANGED <<input, heard, rpc, ledger, clock, budget, began,
                   stamp>>

Go(next) ==
    /\ phase' = next
    /\ UNCHANGED <<input, heard, rpc, ledger, response, cause, clock,
                   budget, began, stamp>>

\* read_event_within.
ReadEvent == phase = "reading" /\ InRunLoop(input) /\ Go("connecting")

ReadFails ==
    /\ phase = "reading"
    /\ InRunLoop(input)
    /\ \E e \in {"Message", "Panicked"} : Resolve(OnFailure(Unread(input), e), e)

\* A hook answered without the harness reads stdin with no time limit.
AnswerDirectly ==
    /\ phase = "reading"
    /\ ~InRunLoop(input)
    /\ Resolve(Handler(input, << >>).response, "none")

ReadDirectlyFails == phase = "reading" /\ ~InRunLoop(input) /\ Go("failed")

\* resolve_event: connect, then dispatch, under the budget and a panic guard.
Connect == phase = "connecting" /\ Go("handling")

ConnectFails ==
    /\ phase = "connecting"
    /\ \E e \in {"Config", "Unreachable"} : Resolve(OnFailure(input, e), e)

ParseFails ==
    /\ phase = "handling"
    /\ heard = << >>
    /\ Resolve(OnFailure(input, "Message"), "Message")

Panics ==
    /\ phase \in {"connecting", "handling"}
    /\ Resolve(OnFailure(input, "Panicked"), "Panicked")

Submit ==
    /\ phase = "handling"
    /\ Step.do = "send"
    /\ phase' = "waiting"
    /\ rpc' = [event |-> Step.event, state |-> "sent"]
    /\ stamp' = clock
    /\ UNCHANGED <<input, heard, ledger, response, cause, clock, budget,
                   began>>

Respond ==
    /\ phase = "handling"
    /\ Step.do = "reply"
    /\ Resolve(Step.response, "none")

GiveUp ==
    /\ phase = "handling"
    /\ Step.do = "fail"
    /\ Resolve(OnFailure(input, Step.response.value), Step.response.value)

\* The harness records its decision whether or not anyone still waits for it.
HarnessDecides ==
    /\ rpc.state = "sent"
    /\ \E d \in Decisions :
        /\ rpc' = [rpc EXCEPT !.state = d]
        /\ ledger' = Append(ledger, [event |-> rpc.event, decision |-> d])
    /\ UNCHANGED <<input, phase, heard, response, cause, clock,
                   budget, began, stamp>>

\* The handler goes on with an answer, or with the error in its place.
Receive(answer) ==
    /\ phase = "waiting"
    /\ phase' = "handling"
    /\ heard' = Append(heard, answer)
    /\ UNCHANGED <<input, rpc, ledger, response, cause, clock,
                   budget, began, stamp>>

Answer == rpc.state \in Decisions /\ Receive(rpc.state)

\* Mutant: a call that fails counts as allowed.
RpcFailureAllows == \E e \in ClientErrors : Receive("Allow")

RpcFails ==
    \E e \in ClientErrors : Receive(FromClientError(e))

RpcTimesOut == clock - stamp >= RpcTimeout /\ Receive(FromClientError("Timeout"))

\* Mutant: the budget covers the handling of the event, not the read.
BudgetEndsAfterRead ==
    /\ phase \in Busy \ {"reading"}
    /\ InRunLoop(input)
    /\ clock >= Deadline
    /\ Resolve(OnFailure(input, "BudgetExceeded"), "BudgetExceeded")

\* Mutant: out of budget, the hook has no opinion.
BudgetEndsOpen ==
    /\ phase \in Busy
    /\ InRunLoop(input)
    /\ clock >= Deadline
    /\ Resolve(NoOpinion, "BudgetExceeded")

BudgetEnds ==
    /\ phase \in Busy
    /\ InRunLoop(input)
    /\ clock >= Deadline
    /\ LET known == IF phase = "reading" THEN Unread(input) ELSE input
       IN  Resolve(OnFailure(known, "BudgetExceeded"), "BudgetExceeded")

\* output_response; a failure to write it ends the process with code 1.
Write == phase = "resolved" /\ Go("exited")
WriteFails == phase = "resolved" /\ Go("failed")

-----------------------------------------------------------------------------
\* The host gives up and goes on without an answer.
Kill == phase \notin Ended /\ clock >= HostDeadline /\ Go("killed")

\* A timer of the hook that is due fires before time goes on, and an answer that
\* is ready is written.  The host may be late, or never give up.
Tick ==
    /\ phase \in Busy
    /\ clock < IF InRunLoop(input) THEN Deadline ELSE HostDeadline
    /\ phase = "waiting" => clock - stamp < RpcTimeout
    /\ clock' = clock + 1
    /\ UNCHANGED <<input, phase, heard, rpc, ledger, response, cause, budget, began,
                   stamp>>

Next ==
    \/ ReadEvent \/ ReadFails \/ AnswerDirectly \/ ReadDirectlyFails
    \/ Connect \/ ConnectFails \/ ParseFails \/ Panics
    \/ Submit \/ Respond \/ GiveUp
    \/ HarnessDecides \/ Answer \/ RpcFails \/ RpcTimesOut
    \/ BudgetEnds \/ Write \/ WriteFails \/ Kill \/ Tick

\* Only time, the timers and the hook's own output are sure to go on: stdin,
\* the connection, the handler and the harness may all hang.
Fairness ==
    /\ WF_vars(Tick)
    /\ WF_vars(BudgetEnds)
    /\ WF_vars(RpcTimesOut)
    /\ WF_vars(Write \/ WriteFails)

Spec == Init /\ [][Next]_vars /\ Fairness

-----------------------------------------------------------------------------

\* The failures the response answers: the one that ended the handler, or the
\* ones the handler dealt with.
Failures == IF cause # "none" THEN {cause} ELSE HookErrors \cap Said(heard)

\* A hook that must enforce refuses whatever went wrong, wherever it did.
FailClosed == phase = "exited" => Enforced(input, Failures, response)

\* What the host makes of the hook so far.  An answer that could not be written
\* has lost its reader.
Verdict ==
    CASE phase = "killed" -> "abandoned"
      [] phase = "exited" ->
            IF Refused(input, response) THEN "refused"
            ELSE IF Asked(input, response) THEN "asked" ELSE "proceed"
      [] OTHER -> "pending"

Decided == {ledger[i].decision : i \in DOMAIN ledger}

Gate == INSTANCE HookGate
            WITH patient <- Patient, recorded <- Decided, verdict <- Verdict

\* The host goes ahead on the answer of a gating hook only when every event the
\* hook submitted was recorded with Allow, and it goes ahead without an answer
\* only if it waits no longer than the hook's start and budget take.  That is
\* so as shipped, against "the decision is always written well before the host
\* gives up" (runner.rs:24-26): a gate that the host kills lets the action
\* pass.  A lower SONDERA_HOOK_BUDGET_SECS rules it out.
GateImplemented == Gate!Spec

\* Whatever hangs, a hook in the run loop ends by itself, and it answers, unless
\* its host waits no longer than the hook may take, and kills it first.
HookAnswers ==
    InRunLoop(input) =>
        <>(phase \in {"exited", "failed"} \/ (phase = "killed" /\ ~Patient))
=============================================================================
