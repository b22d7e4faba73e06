------------------------------ MODULE Guardrails ------------------------------
(***************************************************************************)
(* What the engine is told about content: the two model classifiers        *)
(* (guardrails/ifc, guardrails/policy), one call per template, as          *)
(* transform.rs calls them.                                                *)
(*                                                                         *)
(* A call of a model takes some time and says something, or fails.  The    *)
(* models are external.                                                    *)
(***************************************************************************)
EXTENDS Naturals, FiniteSets, Sequences, SequencesExt, FiniteSetsExt

CONSTANTS
    CLASSIFY_TIMEOUT,   \* for all of one classifier's templates
    TEMPLATE_TIMEOUT    \* for each of them

Level == [Public |-> 0, Internal |-> 1, Confidential |-> 2, HighlyConfidential |-> 3]
Unjudged == [compliant |-> TRUE, violations |-> {}]

-----------------------------------------------------------------------------
(***************************************************************************)
(* One classifier: its templates one after the other, and the first that   *)
(* fails or takes too long ends it.                                        *)
(***************************************************************************)
Started == [spent |-> 0, failed |-> FALSE, found |-> << >>]

\* Mutant: a template that fails is passed over.
AskNext(run, call) ==
    IF call.says = "fails" \/ call.takes > TEMPLATE_TIMEOUT
    THEN [run EXCEPT !.spent = @ + Min({call.takes, TEMPLATE_TIMEOUT})]
    ELSE [run EXCEPT !.spent = @ + call.takes,
                     !.found = IF call.says = "nothing" THEN @ ELSE Append(@, call.says)]

\* classify_single, evaluate_single, and the loop around them.
AskTemplate(run, call) ==
    CASE run.failed -> run
      [] ~run.failed /\ call.takes > TEMPLATE_TIMEOUT ->
            [run EXCEPT !.spent = @ + TEMPLATE_TIMEOUT, !.failed = TRUE]
      [] ~run.failed /\ call.takes <= TEMPLATE_TIMEOUT ->
            [run EXCEPT !.spent = @ + call.takes, !.failed = call.says = "fails",
                        !.found = IF call.says \in {"fails", "nothing"} THEN @
                                  ELSE Append(@, call.says)]

\* DataModel::classify and PolicyModel::evaluate_content; no template is an error.
Classify(calls) ==
    IF calls = << >> THEN [Started EXCEPT !.failed = TRUE]
    ELSE FoldLeft(AskTemplate, Started, calls)

\* SensitivityClassification::max_label
MaxLabel(found) ==
    IF found = << >> THEN "Public"
    ELSE CHOOSE l \in ToSet(found) : \A k \in ToSet(found) : Level[k] <= Level[l]

\* PolicyClassification::codes: a code as the model wrote it.
Verdict(found) == [compliant |-> found = << >>, violations |-> ToSet(found)]

-----------------------------------------------------------------------------
(***************************************************************************)
(* The classifiers in the engine (transform.rs).  Empty content, a         *)
(* classifier that is off, an error and a timeout all fail open.           *)
(***************************************************************************)
InTime(run) == ~run.failed /\ run.spent <= CLASSIFY_TIMEOUT
Held(run) == Min({run.spent, CLASSIFY_TIMEOUT})

ClassifyLabel(model, calls) ==
    LET run == Classify(calls)
    IN  IF ~model.on \/ model.empty THEN [label |-> "Public", after |-> 0]
        ELSE [label |-> IF InTime(run) THEN MaxLabel(run.found) ELSE "Public",
              after |-> Held(run)]

ClassifyPolicy(model, calls) ==
    LET run == Classify(calls)
    IN  IF ~model.on \/ model.empty THEN [policy |-> Unjudged, after |-> 0]
        ELSE [policy |-> IF InTime(run) THEN Verdict(run.found) ELSE Unjudged,
              after |-> Held(run)]

\* Joined, not sequenced.
ClassifyBoth(data, policy) ==
    LET label == ClassifyLabel(data, data.calls)
        verdict == ClassifyPolicy(policy, policy.calls)
    IN  [label |-> label.label, policy |-> verdict.policy,
         after |-> Max({label.after, verdict.after})]

-----------------------------------------------------------------------------
(***************************************************************************)
(* The engine is told all that the templates of a classifier found, or     *)
(* nothing of it: a failure or a timeout after a finding takes the finding *)
(* back, and no part of an answer ever stands for the whole.  What one     *)
(* classifier does is nothing to the other, and the caller never waits     *)
(* longer than one of them may take (transform.rs:73-78, :105-112,         *)
(* :141-146).                                                              *)
(***************************************************************************)
WholeOrOpen(data, policy) ==
    LET told == ClassifyBoth(data, policy)
        whole(m) == /\ m.on /\ ~m.empty /\ m.calls # << >>
                    /\ \A i \in DOMAIN m.calls : /\ m.calls[i].says # "fails"
                                                 /\ m.calls[i].takes <= TEMPLATE_TIMEOUT
                    /\ FoldLeft(LAMBDA t, c : t + c.takes, 0, m.calls) <= CLASSIFY_TIMEOUT
        said(m) == {m.calls[i].says : i \in DOMAIN m.calls} \ {"nothing"}
    IN  /\ \A l \in DOMAIN Level :
              told.label = l <=>
                  IF whole(data) /\ said(data) # {}
                  THEN l \in said(data) /\ \A k \in said(data) : Level[k] <= Level[l]
                  ELSE l = "Public"
        /\ told.policy.violations = IF whole(policy) THEN said(policy) ELSE {}
        /\ told.policy.compliant <=> told.policy.violations = {}
        /\ told.after <= CLASSIFY_TIMEOUT
===============================================================================
