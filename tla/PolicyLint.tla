------------------------------ MODULE PolicyLint ------------------------------
(***************************************************************************)
(* The verdict of the MCP server on a candidate policy (mcp/src/lint.rs,   *)
(* report.rs, features.rs and the validation tools of lib.rs):             *)
(* annotations, then the schema, then lints for conditions that typecheck  *)
(* and can never hold in the engine.                                       *)
(*                                                                         *)
(* A string literal is a name and classes of its characters: those that    *)
(* the lints ask about, and of a "program:token" whether the part before   *)
(* the colon is "misnamed" (has upper case or a separator), and whether    *)
(* the part after it is "flagless" (has no dash in front, or is a long     *)
(* flag with its value).                                                   *)
(* Cedar (parsing, typechecking) is external: `fits` holds the schemas a   *)
(* candidate or an entity validates against.                               *)
(***************************************************************************)
EXTENDS Naturals, FiniteSets, Sequences

LOCAL INSTANCE SequencesExt

CONSTANT Vocabulary     \* [categories, violations, labels], as shipped

-----------------------------------------------------------------------------
(***************************************************************************)
(* Expressions: [op, ...], with their operands.                            *)
(***************************************************************************)
Comparisons == {"contains", "containsAll", "containsAny", "==", "like"}

Operands(e) ==
    CASE e.op \in {"and", "not"}                          -> e.args
      [] e.op \in {"contains", "containsAll", "containsAny", "=="} -> <<e.left, e.right>>
      [] e.op = "like"                                    -> <<e.left>>
      [] e.op = "."                                       -> <<e.left>>
      [] e.op = "set"                                     -> e.items
      [] OTHER                                            -> << >>

RECURSIVE Walk(_), AttrPath(_)
Walk(e) == {e} \cup UNION {Walk(Operands(e)[i]) : i \in DOMAIN Operands(e)}

\* The path of an attribute; the empty one for any other expression.
AttrPath(e) ==
    CASE e.op = "var"                              -> <<e.name>>
      [] e.op = "." /\ AttrPath(e.left) # << >>    -> Append(AttrPath(e.left), e.attr)
      [] OTHER                                     -> << >>

StringLiterals(e) ==
    CASE e.op = "string" -> {e.value}
      [] e.op = "set"    -> {i.value : i \in {x \in ToSet(e.items) : x.op = "string"}}
      [] OTHER           -> {}

LabelLiteral(e) == IF e.op = "entity" /\ e.type = "Label" THEN {e.value} ELSE {}

ReferencesAction(e) == \E x \in Walk(e) : x.op = "var" /\ x.name = "action"

\* LikePattern: its literal pieces, one after the other.
PatternLiterals(pieces) == [name |-> "", has |-> UNION {p.has : p \in ToSet(pieces)}]

-----------------------------------------------------------------------------
(***************************************************************************)
(* The lints.                                                              *)
(***************************************************************************)
Error(code, path, literal) ==
    [code |-> code, severity |-> "error", path |-> path, literal |-> literal]
Warning(code) == [code |-> code, severity |-> "warning"]
If(condition, finding) == IF condition THEN {finding} ELSE {}

NormalizedShellFields ==
    {"program_flags_normalized", "program_args_normalized",
     "program_arg_path_components_normalized"}
ProgramScopedFields == NormalizedShellFields \cup {"program_flags", "program_args"}

\* Mutant: only upper case is looked for.
UpperOnly(literal) == "upper" \in literal.has

NeverNormalized(literal) == literal.has \cap {"upper", "back"} # {}

\* closed_vocabularies: what a closed field holds, by its path.
Closed(path) ==
    CASE path \in {<<"context", "signature", "categories">>,
                   <<"context", "file_signature", "categories">>} -> Vocabulary.categories
      [] path = <<"context", "policy", "violations">>             -> Vocabulary.violations
      [] path = <<"context", "label">>                            -> Vocabulary.labels
IsClosed(path) == path \in {<<"context", "signature", "categories">>,
                            <<"context", "file_signature", "categories">>,
                            <<"context", "policy", "violations">>}

CheckKnownValue(path, literal) ==
    If(literal.name \notin Closed(path), Error("unknown-context-value", path, literal))

UnderParse(path) == Len(path) >= 2 /\ path[Len(path) - 1] = "parse"

\* check_field_literal
CheckFieldLiteral(path, literal, fromPattern) ==
    IF path = << >> \/ path[1] # "context" THEN {}
    ELSE LET field == path[Len(path)] IN
         (IF IsClosed(path) THEN CheckKnownValue(path, literal) ELSE {})
         \cup If(field = "path_normalized" /\ NeverNormalized(literal),
                 Error("path-normalized-literal", path, literal))
         \cup If(/\ UnderParse(path)
                 /\ \/ field \in NormalizedShellFields /\ NeverNormalized(literal)
                    \/ field = "programs" /\ (NeverNormalized(literal) \/ "slash" \in literal.has),
                 Error("shell-normalized-literal", path, literal))
         \cup If(/\ UnderParse(path) /\ field \in ProgramScopedFields
                 /\ ~fromPattern /\ "colon" \notin literal.has,
                 Error("program-token-unscoped", path, literal))

\* check_comparison
CheckComparison(e) ==
    CASE e.op \in {"contains", "containsAll", "containsAny"} ->
            UNION {CheckFieldLiteral(AttrPath(e.left), l, FALSE) : l \in StringLiterals(e.right)}
      [] e.op = "==" ->
            UNION {UNION {CheckFieldLiteral(AttrPath(s[1]), l, FALSE) : l \in StringLiterals(s[2])}
                   \cup (IF AttrPath(s[1]) = <<"context", "label">>
                         THEN UNION {CheckKnownValue(AttrPath(s[1]), l) : l \in LabelLiteral(s[2])}
                         ELSE {})
                   : s \in {<<e.left, e.right>>, <<e.right, e.left>>}}
      [] e.op = "like" ->
            CheckFieldLiteral(AttrPath(e.left), PatternLiterals(e.pieces), TRUE)
            \cup If(/\ AttrPath(e.left) = <<"context", "url">>
                    /\ "dot" \in PatternLiterals(e.pieces).has,
                    Warning("raw-url-glob"))
      [] OTHER -> {}

Stubbed == {<<"context", "file_signature", f>> : f \in {"matches", "categories", "severity"}}
CheckStubbedField(e) ==
    If(AttrPath(e) \in Stubbed, Error("stubbed-context-field", AttrPath(e), [name |-> "", has |-> {}]))

\* run_lints, over every condition of the policy.
RunLints(p) ==
    UNION {UNION {CheckStubbedField(e) \cup CheckComparison(e) : e \in Walk(c)} : c \in p.conditions}
    \cup If(\E c \in p.conditions : ReferencesAction(c), Warning("action-in-condition"))

-----------------------------------------------------------------------------
(***************************************************************************)
(* Reports.                                                                *)
(***************************************************************************)
\* ValidationReport::new
Report(findings, checksRun) ==
    [valid |-> ~\E f \in findings : f.severity = "error",
     findings |-> findings, ran |-> checksRun]
Fails(code) == [code |-> code, severity |-> "error"]

\* parse_and_check_annotations; "" is an annotation that is absent or blank.
Annotations(c) ==
    IF ~c.parses THEN {Fails("policy-validation")}
    ELSE If(\E i \in DOMAIN c.policies : c.policies[i].id = "" \/ c.policies[i].description = "",
            Fails("policy-validation"))
         \cup If(\E i, j \in DOMAIN c.policies :
                    i # j /\ c.policies[i].id = c.policies[j].id /\ c.policies[i].id # "",
                 Fails("policy-validation"))

\* The schema a candidate is held against: its own, or the one of the harness.
SchemaOf(c) == IF c.schema = "none" THEN "harness" ELSE c.schema
SchemaFindings(c) ==
    IF SchemaOf(c) = "broken" THEN {Fails("schema-validation")}
    ELSE If(SchemaOf(c) = "warned", Warning("schema-validation"))
         \cup If(SchemaOf(c) \notin c.fits, Fails("schema-validation"))

\* validate_candidate: nothing more is looked at when the annotations fail.
ValidateCandidate(c) ==
    IF Annotations(c) # {} THEN Report(Annotations(c), {"annotations"})
    ELSE Report(SchemaFindings(c) \cup UNION {RunLints(p) : p \in ToSet(c.policies)},
                {"annotations", "lints"}
                \cup (IF SchemaOf(c) = "broken" THEN {} ELSE {"schema"}))

\* validate_entities_against_schema
ValidateEntities(c) ==
    IF c.schema = "broken" THEN Report({Fails("schema-validation")}, {"schema"})
    ELSE Report(If(c.schema = "warned", Warning("schema-validation"))
                \cup If(c.schema \notin c.fits, Fails("entity-validation")),
                {"schema", "entities"})

-----------------------------------------------------------------------------
(***************************************************************************)
(* What the engine puts in a field (policy/cedar/src/transform.rs,         *)
(* shell_parse.rs and path_normalize.rs), from any raw text.  In a         *)
(* "program:token" the program is the base name in lower case              *)
(* (normalize_program), and a flag has its dash and not its value          *)
(* (insert_flag), so those fields hold nothing misnamed, and the flags     *)
(* nothing flagless.                                                       *)
(***************************************************************************)
Raw == SUBSET {"upper", "back", "slash", "colon"}
Normalized(has) == (has \ {"upper", "back"}) \cup (IF "back" \in has THEN {"slash"} ELSE {})
Emitted(path) ==
    LET field == path[Len(path)]
    IN  CASE field = "path_normalized" -> {Normalized(r) : r \in Raw}
          [] field = "programs" -> {Normalized(r) \ {"slash"} : r \in Raw}
          [] field \in {"program_flags", "program_args"} -> {r \cup {"colon"} : r \in Raw}
          [] field = "program_arg_path_components_normalized" ->
                {(Normalized(r) \ {"slash"}) \cup {"colon"} : r \in Raw}
          [] field \in NormalizedShellFields -> {Normalized(r) \cup {"colon"} : r \in Raw}
          [] OTHER -> Raw

\* The classes that say nothing of a field.
FlagFields == {"program_flags", "program_flags_normalized"}
Immaterial(path) ==
    LET field == path[Len(path)]
    IN  {"dot"} \cup (IF field \in ProgramScopedFields THEN {} ELSE {"misnamed"})
                \cup (IF field \in FlagFields THEN {} ELSE {"flagless"})

\* A literal some text makes true; a pattern needs no more than its pieces.
Alive(path, literal, fromPattern) ==
    IF IsClosed(path) \/ path = <<"context", "label">> THEN literal.name \in Closed(path)
    ELSE \E v \in Emitted(path) :
            IF fromPattern THEN literal.has \cap {"upper", "back", "slash", "colon"} \subseteq v
            ELSE literal.has \ Immaterial(path) = v

\* The literals a condition holds a field of the context against.
Held(e) ==
    CASE e.op \in {"contains", "containsAll", "containsAny"} ->
            {<<AttrPath(e.left), l, FALSE>> : l \in StringLiterals(e.right)}
      [] e.op = "==" ->
            UNION {{<<AttrPath(s[1]), l, FALSE>> : l \in StringLiterals(s[2]) \cup LabelLiteral(s[2])}
                   : s \in {<<e.left, e.right>>, <<e.right, e.left>>}}
      [] e.op = "like" -> {<<AttrPath(e.left), PatternLiterals(e.pieces), TRUE>>}
      [] OTHER -> {}

\* What the lints do not look for, and let through: a program that is misnamed
\* in a way that its field allows a token ("RM:-r" among the raw flags), a token
\* that is never a flag ("rm:foo", "git:--force=x"), and the separator of a
\* path component.
Spared(path, literal) ==
    [literal EXCEPT !.has = @ \ ({"misnamed", "flagless"}
        \cup (IF path[Len(path)] = "program_arg_path_components_normalized"
              THEN {"slash"} ELSE {}))]

\* A condition that can never hold, as far as classes of characters tell: one
\* on a field that is a stub, or on a literal of the context that no text makes
\* true.  As is the literal that the lints see.
NeverHolds(p, Seen(_, _)) ==
    \/ \E c \in p.conditions : \E e \in Walk(c) : AttrPath(e) \in Stubbed
    \/ \E c \in p.conditions : \E e \in Walk(c) : \E h \in Held(e) :
          /\ h[1] # << >> /\ h[1][1] = "context"
          /\ ~Alive(h[1], Seen(h[1], h[2]), h[3])
Dead(p) == NeverHolds(p, LAMBDA path, literal : literal)
SeenDead(p) == NeverHolds(p, Spared)

-----------------------------------------------------------------------------
(***************************************************************************)
(* A candidate is called invalid only for a fault that it has: it does not *)
(* parse, a policy lacks an id of its own or a description, it does not    *)
(* fit the schema it is held against, or one of its conditions can never   *)
(* hold.  A valid one has none of these, except that a condition may never *)
(* hold for what Spared names: the lints are a backstop, "not a            *)
(* completeness check" (lint.rs:10-14).                                    *)
(* (validate_candidate, run_lints, check_field_literal)                    *)
(***************************************************************************)
WellFormed(c) ==
    /\ c.parses
    /\ \A i \in DOMAIN c.policies :
          /\ c.policies[i].id # "" /\ c.policies[i].description # ""
          /\ \A j \in DOMAIN c.policies : j # i => c.policies[j].id # c.policies[i].id
    /\ SchemaOf(c) # "broken" /\ SchemaOf(c) \in c.fits

ReportIsRight(c) ==
    /\ ~ValidateCandidate(c).valid => ~WellFormed(c) \/ \E p \in ToSet(c.policies) : Dead(p)
    /\ ValidateCandidate(c).valid => WellFormed(c) /\ \A p \in ToSet(c.policies) : ~SeenDead(p)

===============================================================================
