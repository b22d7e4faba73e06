----------------------------- MODULE CedarServer -----------------------------
(***************************************************************************)
(* The Cedar scratchpad of the MCP server (mcp/src/lib.rs): three locks,   *)
(* one each for the schema, the policies and the entities, and the tools   *)
(* that read and replace what they hold.  rmcp runs every tool call as a   *)
(* task, so calls interleave at each lock they wait for.                   *)
(*                                                                         *)
(* A name is a namespace, a type and an id; "" is the namespace of a bare  *)
(* name.  Cedar itself (parsing, validation, evaluation) is external.      *)
(***************************************************************************)
EXTENDS Naturals

CONSTANTS
    Callers,
    Schemas,    \* [types, strict, actions]; strict types require attributes
    PolicySets, \* sets of [id, effect, over, needs]
    Arguments,  \* entities as a caller spells them: [uid, attrs, parents]
    Requests,   \* [principal, action, resource], as a caller spells them
    MaxCalls

VARIABLES
    schema,     \* the schema that is loaded, Nothing before
    policies, entities,
    call,       \* per caller: the tool call it is in
    answer,     \* per caller: what its last call returned
    acked,      \* entities whose addition was reported and not undone
    calls
cedarVars == <<schema, policies, entities, call, answer, acked, calls>>

Nothing == [none |-> TRUE]
Idle == [tool |-> "idle"]
Failed == [tool |-> "failed"]
Done == [tool |-> "done"]

TypeOf(uid) == [ns |-> uid.ns, type |-> uid.type]

\* CedarMcpServer::new.
CedarInit ==
    /\ schema = Nothing /\ policies = {} /\ entities = {}
    /\ call = [c \in Callers |-> Idle] /\ answer = [c \in Callers |-> Done]
    /\ acked = {} /\ calls = 0

-----------------------------------------------------------------------------
(***************************************************************************)
(* Names.  Each operator gives the candidates; the call goes on with one.  *)
(***************************************************************************)
TypesNamed(type, in) == {t \in in.types : t.type = type}

ResolveUid(uid, in) ==
    IF uid.ns # "" \/ in = Nothing THEN {uid}
    ELSE {[uid EXCEPT !.ns = t.ns] : t \in TypesNamed(uid.type, in)}

ResolveAction(action, in) ==
    IF action.ns # "" \/ in = Nothing THEN {action}
    ELSE {a \in in.actions : a.id = action.id}

Resolves(candidates) == \E n \in candidates : candidates = {n}
The(candidates) == CHOOSE n \in candidates : TRUE

-----------------------------------------------------------------------------
(***************************************************************************)
(* Cedar.                                                                  *)
(***************************************************************************)
ValidRequest(r, in) ==
    in = Nothing \/ (r.action \in in.actions
                     /\ {TypeOf(r.principal), TypeOf(r.resource)} \subseteq in.types)

ValidPolicies(set, in) ==
    \A p \in set : /\ p.over \subseteq in.actions
                   /\ p.needs # Nothing => TypeOf(p.needs) \in in.types

Conforms(e, in) ==
    in = Nothing \/ (/\ TypeOf(e.uid) \in in.types
                     /\ e.attrs = (TypeOf(e.uid) \in in.strict)
                     /\ {TypeOf(p) : p \in e.parents} \subseteq in.types)

\* A second entity of that name, or one that closes a cycle of parents.
Clashes(e, store) ==
    \/ e.uid \in e.parents
    \/ \E f \in store : \/ f.uid = e.uid /\ f # e
                        \/ f.uid \in e.parents /\ e.uid \in f.parents

Removed(uid, store) ==
    {[e EXCEPT !.parents = @ \ {uid}] : e \in {f \in store : f.uid # uid}}

Concerned(p, r) == p.over = {} \/ r.action \in p.over
Errs(p, store) ==
    p.needs # Nothing /\ ~\E e \in store : e.uid = p.needs /\ e.attrs

\* Authorizer::is_authorized: a policy that fails to evaluate decides nothing.
Judge(r, set, store) ==
    LET concerned == {p \in set : Concerned(p, r)}
        fired == {p \in concerned : ~Errs(p, store)}
        forbids == {p \in fired : p.effect = "forbid"}
    IN  [decision |-> IF forbids = {} /\ fired # {} THEN "ALLOW" ELSE "DENY",
         reasons |-> IF forbids # {} THEN forbids ELSE fired,
         errors |-> concerned \ fired]

-----------------------------------------------------------------------------
(***************************************************************************)
(* Tool calls.  A call ends by an answer; only is_authorized keeps a lock  *)
(* across an await, the one of the policies while it waits for entities.   *)
(***************************************************************************)
Begin(c) == call[c] = Idle /\ calls < MaxCalls /\ calls' = calls + 1
End(c, what) ==
    /\ call' = [call EXCEPT ![c] = Idle]
    /\ answer' = [answer EXCEPT ![c] = what]
Goto(c, state) == call' = [call EXCEPT ![c] = state] /\ UNCHANGED answer

PoliciesFree == \A c \in Callers : call[c].tool # "judging"

\* load_schema: what is loaded already is not validated against it.
LoadSchema(c, s) ==
    /\ Begin(c) /\ schema' = s /\ End(c, Done)
    /\ UNCHANGED <<policies, entities, acked>>

\* A text that does not parse, in any of the tools that take one.
Unparsed(c) ==
    /\ Begin(c) /\ End(c, Failed)
    /\ UNCHANGED <<schema, policies, entities, acked>>

\* load_policies validates under the schema's lock and then replaces the set.
LoadPolicies(c, set) ==
    /\ Begin(c)
    /\ IF schema # Nothing /\ ~ValidPolicies(set, schema)
       THEN End(c, Failed)
       ELSE Goto(c, [tool |-> "load_policies", set |-> set])
    /\ UNCHANGED <<schema, policies, entities, acked>>
ReplacePolicies(c) ==
    /\ call[c].tool = "load_policies" /\ PoliciesFree
    /\ policies' = call[c].set /\ End(c, Done)
    /\ UNCHANGED <<schema, entities, acked, calls>>

\* add_entity: names are resolved and the entity is built under the schema
\* of this moment, and added to the store of a later one.
AddEntity(c, e) ==
    /\ Begin(c)
    /\ LET own == ResolveUid(e.uid, schema)
           up == {ResolveUid(p, schema) : p \in e.parents}
           built == [uid |-> The(own), attrs |-> e.attrs, parents |-> {The(p) : p \in up}]
       IN  IF Resolves(own) /\ (\A p \in up : Resolves(p)) /\ Conforms(built, schema)
           THEN Goto(c, [tool |-> "add_entity", entity |-> built])
           ELSE End(c, Failed)
    /\ UNCHANGED <<schema, policies, entities, acked>>

\* Mutant: the store is taken out of its lock, and lost with a refusal.
StoreTakenOut(c) ==
    /\ call[c].tool = "add_entity"
    /\ LET e == call[c].entity
       IN  IF Clashes(e, entities)
           THEN entities' = {} /\ UNCHANGED acked /\ End(c, Failed)
           ELSE entities' = entities \cup {e} /\ acked' = acked \cup {e.uid} /\ End(c, Done)
    /\ UNCHANGED <<schema, policies, calls>>

StoreEntity(c) ==
    /\ call[c].tool = "add_entity"
    /\ LET e == call[c].entity
       IN  IF Clashes(e, entities)
           THEN End(c, Failed) /\ UNCHANGED <<entities, acked>>
           ELSE /\ entities' = entities \cup {e} /\ acked' = acked \cup {e.uid}
                /\ End(c, Done)
    /\ UNCHANGED <<schema, policies, calls>>

\* remove_entity takes the name as it is written; a stranger is no error.
RemoveEntity(c, uid) ==
    /\ Begin(c) /\ entities' = Removed(uid, entities) /\ acked' = acked \ {uid}
    /\ End(c, Done)
    /\ UNCHANGED <<schema, policies>>

\* clear_state: three writes.
ClearState(c) ==
    /\ Begin(c) /\ schema' = Nothing /\ Goto(c, [tool |-> "clear_policies"])
    /\ UNCHANGED <<policies, entities, acked>>
ClearPolicies(c) ==
    /\ call[c].tool = "clear_policies" /\ PoliciesFree
    /\ policies' = {} /\ Goto(c, [tool |-> "clear_entities"])
    /\ UNCHANGED <<schema, entities, acked, calls>>
ClearEntities(c) ==
    /\ call[c].tool = "clear_entities"
    /\ entities' = {} /\ acked' = {} /\ End(c, Done)
    /\ UNCHANGED <<schema, policies, calls>>

\* is_authorized, to the lock of the policies ...
IsAuthorized(c, r) ==
    /\ Begin(c)
    /\ LET principal == ResolveUid(r.principal, schema)
           action == ResolveAction(r.action, schema)
           resource == ResolveUid(r.resource, schema)
           request == [principal |-> The(principal), action |-> The(action),
                       resource |-> The(resource)]
       IN  IF /\ Resolves(principal) /\ Resolves(action) /\ Resolves(resource)
              /\ ValidRequest(request, schema)
           THEN Goto(c, [tool |-> "is_authorized", in |-> schema, asked |-> r,
                         request |-> request])
           ELSE End(c, Failed)
    /\ UNCHANGED <<schema, policies, entities, acked>>
LockPolicies(c) ==
    /\ call[c].tool = "is_authorized"
    /\ Goto(c, [call[c] EXCEPT !.tool = "judging"])
    /\ UNCHANGED <<schema, policies, entities, acked, calls>>

Warnings(in, judged) ==
    (IF in = Nothing THEN {"no schema"} ELSE {})
    \cup (IF judged.errors # {} THEN {"errored"} ELSE {})
    \cup (IF judged.decision = "DENY" /\ judged.reasons = {} THEN {"default deny"} ELSE {})

\* What the caller asked, and the policies, are kept for the properties.
AuthorizationResult(state, judged, set) ==
    [tool |-> "is_authorized", decision |-> judged.decision, reasons |-> judged.reasons,
     errors |-> judged.errors, warnings |-> Warnings(state.in, judged),
     asked |-> state.asked, in |-> state.in, over |-> set]

\* ... and on, with the two read locks, to the answer.
Authorize(c) ==
    /\ call[c].tool = "judging"
    /\ End(c, AuthorizationResult(call[c], Judge(call[c].request, policies, entities), policies))
    /\ UNCHANGED <<schema, policies, entities, acked, calls>>

\* validate_entity: an entity of the named type, as spelled, no attributes.
ValidateEntity(c, uid) ==
    /\ Begin(c)
    /\ End(c, [tool |-> "validate_entity",
               checks |-> {"entity-type-parse"} \cup
                          (IF schema = Nothing THEN {} ELSE {"entity-validation"}),
               valid |-> schema # Nothing /\
                         Conforms([uid |-> uid, attrs |-> FALSE, parents |-> {}], schema)])
    /\ UNCHANGED <<schema, policies, entities, acked>>

\* list_entities, get_schema_status and analyze_policies only read.
ListEntities(c) ==
    /\ Begin(c) /\ End(c, [tool |-> "list_entities", found |-> {e.uid : e \in entities}])
    /\ UNCHANGED <<schema, policies, entities, acked>>
SchemaStatus(c) ==
    /\ Begin(c) /\ End(c, [tool |-> "get_schema_status", loaded |-> schema # Nothing])
    /\ UNCHANGED <<schema, policies, entities, acked>>
AnalyzePolicies(c) ==
    /\ Begin(c) /\ End(c, [tool |-> "analyze_policies", found |-> {p.id : p \in policies}])
    /\ UNCHANGED <<schema, policies, entities, acked>>

\* The tools that are handed the text they work on take no lock.  A validation
\* answers with a report, whatever it finds; a fragment or an analysis may fail.
ValidateText(c) ==
    /\ Begin(c)
    /\ \E valid \in BOOLEAN : End(c, [tool |-> "report", valid |-> valid])
    /\ UNCHANGED <<schema, policies, entities, acked>>
DraftSchema(c) ==
    /\ Begin(c) /\ (End(c, Done) \/ End(c, Failed))
    /\ UNCHANGED <<schema, policies, entities, acked>>

\* The doctrine, the baseline and the closed sets are compiled in; only a
\* resource of another name is not found.
ReadDoctrine(c) ==
    /\ Begin(c) /\ (End(c, Done) \/ End(c, Failed))
    /\ UNCHANGED <<schema, policies, entities, acked>>

\* What the console refuses is the caller's mistake; what it cannot answer, or
\* answers unreadably, is the server's.
Refusals == {"NotFound", "AlreadyExists", "InvalidArgument", "FailedPrecondition"}
ConsoleError(status) ==
    [tool |-> "console", error |-> IF status \in Refusals THEN "input" ELSE "internal"]

\* The agent and trajectory tools wait for the console and hold no lock.
AskConsole(c) ==
    /\ Begin(c) /\ Goto(c, [tool |-> "console"])
    /\ UNCHANGED <<schema, policies, entities, acked>>
ConsoleAnswers(c) ==
    /\ call[c].tool = "console"
    /\ \/ End(c, Done)
       \/ \E status \in {"NotFound", "Unavailable"} : End(c, ConsoleError(status))
    /\ UNCHANGED <<schema, policies, entities, acked, calls>>

CedarNext ==
    \E c \in Callers :
        \/ \E s \in Schemas : LoadSchema(c, s)
        \/ Unparsed(c)
        \/ \E set \in PolicySets : LoadPolicies(c, set)
        \/ ReplacePolicies(c)
        \/ \E e \in Arguments : AddEntity(c, e) \/ RemoveEntity(c, e.uid)
                                \/ ValidateEntity(c, e.uid)
        \/ StoreEntity(c)
        \/ ClearState(c) \/ ClearPolicies(c) \/ ClearEntities(c)
        \/ \E r \in Requests : IsAuthorized(c, r)
        \/ LockPolicies(c) \/ Authorize(c)
        \/ ListEntities(c) \/ SchemaStatus(c) \/ AnalyzePolicies(c)
        \/ ValidateText(c) \/ DraftSchema(c) \/ ReadDoctrine(c)
        \/ AskConsole(c) \/ ConsoleAnswers(c)

CedarSpec == CedarInit /\ [][CedarNext]_cedarVars

-----------------------------------------------------------------------------
(***************************************************************************)
(* Properties.                                                             *)
(***************************************************************************)
\* What add_entity reported as added stays in the store until the caller, or
\* another, removes it or clears the state: a call that is refused halfway
\* costs nobody else's entities (lib.rs:1188, :1650).
EntitiesKept == acked \subseteq {e.uid : e \in entities}

\* What a caller writes may stand for an action, bare or with its namespace.
Names(asked, action) ==
    asked = action \/ (asked.ns = "" /\ asked.id = action.id)

\* An answer that warns of nothing proves what it appears to (lib.rs:1206).
\* An ALLOW was given over no loaded forbid on the action that the caller
\* named, in whichever namespace the schema declares it, and a DENY by a
\* forbid; nothing failed to evaluate.  A report calls an entity valid only
\* when the check of entities ran (lib.rs:1595).
AnswersProve ==
    \A c \in Callers :
        LET a == answer[c]
        IN  /\ a.tool = "is_authorized" /\ a.warnings = {} =>
                LET named == {p \in a.over : p.effect = "forbid"
                                /\ \E n \in p.over \cap a.in.actions : Names(a.asked.action, n)}
                IN  /\ a.decision = "ALLOW" => named = {}
                    /\ a.decision = "DENY" => \E p \in a.reasons : p.effect = "forbid"
                    /\ a.errors = {}
            /\ a.tool = "validate_entity" /\ a.valid => "entity-validation" \in a.checks

\* What the server reports is true of what it holds: an entity it added is
\* there, and a decision follows from what is loaded.
CedarAnswersAreTrue == EntitiesKept /\ AnswersProve
=============================================================================
