----------------------------- MODULE HookFiles -----------------------------
(***************************************************************************)
(* The settings files in which agents look for their hooks, and what each  *)
(* agent's installer splices into one and takes out of it.  A document     *)
(* holds a "hooks" member, a map from events to lists of rules, each a     *)
(* list of entries, and flags.  An entry is a command: "ours", "stale"     *)
(* (ours from a binary that has moved since), "retired" (ours, of an event *)
(* that is wired no more), "script" (the Claude Code plugin's), or another *)
(* tool's.  Agents without nested rules have one entry in each.            *)
(***************************************************************************)
EXTENDS Naturals, Sequences, SequencesExt

CONSTANT Wired   \* the events an installer wires

Others == {"t1", "t2"}   \* entries of other tools
Entries == {"ours", "stale", "retired", "script"} \cup Others

\* What a file holds: nothing, white space, what cannot be parsed or is no
\* object, or a document.
NoHooks == [is |-> "none", events |-> << >>]
NotObject == [is |-> "other", events |-> << >>]
Hooks(events) == [is |-> "object", events |-> events]
Empty == [hooks |-> NoHooks, flags |-> {}]
List(rules) == [array |-> TRUE, rules |-> rules]
NotList == [array |-> FALSE, rules |-> << <<"t1">> >>]

\* value_targets_provider, and Claude Code's wider test.
Targets(entry) == entry \in {"ours", "stale"}
TargetsClaude(entry) == entry \in Entries \ Others

Has(rule) == \E i \in DOMAIN rule : Targets(rule[i])
\* A document, as far as its shape goes.
DocOK(doc) ==
    /\ doc = [hooks |-> [is |-> doc.hooks.is, events |-> doc.hooks.events],
              flags |-> doc.flags]
    /\ \A k \in DOMAIN doc.hooks.events :
            doc.hooks.events[k] = [array |-> doc.hooks.events[k].array,
                                   rules |-> doc.hooks.events[k].rules]

HasOurs(doc) ==
    \E k \in DOMAIN doc.hooks.events :
        /\ doc.hooks.events[k].array
        /\ \E r \in DOMAIN doc.hooks.events[k].rules :
              \E i \in DOMAIN doc.hooks.events[k].rules[r] :
                  TargetsClaude(doc.hooks.events[k].rules[r][i])

\* hook_command_entry, and generate_hooks_config: one rule with one entry for
\* every wired event.
OurRule == <<"ours">>
Generated == [k \in Wired |-> List(<<OurRule>>)]

-----------------------------------------------------------------------------
(***************************************************************************)
(* Taking our entries out of a map of events.                              *)
(***************************************************************************)
Without(events, keys) == [k \in DOMAIN events \ keys |-> events[k]]

\* The elements of a sequence that are in a set.
Kept(seq, S) ==
    LET kept[n \in 0..Len(seq)] ==
            IF n = 0 THEN << >>
            ELSE IF seq[n] \in S THEN Append(kept[n - 1], seq[n]) ELSE kept[n - 1]
    IN  kept[Len(seq)]

RulesWithout(rules) == Kept(rules, Seq({e \in Entries : ~Targets(e)}))
\* The rules with the entries that stay, those left empty dropped.
Entrywise(rules, stay) ==
    LET kept == [r \in DOMAIN rules |-> Kept(rules[r], stay)]
    IN  Kept(kept, Seq(Entries) \ {<< >>})
CodexEntries(rules) == Entrywise(rules, {e \in Entries : ~Targets(e)})
ClaudeEntries(rules, retiredOnly) ==
    Entrywise(rules, {e \in Entries : IF retiredOnly THEN e # "retired" ELSE ~TargetsClaude(e)})

\* OpenHands drops every rule that holds one of ours, and an event that this
\* leaves empty.
RemoveRules(events) ==
    LET kept == [k \in DOMAIN events |->
                    IF events[k].array THEN List(RulesWithout(events[k].rules))
                    ELSE events[k]]
    IN  Without(kept, {k \in DOMAIN kept :
                          kept[k] # events[k] /\ kept[k].rules = << >>})

\* So does Hermes, whose rules are entries.
RemoveHermes(events) == RemoveRules(events)

\* Copilot drops, besides, an event that is no list but ours.
RemoveCopilot(events) ==
    RemoveRules(Without(events, {k \in DOMAIN events :
        ~events[k].array /\ \E r \in DOMAIN events[k].rules : Has(events[k].rules[r])}))

\* Codex drops our entries, then the rules of a changed event that are empty.
RemoveCodex(events) ==
    LET kept == [k \in DOMAIN events |->
                    IF events[k].array /\ \E r \in DOMAIN events[k].rules :
                                              Has(events[k].rules[r])
                    THEN List(CodexEntries(events[k].rules))
                    ELSE events[k]]
    IN  Without(kept, {k \in DOMAIN kept :
                          kept[k] # events[k] /\ kept[k].rules = << >>})

\* Claude Code drops our entries, and every empty rule and event.
CleanedClaude(events, retiredOnly) ==
    LET kept == [k \in DOMAIN events |->
                    IF events[k].array THEN List(ClaudeEntries(events[k].rules, retiredOnly))
                    ELSE events[k]]
    IN  Without(kept, {k \in DOMAIN kept : kept[k].array /\ kept[k].rules = << >>})

RemoveClaude(doc, retiredOnly) ==
    LET cleaned == CleanedClaude(doc.hooks.events, retiredOnly)
    IN  IF doc.hooks.is # "object" \/ cleaned = doc.hooks.events THEN doc
        ELSE [doc EXCEPT !.hooks = IF DOMAIN cleaned = {} THEN NoHooks
                                   ELSE Hooks(cleaned)]

-----------------------------------------------------------------------------
(***************************************************************************)
(* Splicing ours in.  An event of the file that is no list is replaced.    *)
(***************************************************************************)
Merge(events, first) ==
    [k \in DOMAIN events \cup Wired |->
        IF k \notin Wired THEN events[k]
        ELSE IF k \in DOMAIN events /\ events[k].array
        THEN List(IF first THEN Generated[k].rules \o events[k].rules
                  ELSE events[k].rules \o Generated[k].rules)
        ELSE Generated[k]]

\* Mutant: ours go in beside the ones that are there.
MergeTwice(doc, removed, first) ==
    [doc EXCEPT !.hooks = Hooks(IF doc.hooks.is = "object"
                                THEN Merge(doc.hooks.events, first)
                                ELSE Generated)]

\* removed is what the agent's removal leaves of the events.
MergeInto(doc, removed, first) ==
    [doc EXCEPT !.hooks = Hooks(IF doc.hooks.is = "object" THEN Merge(removed, first)
                                ELSE Generated)]

\* Antigravity has a map of named hooks; ours is one of them.
ApplyAntigravity(doc) == [doc EXCEPT !.hooks = Hooks(Generated)]
RevokeAntigravity(doc) == [doc EXCEPT !.hooks = NoHooks]

ApplyCursor(doc) ==
    [hooks |-> Hooks(Generated), flags |-> doc.flags \cup {"version"}]
RevokeCursor(doc) == [doc EXCEPT !.hooks = NoHooks]

ApplyGemini(doc) == [doc EXCEPT !.hooks = Hooks(Generated)]
RevokeGemini(doc) == [doc EXCEPT !.hooks = NoHooks]

ApplyOpenhands(doc) == MergeInto(doc, RemoveRules(doc.hooks.events), FALSE)
ApplyCodex(doc) == MergeInto(doc, RemoveCodex(doc.hooks.events), FALSE)

ApplyClaude(doc) ==
    LET removed == RemoveClaude(doc, FALSE)
    IN  MergeInto(doc, removed.hooks.events, TRUE)

\* A file that is no map of hooks starts a new one; disableAllHooks is kept.
ApplyCopilot(doc) ==
    [MergeInto(doc, RemoveCopilot(doc.hooks.events), TRUE) EXCEPT
        !.flags = (@ \ {"enabled"}) \cup {"version"}
                  \cup (IF "disabled" \in @ THEN {} ELSE {"enabled"})]

\* hooks_auto_accept, and a key that says whether it was written for the user.
ApplyHermes(doc, autoAccept) ==
    [MergeInto(doc, RemoveHermes(doc.hooks.events), TRUE) EXCEPT
        !.flags = IF ~autoAccept THEN @
                  ELSE @ \cup {"autoAccept"}
                         \cup (IF "autoAccept" \in @ THEN {} ELSE {"autoManaged"})]

\* VS Code's file is ours alone.
ApplyVscode(doc) == [hooks |-> Hooks(Generated), flags |-> {}]
RevokeVscode(doc) == Empty

\* Revoking leaves out a map that it emptied, and nothing if nothing was ours.
Revoked(doc, removed) ==
    IF doc.hooks.is # "object" \/ removed = doc.hooks.events THEN doc
    ELSE [doc EXCEPT !.hooks = IF DOMAIN removed = {} THEN NoHooks ELSE Hooks(removed)]

RevokeOpenhands(doc) == Revoked(doc, RemoveRules(doc.hooks.events))
RevokeCodex(doc) == Revoked(doc, RemoveCodex(doc.hooks.events))
RevokeCopilot(doc) == Revoked(doc, RemoveCopilot(doc.hooks.events))
RevokeHermes(doc) ==
    LET revoked == Revoked(doc, RemoveHermes(doc.hooks.events))
    IN  IF revoked = doc THEN doc
        ELSE [revoked EXCEPT
                !.flags = @ \ (IF "autoManaged" \in @
                               THEN {"autoManaged", "autoAccept"} ELSE {})]

Apply(agent, doc, autoAccept) ==
    CASE agent = "antigravity" -> ApplyAntigravity(doc)
      [] agent = "claude"      -> ApplyClaude(doc)
      [] agent = "codex"       -> ApplyCodex(doc)
      [] agent = "copilot"     -> ApplyCopilot(doc)
      [] agent = "cursor"      -> ApplyCursor(doc)
      [] agent = "gemini"      -> ApplyGemini(doc)
      [] agent = "hermes"      -> ApplyHermes(doc, autoAccept)
      [] agent = "openhands"   -> ApplyOpenhands(doc)
      [] agent = "vscode"      -> ApplyVscode(doc)

Revoke(agent, doc) ==
    CASE agent = "antigravity" -> RevokeAntigravity(doc)
      [] agent = "claude"      -> RemoveClaude(doc, FALSE)
      [] agent = "codex"       -> RevokeCodex(doc)
      [] agent = "copilot"     -> RevokeCopilot(doc)
      [] agent = "cursor"      -> RevokeCursor(doc)
      [] agent = "gemini"      -> RevokeGemini(doc)
      [] agent = "hermes"      -> RevokeHermes(doc)
      [] agent = "openhands"   -> RevokeOpenhands(doc)
      [] agent = "vscode"      -> RevokeVscode(doc)

\* remove_when: whether an uninstall deletes the file instead of writing it.
RemoveWhen(agent, doc) ==
    \/ /\ agent \in {"antigravity", "codex", "copilot", "hermes", "openhands", "vscode"}
       /\ doc = Empty
    \/ /\ agent = "copilot"
       /\ doc.hooks = NoHooks /\ doc.flags = {"version", "enabled"}
=============================================================================
