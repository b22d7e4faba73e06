------------------------------- MODULE Settings -------------------------------
(***************************************************************************)
(* What `sondera serve` starts with (settings/src/lib.rs, provider/src,    *)
(* main.rs and the build of the Cedar harness): the `.sondera` directories *)
(* of the project and of the user, the settings merged from both, the      *)
(* policy assets and the model clients.                                    *)
(*                                                                         *)
(* A table of settings is a function on the keys that it sets.  Of the     *)
(* keys of a model, project, location and temperature fare like `model`.   *)
(***************************************************************************)
EXTENDS Naturals, Sequences, FiniteSets, TLC

None == "none"
Unset == << >>                          \* the table that sets nothing
Get(table, key, default) == IF key \in DOMAIN table THEN table[key] ELSE default
Failure(why) == [ok |-> FALSE, why |-> why]

-----------------------------------------------------------------------------
(***************************************************************************)
(* Providers (provider/src/provider.rs).                                   *)
(***************************************************************************)
FixedEndpoint == {"huggingface", "mira", "together", "xai"}
KeyedProviders ==
    FixedEndpoint \cup {"anthropic", "cohere", "deepseek", "gemini", "groq", "hyperbolic",
                        "moonshot", "openai", "openrouter", "perplexity"}
Providers == KeyedProviders \cup {"azure", "ollama", "vertexai"}

\* Provider::from_str
Aliases ==
    [p \in Providers |-> p] @@ [hf |-> "huggingface", vertex |-> "vertexai"]
    @@ ("openai-compatible" :> "openai") @@ ("openai-api" :> "openai")
    @@ ("vertex-ai" :> "vertexai") @@ ("vertex_ai" :> "vertexai")

\* Provider::client: where it sends content, and the credential it sends.
Client(config) ==
    LET url == Get(config, "base_url", None)
        to(endpoint, key) == [ok |-> TRUE, provider |-> config.provider,
                              endpoint |-> endpoint, key |-> key, model |-> config.model]
    IN  CASE config.provider = "azure" /\ url = None -> Failure("no base url")
          [] config.provider = "azure" /\ url # None -> to(url, config.api_key)
          [] config.provider = "ollama"              -> to(url, None)
          [] config.provider = "vertexai"            -> to("cloud", None)
          [] config.provider \in FixedEndpoint       -> to(None, config.api_key)
          [] config.provider \in KeyedProviders \ FixedEndpoint -> to(url, config.api_key)

-----------------------------------------------------------------------------
(***************************************************************************)
(* Discovery.  `above` are the directories from the working directory up;  *)
(* `dirs` gives the contents of each `.sondera` directory there is.        *)
(***************************************************************************)
IsDir(s, d) == d \in DOMAIN s.dirs

FindProjectConfigDir(s) ==
    LET found == SelectSeq(s.above, LAMBDA d : IsDir(s, d))
    IN  IF found = << >> THEN None ELSE found[1]

ProjectDir(s) == IF s.configDir # None THEN s.configDir ELSE FindProjectConfigDir(s)

\* Nearest first.
ConfigDirs(s) == SelectSeq(<<ProjectDir(s), s.home>>, LAMBDA d : IsDir(s, d))

-----------------------------------------------------------------------------
(***************************************************************************)
(* Layers: one table each for the harness, for what both guardrails share, *)
(* for either guardrail and for the scanner.                               *)
(***************************************************************************)
EmptyLayer == [t \in {"harness", "shared", "data", "policy", "scanner"} |-> Unset]

\* RawModel::validate
Named(table) ==
    IF "provider" \in DOMAIN table THEN [table EXCEPT !.provider = Aliases[@]] ELSE table
Understood(raw) ==
    /\ \A t \in DOMAIN raw : "provider" \in DOMAIN raw[t] => raw[t].provider \in DOMAIN Aliases
    /\ Get(raw.harness, "addr", None) # "no address"

\* load_layer: no file, or no directory, is an empty layer.
LoadLayer(s, d) ==
    IF ~IsDir(s, d) THEN [ok |-> TRUE, layer |-> EmptyLayer]
    ELSE LET file == s.dirs[d].file
         IN  CASE file.kind = "absent" -> [ok |-> TRUE, layer |-> EmptyLayer]
               [] file.kind \in {"unreadable", "unparsed"} -> Failure(file.kind)
               [] file.kind = "read" ->
                    IF Understood(file.raw)
                    THEN [ok |-> TRUE, layer |-> [t \in DOMAIN file.raw |-> Named(file.raw[t])]]
                    ELSE Failure("not understood")

\* Mutant: each file is resolved by itself before the two are merged.
LayerByFile(nearer, lower) ==
    LET own(l, t) == IF t \in {"data", "policy"} THEN l[t] @@ l.shared ELSE l[t]
    IN  [t \in DOMAIN nearer |-> own(nearer, t) @@ own(lower, t)]

LayerOr(nearer, lower) == [t \in DOMAIN nearer |-> nearer[t] @@ lower[t]]

-----------------------------------------------------------------------------
(***************************************************************************)
(* Resolved settings.                                                      *)
(***************************************************************************)
GuardrailDefaults ==
    [provider |-> "ollama", api_key |-> "", base_url |-> "localhost",
     model |-> "gpt-oss-safeguard:20b"]
ScannerDefaults == [GuardrailDefaults EXCEPT !.model = "gpt-oss:20b"]

\* env_override: a variable that is empty counts as not set.
EnvOverride(value) == IF value \in {None, ""} THEN Unset ELSE [api_key |-> value]

\* resolve_base_url: the default server goes with the default provider only.
ModelConfig(table, env, defaults) ==
    LET set == EnvOverride(env) @@ table
        fits == Get(set, "provider", defaults.provider) = defaults.provider
        keys == IF fits THEN DOMAIN defaults ELSE DOMAIN defaults \ {"base_url"}
    IN  set @@ [k \in keys |-> defaults[k]]

FromLayer(l, s) ==
    [ok |-> TRUE, addr |-> Get(l.harness, "addr", None),
     guardrails |-> Get(l.harness, "guardrails", FALSE),
     scans |-> Get(l.harness, "scans", FALSE),
     data |-> ModelConfig(l.data @@ l.shared, s.env, GuardrailDefaults),
     policy |-> ModelConfig(l.policy @@ l.shared, s.env, GuardrailDefaults),
     scanner |-> ModelConfig(l.scanner, s.scannerEnv, ScannerDefaults)]

Load(s) ==
    IF s.configDir # None /\ ~IsDir(s, s.configDir) THEN Failure("no such directory")
    ELSE LET user == LoadLayer(s, s.home)
             project == LoadLayer(s, ProjectDir(s))
         IN  IF ~user.ok THEN user
             ELSE IF ~project.ok THEN project
             ELSE FromLayer(LayerOr(project.layer, user.layer), s)

-----------------------------------------------------------------------------
(***************************************************************************)
(* Policies (types/src/policy.rs).  The Cedar asset is a directory; `files`*)
(* are those below it, in path order.  A policy is its place, and is told  *)
(* apart by its @id, or else by the number it has in its file.             *)
(***************************************************************************)
\* collect_cedar_files
Sources(files) == SelectSeq(files, LAMBDA f : f.kind \in {"cedar", "cedarschema"})

Places(files) ==
    UNION {{<<i, n>> : n \in DOMAIN files[i].ids} : i \in DOMAIN files}
PolicyId(files, place) ==
    LET id == files[place[1]].ids[place[2]]
    IN  IF id = "" THEN "policy" \o ToString(place[2] - 1) ELSE id

\* StaticPolicyStore::load_with_mode
LoadPolicies(files) ==
    LET from == Sources(files)
        id(p) == PolicyId(from, p)
        fragments == {i \in DOMAIN from : from[i].kind = "cedarschema"}
    IN  CASE \E i \in DOMAIN from : from[i].text # "read" -> Failure("unread")
          [] OTHER ->
             IF \E p, q \in Places(from) : p # q /\ id(p) = id(q) THEN Failure("duplicate id")
             ELSE IF fragments = {} THEN Failure("no schema")
             ELSE IF \E i, j \in fragments : i # j /\ from[i].declares \cap from[j].declares # {}
                  THEN Failure("schema")
             ELSE [ok |-> TRUE,
                   rules |-> [name \in {id(p) : p \in Places(from)} |->
                                CHOOSE p \in Places(from) : id(p) = name]]

-----------------------------------------------------------------------------
(***************************************************************************)
(* Start.                                                                  *)
(***************************************************************************)
Has(dir, asset) ==
    IF asset = "cedar" THEN dir.cedar.kind = "dir" ELSE dir[asset] # "absent"

\* PolicyAssets::pick
Pick(s, asset) ==
    LET having == SelectSeq(ConfigDirs(s), LAMBDA d : Has(s.dirs[d], asset))
    IN  IF having = << >> THEN None ELSE having[1]

Missing(s) == \E a \in {"cedar", "ifc", "policies"} : Pick(s, a) = None

\* load_policy_model: a file without templates leaves the classifier off.
LoadPolicyModel(templates, config) ==
    CASE templates = "broken" -> Failure("templates")
      [] templates = "empty"  -> [ok |-> TRUE, provider |-> None]
      [] templates = "some"   -> Client(config)
LoadDataModel(labels, config) ==
    IF labels = "broken" THEN Failure("labels") ELSE Client(config)

Off == [ok |-> TRUE, provider |-> None]

\* CedarPolicyHarness::build, on the assets found.
Build(s, settings) ==
    LET from(asset) == s.dirs[Pick(s, asset)][asset]
        loaded == LoadPolicies(from("cedar").files)
        data == IF settings.guardrails THEN LoadDataModel(from("ifc"), settings.data) ELSE Off
        policy == IF settings.guardrails
                  THEN LoadPolicyModel(from("policies"), settings.policy) ELSE Off
    IN  IF Missing(s) THEN Failure("assets")
        ELSE IF ~loaded.ok THEN loaded
        ELSE IF ~data.ok THEN data
        ELSE IF ~policy.ok THEN policy
        ELSE [ok |-> TRUE, rules |-> loaded.rules, data |-> data, policy |-> policy]

\* scan_dispatcher
Scanner(settings) == IF settings.scans THEN Client(settings.scanner) ELSE Off

\* run_serve, to where it binds its address.
Serve(s) ==
    LET settings == Load(s)
        scanner == Scanner(settings)
        built == Build(s, settings)
    IN  CASE ~settings.ok -> settings
          [] OTHER ->
             IF ~scanner.ok THEN scanner
             ELSE IF ~built.ok THEN built
             ELSE [scanner |-> scanner,
                   addr |-> IF s.addr # None THEN s.addr
                            ELSE IF settings.addr # None THEN settings.addr ELSE "default"]
                  @@ built

-----------------------------------------------------------------------------
(***************************************************************************)
(* What the file formats promise (lib.rs:22-35, :56-58, :71-72).  The      *)
(* first place that sets a key counts: the environment, then the           *)
(* guardrail's own table in the nearer file and in the other, then the     *)
(* shared table of either; nothing of the guardrails reaches the scanner.  *)
(* No file that is there is passed over when it is faulty, even if the     *)
(* other one would have settled every key, and without an `enabled = true` *)
(* no model is called.  A harness that starts has every policy of the      *)
(* nearest policy directory in force, none in the place of another, or     *)
(* does not start (policy.rs:279-294).                                     *)
(***************************************************************************)
RawOf(s, d) ==
    IF IsDir(s, d) /\ s.dirs[d].file.kind = "read" THEN s.dirs[d].file.raw ELSE EmptyLayer
Tables(s, guardrail) ==
    LET near == RawOf(s, ProjectDir(s))  far == RawOf(s, s.home)
    IN  IF guardrail = "scanner"
        THEN <<EnvOverride(s.scannerEnv), near.scanner, far.scanner>>
        ELSE <<EnvOverride(s.env), near[guardrail], far[guardrail], near.shared, far.shared>>
Settled(s, guardrail, key, default) ==
    LET set == SelectSeq(Tables(s, guardrail), LAMBDA p : key \in DOMAIN p)
    IN  IF set = << >> THEN default ELSE set[1][key]

ServesWhatIsConfigured(s) ==
    LET served == Serve(s)
        flag(name) == \/ Get(RawOf(s, ProjectDir(s)).harness, name, FALSE)
                      \/ /\ name \notin DOMAIN RawOf(s, ProjectDir(s)).harness
                         /\ Get(RawOf(s, s.home).harness, name, FALSE)
    IN  served.ok =>
          /\ \A d \in {s.home, ProjectDir(s)} :
                IsDir(s, d) => \/ s.dirs[d].file.kind = "absent"
                               \/ s.dirs[d].file.kind = "read" /\ Understood(s.dirs[d].file.raw)
          /\ \A g \in {"data", "policy", "scanner"} :
                served[g].provider # None =>
                    LET p == Aliases[Settled(s, g, "provider", "ollama")]
                    IN  /\ flag(IF g = "scanner" THEN "scans" ELSE "guardrails")
                        /\ served[g].provider = p
                        /\ served[g].model = Settled(s, g, "model",
                              IF g = "scanner" THEN ScannerDefaults.model ELSE GuardrailDefaults.model)
                        /\ served[g].endpoint \in
                              {"cloud", None,
                               Settled(s, g, "base_url", IF p = "ollama" THEN "localhost" ELSE None)}
                        /\ served[g].key \in {None, Settled(s, g, "api_key", "")}
          /\ flag("guardrails") => served.data.provider # None
          /\ LET from == Sources(s.dirs[Pick(s, "cedar")].cedar.files)
             IN  /\ Places(from) = {served.rules[name] : name \in DOMAIN served.rules}
                 /\ Cardinality(Places(from)) = Cardinality(DOMAIN served.rules)
                 /\ \A i \in DOMAIN from : from[i].text = "read"
===============================================================================
