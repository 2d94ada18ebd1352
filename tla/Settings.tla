------------------------------ MODULE Settings ------------------------------
(***************************************************************************)
(* The one settings object: how `load_settings` assembles it from its      *)
(* layers and when it refuses.                                             *)
(*                                                                         *)
(* A layer maps the keys that it sets to their values.  A key is the path  *)
(* of a setting, <<field>> or <<section, key>>, or the name of a variable  *)
(* that is none.  A text is "" or "text", a URL "url", a positive amount   *)
(* "positive", and COMPOSE_PROFILES the set of names it is split into.     *)
(***************************************************************************)
EXTENDS Sequences, TLC

CONSTANTS
    Yaml,     \* what config/<name>.yaml sets; a file that is missing sets nothing
    None      \* a setting that nobody has set

Blank == ""

Environment == {"local", "dev", "prod"}
DEFAULT_ENV == "local"
ComposeProfile == {"lab", "obs"}
LOCAL_ONLY_PROFILES == {"lab"}

STUB_SELECTIONS ==
    [auth |-> "AllowAll", governance |-> "NoopGovernance", model |-> "RecordedModel",
     platform |-> "FixturePlatform", channel |-> "FakeChannel",
     ticketing |-> "FixtureTicketing", memory |-> "InMemoryStore"]

\* The Literal of each port of PortSelection; the first is the default.
Selections ==
    [auth |-> <<"AllowAll", "HostVerifier">>,
     governance |-> <<"NoopGovernance", "HostPolicy">>,
     tenancy |-> <<"SingleTenant">>,
     model |-> <<"RecordedModel", "DirectProvider">>,
     platform |-> <<"FixturePlatform", "HostPlatform">>,
     channel |-> <<"FakeChannel", "Slack">>,
     ticketing |-> <<"FixtureTicketing", "Linear">>,
     memory |-> <<"InMemoryStore", "Postgres">>]

Ports == DOMAIN Selections

PLANNED_SELECTIONS ==
    {"HostVerifier", "HostPolicy", "HostPlatform", "DirectProvider", "Slack", "Linear",
     "Postgres"}

\* What an adapter cannot work without, by the selection that enables it.
CREDENTIALS_FOR ==
    [DirectProvider |-> {<<"model", "worker">>, <<"model", "synthesis">>, <<"model", "api_key">>},
     Slack |-> {<<"slack", "bot_token">>, <<"slack", "app_token">>, <<"slack", "channel_id">>},
     Linear |-> {<<"ticketing", "api_key">>, <<"ticketing", "team_id">>}]

BARE_SECRET_VARS ==
    [SLACK_BOT_TOKEN |-> <<"slack", "bot_token">>,
     SLACK_APP_TOKEN |-> <<"slack", "app_token">>,
     LINEAR_API_KEY |-> <<"ticketing", "api_key">>]

\* The variables that end in COMPOSE_ONLY_SUFFIX.
HostPortVars == {<<"APP_HOST_PORT">>, <<"PROMETHEUS_HOST_PORT">>, <<"PHOENIX_HOST_PORT">>}

WebhookSources == {"grafana", "datadog", "pagerduty", "generic"}

-----------------------------------------------------------------------------
(* The fields of Settings and of its sections *)

Required == {<<"database", "url">>, <<"redis", "url">>}
Amounts == {<<"budget", "max_usd_per_run">>, <<"embedding", "dimension">>}
Urls == Required \cup {<<"tools", "prometheus_url">>, <<"tools", "loki_url">>}
Texts ==
    (UNION {CREDENTIALS_FOR[s] : s \in DOMAIN CREDENTIALS_FOR})
        \cup {<<"ticketing", "project_id">>, <<"embedding", "model">>}
        \cup {<<"webhooks", s>> : s \in WebhookSources}

Fields ==
    {<<"env">>, <<"compose_profiles">>} \cup Urls \cup Amounts \cup Texts
        \cup {<<"ports", p>> : p \in Ports}

\* Whether the type of field k admits v.
Admits(k, v) ==
    CASE k = <<"env">> -> v \in Environment
      [] k = <<"compose_profiles">> -> v \subseteq ComposeProfile
      [] k \in Urls -> v = "url"
      [] k \in Amounts -> v = "positive"
      [] k \in Texts -> v \in {Blank, "text"}
      [] k[1] = "ports" -> \E i \in DOMAIN Selections[k[2]] : v = Selections[k[2]][i]

Default(k) ==
    CASE k = <<"env">> -> DEFAULT_ENV
      [] k = <<"compose_profiles">> -> {}
      [] k[1] = "ports" -> Selections[k[2]][1]
      [] OTHER -> None

-----------------------------------------------------------------------------
(* The layers *)

Only(layer, keys) == [k \in DOMAIN layer \cap keys |-> layer[k]]
Nothing == [k \in {} |-> None]

\* One layer over another: what `top` sets it takes from `top`.
Over(top, rest) ==
    [k \in DOMAIN top \cup DOMAIN rest |-> IF k \in DOMAIN top THEN top[k] ELSE rest[k]]

\* A value that is there and is not blank: what `or` passes on.
Given(layer, k) == k \in DOMAIN layer /\ layer[k] # Blank

\* Mutant: the file of the default environment is always the one layered in.
Mut_resolve_env(flags, environ) == DEFAULT_ENV

\* The environment whose file is layered in.
_resolve_env(flags, environ) ==
    IF Given(flags, <<"env">>) THEN flags[<<"env">>]
    ELSE IF Given(environ, <<"env">>) THEN environ[<<"env">>]
    ELSE DEFAULT_ENV

IsSetting(k) == Len(k) = 2 \/ k \in Fields

\* The process environment holds other programs' variables, which are not read;
\* in `.env` an unknown variable is kept unless it is blank.
FromEnviron(environ) == Only(environ, {k \in DOMAIN environ : IsSetting(k)})
FromDotenv(dotenv) ==
    Only(dotenv, {k \in DOMAIN dotenv : IsSetting(k) \/ Given(dotenv, k)})

YamlFile(name) == IF name \in DOMAIN Yaml THEN Yaml[name] ELSE Nothing

\* settings_customise_sources: highest precedence first.
Layered(flags, environ, dotenv) ==
    Over(flags, Over(FromEnviron(environ), Over(FromDotenv(dotenv),
        Over(YamlFile(_resolve_env(flags, environ)), YamlFile("base")))))

BareVars == {<<v>> : v \in DOMAIN BARE_SECRET_VARS}

\* What variable v, which has no prefix, says: the process's, or else a layer's.
BareSecret(data, environ, v) ==
    IF Given(environ, <<v>>) THEN environ[<<v>>]
    ELSE IF <<v>> \in DOMAIN data THEN data[<<v>>] ELSE None

\* Compose's variables go; a bare secret fills its setting when no layer has it.
_reconcile_shared_env(data, environ) ==
    LET secrets == {v \in DOMAIN BARE_SECRET_VARS : BareSecret(data, environ, v) # None}
    IN  Over(Only(data, DOMAIN data \ (HostPortVars \cup BareVars)),
             [k \in {BARE_SECRET_VARS[v] : v \in secrets} |->
                 BareSecret(data, environ, CHOOSE v \in secrets : BARE_SECRET_VARS[v] = k)])

-----------------------------------------------------------------------------
(* The gates *)

_present(v) == v # None /\ v # Blank

stubbed(s) == {p \in DOMAIN STUB_SELECTIONS : s[<<"ports", p>>] = STUB_SELECTIONS[p]}
unimplemented(s) == {p \in Ports : s[<<"ports", p>>] \in PLANNED_SELECTIONS}
uncredentialed(s) ==
    {p \in Ports : \E a \in DOMAIN CREDENTIALS_FOR :
        s[<<"ports", p>>] = a /\ \E k \in CREDENTIALS_FOR[a] : ~_present(s[k])}

\* Mutant: every gate is a gate of prod.
Mut_fail_closed(s) ==
    s[<<"env">>] = "prod" =>
        /\ stubbed(s) = {} /\ s[<<"budget", "max_usd_per_run">>] # None
        /\ unimplemented(s) = {} /\ uncredentialed(s) = {}
        /\ s[<<"compose_profiles">>] \cap LOCAL_ONLY_PROFILES = {}

\* _fail_closed finds no problem with the settings.
_fail_closed(s) ==
    /\ s[<<"env">>] = "prod" => stubbed(s) = {} /\ s[<<"budget", "max_usd_per_run">>] # None
    /\ unimplemented(s) = {}
    /\ s[<<"compose_profiles">>] \cap LOCAL_ONLY_PROFILES = {} \/ s[<<"env">>] = "local"
    /\ uncredentialed(s) = {}

\* Every required setting is there, nothing is unknown, and the types hold.
WellFormed(data) ==
    /\ Required \subseteq DOMAIN data
    /\ DOMAIN data \subseteq Fields
    /\ \A k \in DOMAIN data : Admits(k, data[k])

Settled(data) == [k \in Fields |-> IF k \in DOMAIN data THEN data[k] ELSE Default(k)]

\* The settings that the layers make, whether or not they are accepted.
Assemble(flags, environ, dotenv) ==
    _reconcile_shared_env(Layered(flags, environ, dotenv), environ)

-----------------------------------------------------------------------------
(* What a refusal tells the operator to change *)

Blamed(s) ==
    unimplemented(s) \cup uncredentialed(s) \cup (IF s[<<"env">>] = "prod" THEN stubbed(s) ELSE {})
Unset(s) ==
    UNION {{k \in CREDENTIALS_FOR[s[<<"ports", p>>]] : ~_present(s[k])} : p \in uncredentialed(s)}
LabAbroad(s) == s[<<"compose_profiles">>] \cap LOCAL_ONLY_PROFILES # {} /\ s[<<"env">>] # "local"

\* Mutant: the environment is not named with the substitutes that it refuses.
MutProblems(s) ==
    {<<"ports", p>> : p \in Blamed(s)} \cup Unset(s)
    \cup {k \in {<<"budget", "max_usd_per_run">>} : s[<<"env">>] = "prod" /\ s[k] = None}
    \cup (IF LabAbroad(s) THEN {<<"compose_profiles">>, <<"env">>} ELSE {})

\* The variables in the messages of _fail_closed, which reports all problems.
Problems(s) ==
    {<<"ports", p>> : p \in Blamed(s)} \cup Unset(s)
    \cup {k \in {<<"budget", "max_usd_per_run">>} : s[<<"env">>] = "prod" /\ s[k] = None}
    \cup (IF LabAbroad(s) THEN {<<"compose_profiles">>, <<"env">>} ELSE {})
    \cup (IF s[<<"env">>] = "prod" /\ stubbed(s) # {} THEN {<<"env">>} ELSE {})

\* A variable that only `.env` knows is named with a prefix that it does not have.
_env_var_for(k) == IF IsSetting(k) THEN k ELSE <<"SMOKEJUMPER__", k[1]>>

\* The gates come after the fields, and are silent when a field is wrong.
_describe(data) ==
    IF WellFormed(data) THEN Problems(Settled(data))
    ELSE {_env_var_for(k) : k \in (Required \ DOMAIN data) \cup
             {k \in DOMAIN data : k \notin Fields \/ ~Admits(k, data[k])}}

\* The variables that load_settings names when it refuses.
Named(flags, environ, dotenv) ==
    IF <<"SMOKEJUMPER__ENV">> \in DOMAIN environ THEN {<<"SMOKEJUMPER__ENV">>}
    ELSE _describe(Assemble(flags, environ, dotenv))

\* load_settings returns Settled(Assemble(...)), or raises a ConfigError.
Loads(flags, environ, dotenv) ==
    /\ <<"SMOKEJUMPER__ENV">> \notin DOMAIN environ
    /\ \E data \in {Assemble(flags, environ, dotenv)} :
          WellFormed(data) /\ _fail_closed(Settled(data))
=============================================================================
