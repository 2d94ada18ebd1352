------------------------------- MODULE Deploy -------------------------------
(***************************************************************************)
(* Starting the program: an operator edits `.env` and the shell, runs the  *)
(* host-port preflight and `check-config`, and starts the container, which *)
(* migrates the database and then boots.  The container's environment is   *)
(* what docker-compose.yml hands it when it is created; there is no `.env` *)
(* in the image.                                                           *)
(***************************************************************************)
EXTENDS Settings, Integers, FiniteSets

CONSTANTS
    Templates,        \* what `.env` may hold at first
    DotenvEdits,      \* the <<key, value>> edits of `.env`; value None unsets
    ShellEdits,       \* the same for the operator's shell
    MaxEdits,         \* bound on edits
    MaxInterventions, \* bound on edits, which count twice, and downgrades together
    HostPorts,        \* host ports that other programs may take
    Events, MaxDowngrades

VARIABLES
    dotenv, shell,    \* layers
    taken,            \* host ports that another program has bound
    preflight,        \* check_host_ports.py since the last change: "none", "pass", "fail"
    verdict,          \* check-config on the host since the last change, likewise
    container,        \* the app container
    edits,
    revision, row, ticket, unacked, downgrades, offered, acts, recovered, low

Db == INSTANCE Migrations

configuration == <<dotenv, shell, edits>>
checked == <<preflight, verdict>>
dbvars == <<revision, row, ticket, unacked, downgrades, offered, acts, recovered, low>>
vars == <<configuration, taken, checked, container, dbvars>>

NoContainer == [state |-> "absent", environ |-> Nothing, port |-> "none"]

-----------------------------------------------------------------------------
(* docker compose *)

\* A variable as compose substitutes it: the shell's before that of `.env`.
Host == Over(shell, dotenv)

HostPort ==
    IF Given(Host, <<"APP_HOST_PORT">>) THEN Host[<<"APP_HOST_PORT">>] ELSE "8000"

Forwarded ==
    {<<"env">>, <<"compose_profiles">>} \cup Required \cup {<<"webhooks", s>> : s \in WebhookSources}

SpendCeiling == <<"budget", "max_usd_per_run">>

\* No file under config/ sets what compose forwards: URLs and secrets come from
\* the environment, and SMOKEJUMPER_ENV selects the file (config/base.yaml).
\* They set nothing but settings, and a spend ceiling that one sets is positive.
\* Neither they nor `.env` set a key to None, which is a key that is not set.
ASSUME DeployAssumption ==
    /\ \A name \in DOMAIN Yaml :
          /\ DOMAIN Yaml[name] \cap Forwarded = {}
          /\ SpendCeiling \in DOMAIN Yaml[name] => Yaml[name][SpendCeiling] = "positive"
          /\ \A k \in DOMAIN Yaml[name] : IsSetting(k) /\ Yaml[name][k] # None
    /\ \A template \in Templates : \A k \in DOMAIN template : template[k] # None
    /\ MaxEdits \in Nat /\ MaxDowngrades \in Nat

\* Mutant: the shell's SMOKEJUMPER_ENV is not forwarded.
MutContainerEnviron ==
    [k \in Forwarded |->
        CASE k = <<"env">> -> DEFAULT_ENV
          [] k = <<"compose_profiles">> -> IF k \in DOMAIN Host THEN Host[k] ELSE {}
          [] k \in Required -> "url"
          [] OTHER -> IF k \in DOMAIN Host THEN Host[k] ELSE Blank]

\* The `environment` of the service.  The URLs are compose's own.
ContainerEnviron ==
    [k \in Forwarded |->
        CASE k = <<"env">> -> IF Given(Host, k) THEN Host[k] ELSE DEFAULT_ENV
          [] k = <<"compose_profiles">> -> IF k \in DOMAIN Host THEN Host[k] ELSE {}
          [] k \in Required -> "url"
          [] OTHER -> IF k \in DOMAIN Host THEN Host[k] ELSE Blank]

-----------------------------------------------------------------------------
(* The preflight *)

INVENTORY ==
    {[profile |-> "default", service |-> "app", host_port |-> "8000"],
     [profile |-> "lab", service |-> "prometheus", host_port |-> "9090"],
     [profile |-> "obs", service |-> "phoenix", host_port |-> "6006"]}

SELECTABLE_PROFILES == {"lab", "obs"}

\* parse_profiles: a name that compose does not define is an error.
parse_profiles(names) == names \subseteq SELECTABLE_PROFILES

\* The running container holds the port it publishes.
is_free(port) ==
    /\ port \notin taken
    /\ ~(container.state \in {"migrating", "booting", "serving"} /\ container.port = port)

\* Mutant: only the profiles asked for are probed.
Mut_selected_ports(profiles) == {p \in INVENTORY : p.profile \in profiles}

selected_ports(profiles) == {p \in INVENTORY : p.profile \in {"default"} \cup profiles}

find_collisions(ports) == {p \in ports : ~is_free(p.host_port)}

-----------------------------------------------------------------------------
(* The operator *)

Init ==
    /\ dotenv \in Templates /\ shell = Nothing /\ edits = 0
    /\ taken = {}
    /\ preflight = "none" /\ verdict = "none"
    /\ container = NoContainer
    /\ Db!Init

\* An edit makes what was checked before it out of date.
Edited(layer, edit) ==
    IF edit[2] = None THEN Only(layer, DOMAIN layer \ {edit[1]})
    ELSE Over([k \in {edit[1]} |-> edit[2]], layer)

Edit ==
    /\ container.state = "absent"
    /\ edits < MaxEdits /\ 2 * (edits + 1) + downgrades <= MaxInterventions
    /\ edits' = edits + 1
    /\ \/ /\ \E e \in DotenvEdits : dotenv' = Edited(dotenv, e)
          /\ UNCHANGED shell
       \/ /\ \E e \in ShellEdits : shell' = Edited(shell, e)
          /\ UNCHANGED dotenv
    /\ preflight' = "none" /\ verdict' = "none"
    /\ UNCHANGED <<taken, container, dbvars>>

\* Another program binds a port of the host, or lets go of it.
TakePort ==
    /\ container.state = "absent"
    /\ \/ \E p \in HostPorts : is_free(p) /\ taken' = taken \cup {p}
       \/ \E p \in taken : taken' = taken \ {p}
    /\ preflight' = "none"
    /\ UNCHANGED <<configuration, verdict, container, dbvars>>

\* scripts/check_host_ports.py; it reads neither `.env` nor the environment.
Preflight ==
    /\ container.state = "absent"
    /\ \E names \in SUBSET (ComposeProfile \cup {"fixtures"}) :
          preflight' = IF parse_profiles(names) /\ find_collisions(selected_ports(names)) = {}
                       THEN "pass" ELSE "fail"
    /\ UNCHANGED <<configuration, taken, verdict, container, dbvars>>

\* `smokejumper check-config` on the host.
check_config ==
    /\ container.state = "absent"
    /\ verdict' = IF Loads(Nothing, shell, dotenv) THEN "valid" ELSE "invalid"
    /\ UNCHANGED <<configuration, taken, preflight, container, dbvars>>

-----------------------------------------------------------------------------
(* The container *)

Become(state) == container' = [container EXCEPT !.state = state]

\* `docker compose up`: the port is bound before the command runs.
Up ==
    /\ container.state = "absent"
    /\ container' = [state |-> IF is_free(HostPort) THEN "migrating" ELSE "unbound",
                     environ |-> ContainerEnviron, port |-> HostPort]
    /\ preflight' = "none" /\ verdict' = "none"
    /\ UNCHANGED <<configuration, taken, dbvars>>

\* `alembic upgrade head`; a failure ends the command.
Migrate ==
    /\ container.state = "migrating"
    /\ IF Db!UpgradeFails
       THEN Become("blocked") /\ preflight' = "none" /\ UNCHANGED dbvars
       ELSE Become("booting") /\ Db!UpgradeHead /\ UNCHANGED preflight
    /\ UNCHANGED <<configuration, taken, verdict>>

\* app_from_env: the settings are loaded and the application is created, or not.
app_from_env ==
    /\ container.state = "booting"
    /\ IF Loads(Nothing, container.environ, Nothing)
       THEN Become("serving") /\ UNCHANGED preflight
       ELSE Become("refused") /\ preflight' = "none"
    /\ UNCHANGED <<configuration, taken, verdict, dbvars>>

\* `docker compose down`, or a crash, at any time.
Stop ==
    /\ container.state # "absent"
    /\ container' = NoContainer
    /\ preflight' = "none"
    /\ UNCHANGED <<configuration, taken, verdict, dbvars>>

\* The program at work, and an operator at the schema.
Serve ==
    /\ container.state = "serving"
    /\ Db!Program
    /\ UNCHANGED <<configuration, taken, checked, container>>

Downgrade ==
    /\ 2 * edits + downgrades < MaxInterventions
    /\ Db!Downgrade
    /\ UNCHANGED <<configuration, taken, checked, container>>

Next ==
    \/ Edit \/ TakePort \/ Preflight \/ check_config
    \/ Up \/ Migrate \/ app_from_env \/ Stop
    \/ Serve \/ Downgrade

Spec == Init /\ [][Next]_vars

-----------------------------------------------------------------------------
(* Properties *)

\* The layers, verdicts, rows and steps are the ones named above.
TypeOK ==
    /\ edits \in 0..MaxEdits /\ downgrades \in 0..MaxDowngrades
    /\ taken \subseteq HostPorts
    /\ preflight \in {"none", "pass", "fail"} /\ verdict \in {"none", "valid", "invalid"}
    /\ container.state \in {"absent", "unbound", "migrating", "blocked", "booting", "refused",
                            "serving"}
    /\ container.state # "absent" => DOMAIN container.environ = Forwarded
    /\ revision \in 0..4 /\ ticket \in {"none", "open", "closed"} /\ unacked \subseteq Events
    /\ row \in [Events -> [window : {"none", "open", "closed"},
                           queue : {"absent", "pending", "queued"},
                           run : {"none", "running", "concluded"},
                           conclusion : BOOLEAN, acted : BOOLEAN]]
    /\ offered \in [Events -> Nat] /\ acts \in [Events -> Nat]
    /\ recovered \subseteq Events /\ low \in [Events -> 0..4]

BootSettings == Settled(Assemble(Nothing, container.environ, Nothing))

\* What serves is built of the substitutes only, and never calls itself prod,
\* whatever the files under config/ and the environment say: prod refuses each
\* substitute, and every other selection is refused everywhere (_fail_closed,
\* STUB_SELECTIONS, PLANNED_SELECTIONS, app_from_env).
OnlyStubsServe ==
    container.state = "serving" =>
        /\ BootSettings[<<"env">>] # "prod"
        /\ stubbed(BootSettings) = DOMAIN STUB_SELECTIONS

\* The settings claim the environment whose file was layered in: in every
\* container, and on the host unless `.env` alone names the environment
\* (_resolve_env reads the process environment, the field `env` also `.env`).
ObjectNamesItsFile ==
    /\ container.state = "serving" =>
          BootSettings[<<"env">>] = _resolve_env(Nothing, container.environ)
    /\ verdict = "valid" /\ (<<"env">> \in DOMAIN shell \/ <<"env">> \notin DOMAIN dotenv) =>
          Settled(Assemble(Nothing, shell, dotenv))[<<"env">>] = _resolve_env(Nothing, shell)

\* Nothing is set that only one side reads, or that the two sides read apart:
\* compose has its own URLs, takes a blank SMOKEJUMPER_ENV for unset, takes one
\* from `.env`, and forwards neither other settings nor the unknown.  A spend
\* ceiling that is one matters to prod alone, which never boots.
SameForBoth ==
    /\ \A k \in Required : k \in DOMAIN Host /\ Host[k] = "url"
    /\ <<"env">> \in DOMAIN Host => Given(shell, <<"env">>) \/ Host[<<"env">>] = DEFAULT_ENV
    /\ DOMAIN Host \subseteq Forwarded \cup HostPortVars \cup {SpendCeiling}
    /\ SpendCeiling \in DOMAIN Host => Host[SpendCeiling] = "positive"

\* Where both read the same, what check-config has said on the host of the
\* configuration as it is now is what the container will do (check_config,
\* app_from_env and the `environment` of the service).
CheckPredictsBoot ==
    verdict # "none" /\ SameForBoth =>
        (verdict = "valid" <=> Loads(Nothing, ContainerEnviron, Nothing))

\* What load_settings sees of key k.
SettingValue(environ, file, k) ==
    LET data == Assemble(Nothing, environ, file)
    IN  IF k \in DOMAIN data THEN data[k] ELSE IF k \in DOMAIN environ THEN environ[k] ELSE None

\* The shell and the `.env` that one more edit can make.
OneEditAway ==
    ({shell} \X {Edited(dotenv, e) : e \in DotenvEdits})
        \cup ({Edited(shell, e) : e \in ShellEdits} \X {dotenv})

\* A refusal names what is wrong: while all that it names stays as it is, nothing
\* that the operator of a new installation edits makes the configuration load
\* (_describe, _env_vars_for and the messages of _fail_closed).  It does not hold
\* of an unknown variable in `.env`, which _env_var_for gives a prefix.
RefusalNamesCause ==
    /\ revision = 0 /\ verdict = "invalid"
    /\ \A k \in DOMAIN dotenv : IsSetting(k) \/ k \in HostPortVars \cup BareVars
    => \A next \in OneEditAway :
          (\A k \in Named(Nothing, shell, dotenv) :
              SettingValue(next[1], next[2], k) = SettingValue(shell, dotenv, k))
          => ~Loads(Nothing, next[1], next[2])

\* When the preflight has passed and nothing has moved since, the container gets
\* its port, unless the port is overridden: the script probes the defaults
\* (find_collisions) and compose binds the override.
PreflightPredictsBind ==
    preflight = "pass" /\ ~Given(Host, <<"APP_HOST_PORT">>) => is_free(HostPort)

\* No sequence of migrations, either way, gives an event to the stream again
\* (0004: "Do not replay them during migration").
OfferedOnce == \A e \in Events : offered[e] <= 1

\* Back at the newest revision, what the tables say of an event is what happened,
\* save what the revisions it was taken below hold: 0004 the queue state and the
\* ledger, 0003 the conclusion, 0002 the closing of the window, 0001 the row.
LossFollowsDepth ==
    revision = Db!Head => \A e \in Events :
        /\ low[e] = 4 => /\ e \in Db!Stored(row) => (row[e].queue = "queued" <=> offered[e] > 0)
                         /\ acts[e] <= 1 /\ (row[e].acted <=> acts[e] = 1)
        /\ low[e] >= 3 => (row[e].run = "concluded" => row[e].conclusion)
        /\ low[e] >= 2 => (row[e].window = "closed" <=> e \in recovered)
        /\ low[e] >= 1 => (offered[e] > 0 => e \in Db!Stored(row))

\* Once a concluded run has lost its conclusion to a downgrade, no container gets
\* past `alembic upgrade head` until the tables are dropped (0003: the check
\* constraint is added to rows that break it).
StuckUntilDropped == [][Db!UpgradeFails => Db!UpgradeFails' \/ revision' = 0]_vars
=============================================================================
