------------------------------ MODULE MCDeploy ------------------------------
(* Instances of Deploy: the files under config/, and edits of `.env` and of  *)
(* the shell that matter to somebody.                                        *)
EXTENDS Deploy

LOCAL Choose(n) == [p \in Ports |-> IF Len(Selections[p]) = 1 THEN 1 ELSE n]
LOCAL Select(choice) ==
    [k \in {<<"ports", p>> : p \in Ports} |-> Selections[k[2]][choice[k[2]]]]

ConfigFiles ==
    [base |-> Nothing,
     local |-> Select(Choose(1)) @@ (<<"budget", "max_usd_per_run">> :> "positive")
                   @@ (<<"tools", "prometheus_url">> :> "url") @@ (<<"tools", "loki_url">> :> "url"),
     dev |-> Select([Choose(2) EXCEPT !.auth = 1, !.governance = 1, !.platform = 1])
                   @@ (<<"budget", "max_usd_per_run">> :> "positive"),
     prod |-> Select(Choose(2))]

\* .env.example, copied or not.
Copied ==
    (<<"env">> :> "local") @@ (<<"compose_profiles">> :> {})
        @@ (<<"database", "url">> :> "url") @@ (<<"redis", "url">> :> "url")
        @@ (<<"budget", "max_usd_per_run">> :> "positive")

Files == {Copied}

InDotenv ==
    {<<<<"env">>, None>>, <<<<"env">>, "dev">>, <<<<"env">>, "prod">>,
     <<<<"compose_profiles">>, {"lab"}>>, <<<<"database", "url">>, None>>,
     <<<<"APP_HOST_PORT">>, "18000">>, <<<<"POSTGRES_PASSWORD">>, "text">>,
     <<<<"ports", "ticketing">>, "Linear">>, <<<<"LINEAR_API_KEY">>, "text">>}

InShell ==
    {<<<<"env">>, "">>, <<<<"env">>, "local">>, <<<<"env">>, "dev">>,
     <<<<"SMOKEJUMPER__ENV">>, "prod">>, <<<<"ports", "memory">>, "Postgres">>}

=============================================================================
