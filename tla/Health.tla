------------------------------- MODULE Health -------------------------------
(***************************************************************************)
(* GET /healthz beside the worker and the dependencies it reports on: the  *)
(* three probes and the two reads of details await one another, and the    *)
(* world changes between them.                                             *)
(***************************************************************************)
EXTENDS Naturals, FiniteSets

CONSTANTS
    Requests,       \* callers of /healthz
    Faults,         \* what may befall a dependency: a subset of {"down", "hung"}
    MaxFaults       \* bound on the faults of a behaviour

ASSUME HealthAssumption ==
    /\ IsFiniteSet(Requests) /\ Faults \subseteq {"down", "hung"} /\ MaxFaults \in Nat

VARIABLES
    postgres, redis,   \* "up", "down" (refuses) or "hung" (never answers)
    atHead,            \* alembic_version is SCHEMA_HEAD
    worker,            \* where the worker task is, or "dead"
    pc,                \* where each request is
    checks,            \* what each request has found to be not ok
    answer,            \* the last status code of each caller, 0 before the first
    seen,              \* history: components that were ok at some time of the request
    faults             \* how many faults there were

vars == <<postgres, redis, atHead, worker, pc, checks, answer, seen, faults>>
world == <<postgres, redis, atHead, worker, faults>>

Components == {"postgres", "schema", "redis", "worker"}

\* status() of the task: ok until it is done.
Status(task) == task # "dead"

\* What each check of a component would find now: check_connection, check_schema,
\* redis.ping and WorkerHandle.status.
Ok(c) ==
    CASE c = "postgres" -> postgres = "up"
      [] c = "schema" -> postgres = "up" /\ atHead
      [] c = "redis" -> redis = "up"
      [] c = "worker" -> Status(worker)

Serves(c) == IF c = "redis" THEN redis ELSE postgres

InFlight == {r \in Requests : pc[r] # "idle"}

\* History: every request in flight sees what is ok in the new state.
Observe == seen' = [r \in Requests |-> IF r \in InFlight THEN seen[r] \cup {c \in Components : Ok(c)'}
                                                        ELSE seen[r]]

-----------------------------------------------------------------------------
(* The request *)

Request(r) ==
    /\ pc[r] = "idle"
    /\ pc' = [pc EXCEPT ![r] = "postgres"]
    /\ checks' = [checks EXCEPT ![r] = {}]
    /\ seen' = [seen EXCEPT ![r] = {c \in Components : Ok(c)}]
    /\ UNCHANGED <<world, answer>>

Stages == [postgres |-> {"postgres"}, schema |-> {"schema"}, redis |-> {"redis", "worker"}]
After == [postgres |-> "schema", schema |-> "redis", redis |-> "queue"]

\* One awaited probe; what it found to be not ok is `failed`.
Await(r, failed) ==
    /\ pc[r] \in DOMAIN After
    /\ checks' = [checks EXCEPT ![r] = @ \cup failed]
    /\ pc' = [pc EXCEPT ![r] = After[@]]
    /\ UNCHANGED <<world, answer, seen>>

\* Mutant: a probe that timed out counts as ok.
MutProbe(r) == Await(r, {c \in Stages[pc[r]] : ~Ok(c) /\ Serves(c) # "hung"})

\* _probe: the answer of the dependency, or the timeout when it is hung.  The
\* status of the worker is read as soon as the last probe returns.
Probe(r) == Await(r, {c \in Stages[pc[r]] : ~Ok(c)})

\* queue_depth: an error is suppressed, a hang is waited for.
ReadQueue(r) ==
    /\ pc[r] = "queue"
    /\ redis # "hung"
    /\ pc' = [pc EXCEPT ![r] = "pending"]
    /\ UNCHANGED <<world, checks, answer, seen>>

\* Mutant: only the dependencies decide.
MutRespond(r) ==
    /\ pc[r] = "pending"
    /\ postgres # "hung"
    /\ answer' = [answer EXCEPT ![r] = IF checks[r] \subseteq {"worker"} THEN 200 ELSE 503]
    /\ pc' = [pc EXCEPT ![r] = "idle"]
    /\ UNCHANGED <<world, checks, seen>>

\* pending_count, likewise, and the answer.
Respond(r) ==
    /\ pc[r] = "pending"
    /\ postgres # "hung"
    /\ answer' = [answer EXCEPT ![r] = IF checks[r] = {} THEN 200 ELSE 503]
    /\ pc' = [pc EXCEPT ![r] = "idle"]
    /\ UNCHANGED <<world, checks, seen>>

-----------------------------------------------------------------------------
(* The worker task.  The outbox task catches every exception: its status is ok. *)

WorkerStep(from, to) ==
    /\ worker = from
    /\ worker' = to
    /\ UNCHANGED <<postgres, redis, atHead, pc, checks, answer, faults>>
    /\ Observe

\* ensure_group and xack are outside any try: an error of Redis ends the task.
WorkerCalls(from, to) ==
    /\ redis # "hung"
    /\ WorkerStep(from, IF redis = "up" THEN to ELSE "dead")

EnsureGroup == WorkerCalls("starting", "reading")

\* xreadgroup: an error is retried; a message is handled, and when that fails it
\* is left pending.
ReadGroup == redis = "up" /\ WorkerStep("reading", "handling")

HandleFails == postgres # "hung" /\ WorkerStep("handling", "reading")
HandleSucceeds == postgres = "up" /\ WorkerStep("handling", "acking")

\* A message that does not parse is acknowledged without a look at Postgres.
SkipPoison == WorkerStep("handling", "acking")

\* Mutant: the worker stops after its first message.
MutAck == WorkerCalls("acking", "stopped")

Ack == WorkerCalls("acking", "reading")

-----------------------------------------------------------------------------
(* The world *)

Fault ==
    /\ faults < MaxFaults
    /\ \/ /\ postgres = "up" /\ postgres' \in Faults
          /\ UNCHANGED <<redis, atHead>>
       \/ /\ redis = "up" /\ redis' \in Faults
          /\ UNCHANGED <<postgres, atHead>>
       \/ /\ atHead /\ atHead' = FALSE
          /\ UNCHANGED <<postgres, redis>>
    /\ faults' = faults + 1
    /\ UNCHANGED <<worker, pc, checks, answer>>
    /\ Observe

\* A hang ends: as an error, by a timeout below the program, or in an answer.
PostgresUnhangs ==
    /\ postgres = "hung" /\ postgres' \in {"down", "up"}
    /\ UNCHANGED <<redis, atHead, worker, pc, checks, answer, faults>>
    /\ Observe

RedisUnhangs ==
    /\ redis = "hung" /\ redis' \in {"down", "up"}
    /\ UNCHANGED <<postgres, atHead, worker, pc, checks, answer, faults>>
    /\ Observe

\* The dependencies come back; the migration is applied.
Repair ==
    /\ postgres' \in {postgres, "up"} /\ redis' \in {redis, "up"}
    /\ atHead' \in {atHead, TRUE}
    /\ <<postgres, redis, atHead>>' # <<postgres, redis, atHead>>
    /\ UNCHANGED <<worker, pc, checks, answer, faults>>
    /\ Observe

-----------------------------------------------------------------------------

\* The lifespan has started both tasks before the first request is served.
Init ==
    /\ postgres = "up" /\ redis = "up" /\ atHead \in BOOLEAN
    /\ worker = "starting"
    /\ pc = [r \in Requests |-> "idle"]
    /\ checks = [r \in Requests |-> {}]
    /\ answer = [r \in Requests |-> 0]
    /\ seen = [r \in Requests |-> {}]
    /\ faults = 0

Handle(r) == Request(r) \/ Probe(r) \/ ReadQueue(r) \/ Respond(r)

Next ==
    \/ \E r \in Requests : Handle(r)
    \/ EnsureGroup \/ ReadGroup \/ HandleFails \/ HandleSucceeds \/ SkipPoison \/ Ack
    \/ Fault \/ PostgresUnhangs \/ RedisUnhangs \/ Repair

Spec == Init /\ [][Next]_vars

\* Callers poll for ever (Docker's healthcheck does), the event loop runs what can
\* run, and no hang lasts for ever.  Nothing is assumed of repairs.
LiveSpec ==
    /\ Spec
    /\ \A r \in Requests : WF_vars(Handle(r))
    /\ WF_vars(PostgresUnhangs) /\ WF_vars(RedisUnhangs)

-----------------------------------------------------------------------------
(* Properties *)

\* The steps, sets and codes are the ones named above.
TypeOK ==
    /\ postgres \in {"up", "down", "hung"} /\ redis \in {"up", "down", "hung"}
    /\ atHead \in BOOLEAN
    /\ worker \in {"starting", "reading", "handling", "acking", "dead"}
    /\ pc \in [Requests -> {"idle", "postgres", "schema", "redis", "queue", "pending"}]
    /\ checks \in [Requests -> SUBSET Components]
    /\ answer \in [Requests -> {0, 200, 503}]
    /\ seen \in [Requests -> SUBSET Components]

\* A 200 says of every component that it was ok at some time of that very request:
\* what was down, hung, behind or dead all along is never reported healthy, in
\* whatever order the dependencies fail and come back between the awaits (healthz).
HealthyWasSeen ==
    \A r \in Requests : pc[r] = "pending" /\ checks[r] = {} => seen[r] = Components

\* The death of the worker, which accepts no repair, reaches every caller: from
\* some time on each of them is told 503 (healthz: "the component whose death is
\* invisible").
DeathIsReported ==
    \A r \in Requests : (worker = "dead") ~> [](pc[r] = "idle" => answer[r] = 503)
=============================================================================
