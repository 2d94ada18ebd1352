# Smokejumper in TLA+

A verification project for Smokejumper, the service under `src/src/smokejumper`: TLA+ modules
translated from the Python and SQL, TLC runs that check them on small instances, and TLAPS proofs
that carry the main safety results to every size.

## The system

An alert travels through these parts.

1. **Receiver** (`receiver/routes.py`, `receiver/repository.py`). A webhook handler verifies the
   delivery, normalizes it, closes the dedupe windows of resolved incidents and admits each firing
   one: under a Postgres advisory lock of the fingerprint it either counts the alert on an open row
   of `events` or inserts a new row.
2. **Verification, normalizers, fingerprint** (`receiver/verification.py`,
   `receiver/normalizers/*.py`, `contracts/fingerprint.py`, `contracts/events.py`). They decide who
   is heard, and which incident a body is about.
3. **Outbox and producer** (`receiver/delivery.py`, `queue/producer.py`). A row is offered to the
   Redis stream `agentevents` with XADD while its row lock is held, and its receipt is stored; the
   handler tries first, a background task tries again for ever.
4. **Worker** (`worker.py`). XREADGROUP, a run per event, XACK.
5. **Actions** (`actions/service.py`) and the **schema** (`migrations/versions/*.py`). `open_run`,
   `apply` (find, open or comment on the ticket; the ledger of runs that acted), `close_run`; a
   partial unique index keeps open tickets apart, a trigger closes the ticket with its window.
6. **Recorder** (`recorder/writer.py`). Appends numbered audit lines to a JSONL file per process; a
   run stores the byte range of its lines.
7. **Triage** (`intelligence/triage.py`). The conclusion of a run: status and confidence, what was
   found, what to inspect.
8. **Health** (`app.py`, `persistence/database.py`). `/healthz` probes Postgres, the schema, Redis
   and the two background tasks.
9. **Run lookup** (`app.py`). `GET /runs/{fingerprint}` shows the newest run of an incident, with its
   ticket.
10. **Configuration** (`config.py`, `cli.py`). `load_settings` layers flags, environment, `.env` and
    two YAML files, and refuses what its gates forbid; `check-config` asks it on the host.
11. **Start** (`docker-compose.yml`, `Dockerfile`, `scripts/check_host_ports.py`,
    `migrations/`). The container gets the variables compose forwards, upgrades the schema, loads
    its settings and serves. Revisions can be taken back with `alembic downgrade`.
12. Ports with their stubs, contracts without operations, documentation tools. Not modelled; see
    the end.

The Receiver, the outbox, the worker and `/healthz` are asyncio tasks of one process that meet in
Postgres and Redis. That is where the hazards are: transactions of several statements, locks that
end with their transaction, an XADD inside a transaction it is no part of, a queue that never
offers a failed message again. The start has hazards of another kind: several readers of the same
few files, each with a rule of its own, and a schema that moves under rows that are already there.

## The modules

| Module | Models | State | Actions |
|---|---|---|---|
| `Receiver` | 1 and 3 | `events`, the stream, per task its program counter and locals, the clock | one per statement of `admit`, `close_window`, `quarantine`, `dispatch_event`, one per step of the outbox's pass, failures, crash and restart |
| `Inbox` | what 1 and 3 promise | a table of incidents | join, open, recover, set aside, queue: each indivisible |
| `Feed` | what a worker sees of 1 and 3 | per event its window and fingerprint, the stream | admit, enqueue, recover |
| `Worker` | 4, 5, 6 | the tables, the stream with its pending list, the audit files, per worker its program counter, batch and outcome | one per await of `run_worker`, `_process` and `handle`, one per statement of `apply`, failures, crash and restart |
| `Tickets` | what 5 promises | `tickets`, `ticket_actions` | open, comment, recover: each indivisible |
| `Lookup` | 9, over the state of `Worker` | none of its own | none: it only reads |
| `Ingress` | 2, 7, and a delivery of 1 as one step | the open fingerprints, what the senders last said, the conclusions of the last delivery | a delivery, rejected, quarantined, failed or processed |
| `Health` | 8 | the dependencies, the worker task, each request's progress | one per await of `healthz`, the worker's calls, outages and repairs |
| `Settings` | 10 | none: operators over the layers | none |
| `Migrations` | the revisions of 11, and the program as what it writes to the rows they touch | the revision, per event its rows, the history of what really happened | upgrade to head, downgrade by one, one per transaction of the program |
| `Deploy` | 10 and 11 together: it extends `Settings` and contains an instance of `Migrations` | `.env`, the shell, the ports others hold, the last verdicts, the container | edit, preflight, check-config, up, migrate, boot, stop, work, downgrade |

`MC*` modules and their `.cfg` files are instances. The proofs are in `ReceiverProofs` and
`ReceiverAnswerProofs`; `WorkerProofs`, `WorkerLedgerProofs` and `WorkerAuditProofs`, each extending
the one before; `IngressProofs`; `HealthProofs`; and `DeployProofs`. A definition named `Mut...` is
a plausible bug of the definition after it; it is used only to show that the properties notice.

How code becomes TLA+:

- **Transactions.** Postgres runs at READ COMMITTED, so each statement is an action that sees what
  is committed. Writes of an open transaction are kept in the task's own variables and reach the
  table in the action that commits. A lock lives as long as its transaction, so who holds it is read
  off the program counters (`AdvisoryHeld`, `RowHeld`, `RunFree`, `TicketFree`, `IndexFree`); a
  failure or a crash gives it back by leaving that place.
- **Redis.** The stream is a sequence and a message id a position in it. The group is the last
  delivered id and the set of ids not acknowledged. A call may fail before or after it takes
  effect.
- **Audit files.** An offset counts lines where the code counts bytes, and a torn line is a line of
  kind `torn`: nothing depends on how long a line is, only on where an attempt starts and ends.
- **Time.** `received_at` is a tick of a clock that other tasks let pass; the window is a number of
  ticks. The two edges of `received_at > cutoff` are both reachable.
- **Bodies.** A body is a record of the fields the normalizers read. Each one varies a plain
  rendering of an incident: order, case, repetition and noise of tags, which field carries the key,
  blank and missing values, shapes. `str.lower`, `str.upper` and `strip` are modelled on the texts
  that occur. A fingerprint is the triple it hashes, so SHA-256 is taken as injective.
- **Dates.** Datadog's date is one of the classes `occurred_at_of` tells apart.
- **Offsets of two files.** `close_run` stores an end offset beside a start that another worker may
  have pointed at its own file. Which is larger depends on the length of lines, so the constraint
  `runs_audit_offsets_ordered` may or may not refuse it (`Conclude`, `CloseRefused`).
- **Settings.** A layer is a function from the keys it sets. Precedence, the blank and the unknown
  variable, the bare vendor secrets, required keys and the four gates are translated one to one; a
  value is one of the few that a field or a gate tells apart.
- **Schema under way.** A statement of the program works from the revision that made its columns on,
  and one that fails changes nothing. `offered`, `acts`, `recovered` and `low` are history
  variables: what really happened, for comparison with what the tables still say.

`Receiver` does not look into bodies and `Ingress` does not look between statements. They meet in
the fingerprint: an alert of `Receiver` is what `Ingress` makes of one body or of one alert in a
batch. `Worker` sees the Receiver as `Admit`, `Enqueue` and `Recover`, the three things it does to
the tables and the stream that the worker reads. They are the actions of `Feed`, which `Worker`
takes as its environment's (`Source`) and `Receiver` is shown to implement (`Handover`).
`Migrations` sees both as the seven transactions
that write what a revision adds or drops, and `Deploy` lets them happen only in a container that
serves.

## The runs

| Run | Instance | What it shows |
|---|---|---|
| `receiver_admission` | 3 deliveries, 1 fingerprint, window of 2 ticks in 3 | `OneOpenWindow`: two open rows of one fingerprint are a window apart. `ResponsesTruthful`: what a response says of its event is so in the table. `RowHistoryStable`: no row's history is rewritten. `TypeOK`. |
| `receiver_dispatch` | 2 deliveries, batches over 2 fingerprints that hash to one lock, 1 fault, 1 crash | `ImplementsInbox`: the statements amount to the indivisible steps of `Inbox`. `ImplementsFeed`: what the workers see is a behaviour of `Feed`. `DedupeCountExact`, `ReceiptNamesEvent`, and `RepeatsNeedFaults`: an event is published twice only after a lost reply, a lost receipt or a crash. |
| `receiver_live` | 2 deliveries, 1 fault, 1 crash, fair | `AdmittedIsPublished`, `HandlersFinish`. |
| `worker_race` | 2 workers, 2 runs of one fingerprint, 3 messages, 1 fault | `ImplementsTickets`, `OneOpenTicket`, `ActedOnce`, `AckedIsConcluded`, `TypeOK`. `AnswerTruthful`: the run lookup never shows another incident's ticket, and a concluded run comes with the ticket it acted on. `AnswerStands`: what it said of a concluded run stays so. |
| `worker_solo` | 1 worker that reads 2 messages at a time, 2 messages, 2 faults, 1 crash, fair | `ConcludedIsAudited`: the stored range is one complete attempt. `ConcludedIsFinal`. `EveryMessageSettles`: delivered and let go of, unless the task has died. |
| `ingress` | 5 sources, 7 incidents, up to 3 tags, full and partial set-up | `WindowsFollowSenders`: the open windows are those of the incidents their senders last reported as firing. `ConclusionsNameSubject`: a conclusion sends people to what the sender named and to nothing else, and is less confident just when nothing was named. `FailsClosed`, `PriorityDecides`, `TypeOK`. |
| `health_live` | 1 caller, 3 outages (refusals or hangs), fair | `HealthyWasSeen`: a 200 is about components that were each ok at some time of that request. `DeathIsReported`, `TypeOK`. |
| `deploy` | the files under `config/`, 2 edits out of 14, 4 downgrades, 1 after two edits, 2 host ports, 1 event | `OnlyStubsServe`: nothing serves but substitutes, and never as prod. `ObjectNamesItsFile`: the settings claim the environment whose file was read, unless `.env` alone names it. `CheckPredictsBoot`, `PreflightPredictsBind`: where host and container read the same, the verdicts on the host come true. `RefusalNamesCause`: a refusal names something that has to change. `OfferedOnce`, `LossFollowsDepth`: a round trip through the migrations replays nothing, and loses what the revisions it passed hold. `StuckUntilDropped`: a concluded run that lost its conclusion to a downgrade keeps every later upgrade from succeeding. `TypeOK`. |

Four runs show a disagreement between the code and a line of the repository. TLC finds the
property violated; `findings` of `PROJECT.json` has the quotations.

| Run | What the code does |
|---|---|
| `worker_wedge` | One failed XACK ends the worker's task, because it is outside every `try`; the messages behind it are never delivered. |
| `worker_conclude` | A recovery between the INSERT and the UPDATE of `apply` makes it raise. The message stays pending, XREADGROUP `>` never returns it, and the run never concludes. No fault and no crash are needed. |
| `worker_orphan` | A recovery that overtakes the run finds no ticket to close; the run then opens one, and it stays open. |
| `ingress_date` | A Datadog date that `int` accepts and `datetime` cannot represent costs the alert: quarantined, or a 500. |

More was met in reading, and is not a run because no interleaving is needed to see it.

- `_admit_and_publish_one` (`routes.py:59-65`) dispatches before it looks at `is_duplicate`, so a
  duplicate whose row is still pending enqueues it, while `repository.py:40` says the flag "is what
  the caller uses to decide whether to enqueue".
- `healthz` (`app.py:115-116`) awaits two three-second probes of Postgres in a row, and then two
  reads without any bound, against the `timeout: 5s` of `docker-compose.yml:90`, while
  `app.py:33-34` gives the bound as what keeps Docker from timing out.
- The exceptions that the properties of `Deploy` carry are the places where the readers of a
  variable differ: an environment that only `.env` names (`config.py:425`), an overridden port that
  the preflight does not probe (`check_host_ports.py:157`), settings that compose does not forward,
  and a variable of `.env` that is no setting, which a refusal names with a prefix it does not have
  (`config.py:473`).

**Bounds, and why they are enough.** `MaxTime`, `MaxMessages`, `MaxFaults`, `MaxCrashes` and
`MaxTags` bound what is unbounded in the program; each is a guard of the actions it limits. Three
deliveries are what it takes to race an admission with a recovery and a third delivery; the clock
passes one whole window. Two workers, two runs and a redelivery are what it takes to race `apply`
with itself on one run and on one ticket. The deliveries of `receiver_dispatch` make at most three
rows, so three event ids never run out there. One fault and one crash place each failure at each await;
two faults in `worker_solo` let a torn line be followed by a second failed attempt.
In `deploy` the operator edits and checks only while there is no container: compose reads the
configuration when it creates one, so an edit beside a running container commutes with what that
container does. Downgrades happen at any time. Two edits reach each pair of layers that disagree;
four downgrades go through all revisions, three after one edit and one after two
(`MaxInterventions`, in which an edit counts twice). One
event is enough for the rows, which the migrations treat one by one; the theorems are for any
number. `RefusalNamesCause` is stated for a new installation, because the configuration does not
depend on the database.
`ConcludedIsAudited` and `ConcludedIsFinal` are claims about one worker at a time, which is how the
program runs (`worker_task` starts one task per process, compose one process); two workers on one
redelivered event can both pass `open_run`. Fingerprints
that collide on the advisory key (`OneKey`) are the harder case of `hashtext`. Deadlock is checked
in every run; `Asleep` is the quiet state in which nothing is left to do. Symmetry is used only in
runs without liveness. The theorems have no bounds but the constants themselves.

**Fairness, and why the code justifies it.** asyncio runs every task that can go on, and Postgres
serves lock waiters in order: strong fairness of a handler's and a worker's next step, whatever that
step turns out to be. Outages end, so that the outbox, which retries for ever
(`delivery.py:71-81`), is not refused for ever. A crashed process is started again: compose has no
restart policy, so this assumes an operator. A worker task that has *died* in a live process is not
restarted by anything, and no fairness is assumed of it. In `Health`, callers poll for ever as
Docker's healthcheck does, and no hang lasts for ever (a socket's own timeout ends it); nothing is
assumed of repairs.

## The proofs

Every safety property that a passing run checks is a theorem. All are for any sets of deliveries,
fingerprints, event ids, workers, runs and tickets, any hash, any window, any bounds, any incidents
and set-ups, any files under `config/` and any edits. The assumptions:

- `ConstantsAssumption` (`Receiver`), `WorkerAssumption` (`Worker`), `HealthAssumption` (`Health`):
  the "none" values are outside their sets, numbers are naturals, the events are finite.
- `IngressAssumption`, `IncidentAssumption`, `AlertAssumption` (`Ingress`): the sources are among the
  five; an incident has a source, a key and a finite subject, none of them blank; only the generic
  source names entities of other types than the normalizers look for, and PagerDuty names at most
  one service; what is absent, or is no object, is none of the texts or objects that count.
- `DeployAssumption` (`Deploy`): the files under `config/` set settings, none of those that compose
  forwards, and a spend ceiling only to a positive amount, as the four of the repository do.

The assumptions of a module are evaluated by TLC in its runs.

- `TypeCorrect` (`ReceiverProofs`): `Spec => []TypeOK`. Inductive with what a handler knows at each
  statement: it has an alert in hand, `received_at` is set, and its target is an admitted row
  (`Shape`).
- `NoSplitIncident`: `Spec => []OneOpenWindow`. By itself it is not inductive: the INSERT acts on
  what an earlier statement did not find. The strengthening `AdmissionInv` adds `LockExclusive` (two
  handlers inside `admit` hold different advisory keys) and `MissStands` (what the UPDATE did not
  find is still not there at the INSERT). `MissStands` survives the other handlers by
  `LockExclusive`, and recoveries because they only close.
- `ReceiptsCorrect`: `Spec => []ReceiptNamesEvent`, with `HeldReceipts`: the reply a process still
  holds names a message that carries its target. The stream only grows.
- `HistoryStable`: `Spec => RowHistoryStable`, an action property, from `Shape`.
- `ReceiverImplementsInbox`: `Spec => ImplementsInbox`. The INSERT is the step
  that needs an argument: it maps to `OpenNew`, which `Inbox` allows only when there is no
  candidate, and `MissStands` says there is none.
- `ReceiverImplementsFeed`: `Spec => ImplementsFeed`, from `Shape`. A process at its XADD has an
  admitted row for target, so nothing is on the stream before its row is committed and a quarantined
  row never is; a recovery closes exactly the open windows of one fingerprint; by
  `RowHistoryStable`'s lemma no admitted row changes its fingerprint. The actions of `Feed` are the
  environment of `Worker`, so the theorems about `Worker` below hold behind this Receiver.
- `NoRepeatWithoutFault` (`ReceiverAnswerProofs`): `Spec => []RepeatsNeedFaults`. `RepeatInv` accounts
  for the one copy of an event that no fault explains: its row has a receipt, or the one process that
  holds the row lock has the reply in hand (`RowExclusive`, `HeldPending`, `CopiesBounded`). A failure
  that drops the reply pays for the copy with the fault it counts.
- `AnswersCorrect`: `Spec => []ResponsesTruthful`. An answer is given two transactions after the
  admission it is about, so `AnswerInv` says of a handler that dispatches what its answer will say:
  its row fits the alert (`DispatchSound`), and who inserted a row is alone in calling it new, among
  those who have answered and those who will (`NewPending`).
- `CountsExact`: `Spec => []DedupeCountExact`. `CountInv`: the count moves with the target in one
  commit, and an answer takes the place of a target; a handler that crashed keeps its target.
- `WorkerTypeCorrect` (`WorkerProofs`): `Spec => []TypeOK`, with `HandShape`: ids in hand are delivered ones, and inside `handle` there is an event.
- `NoDoubleTicket`: `Spec => []OneOpenTicket`. `LedgerInv` is what an uncommitted
  `apply` relies on: its run has not acted, the ticket it locked or inserted is as it found it
  (`Claims`), and two workers in `apply` have different runs and different tickets (`Apart`).
- `ApplyImplementsTickets` (`WorkerLedgerProofs`): `Spec => ImplementsTickets`. Only a commit and a
  recovery change the two tables; `Claims` says that the commit finds them as the statements before
  it did.
- `RunsActOnce`: `Spec => []ActedOnce`, by counting the ledger's rows over a commit.
- `NothingLost`: `Spec => []AckedIsConcluded`, with `AckClaims`: a worker past the commit has acted,
  one about to acknowledge has concluded.
- `AuditIsExact` and `ConclusionIsFinal` (`WorkerAuditProofs`), for one worker at a time (`Solo`):
  `Spec => []ConcludedIsAudited` and `Spec => ConcludedIsFinal`. `AuditInv` says line by line what a
  worker in `handle` has written: its run points at the end of its newest file, and as many lines
  follow as its place in `handle` tells (`Attempt`). Files only grow, so a range that was exact
  stays exact.
- `AnswersAreTruthful` and `AnswersStand`, for any number of workers: `Spec => []AnswerTruthful` and
  `Spec => AnswerStands`. `LedgerRow` is the strengthening: a run that has acted names a ticket of
  its incident, which counts the action; tickets only grow.
- `WindowsFollow`, `ConclusionsRight`, `IngressTyped` (`IngressProofs`): `Spec =>
  []WindowsFollowSenders`, `[]ConclusionsNameSubject` and `[]TypeOK`, which are inductive together.
  The argument is in what a delivery says. For each normalizer: whatever the order, case, repetition
  and noise of a rendering, the event has the fingerprint and the entities of the incident
  (`EntitiesFound`, `DatadogMeans`, `PagerdutyMeans`, `AlertMeans`, `GenericMeans`), and it counts as
  a recovery just when it is one. So what is closed and what is admitted are the fingerprints of what
  the sender means (`Reports`; `BatchReports` for batches, with what is no alert among the alerts).
  The rest is never processed: a body without identity does not parse (`NamelessFails`), and no
  verifier takes another sender's credential (`UnsignedFails`). Different incidents have different
  fingerprints (`FpInjective`), so closing one leaves the others open.
- `ClosedUnlessSetUp`: `Spec => []FailsClosed`. Every verifier demands a secret or an allowlist
  (`VerifiedConfigured`), and events are of the source that delivered them.
- `PriorityWins`: `Spec => []PriorityDecides`, with the cases of a priority that the tables know.
- `HealthyIsHonest` (`HealthProofs`): `Spec => []HealthyWasSeen`. `Witnessed`: a request in flight
  has seen what is ok now, and of what it is done with everything it did not find at fault.
  `HealthTyped`: `Spec => []TypeOK`.
- `ServesStubs` (`DeployProofs`): `Spec => []OnlyStubsServe`. The gates leave a selection that is
  either a substitute, which prod refuses, or planned, which every environment refuses
  (`GatesLeaveStubs`); a container keeps the environment it was created with.
- `NeverReplayed`, `LossIsBounded`: `Spec => []OfferedOnce` and `Spec => []LossFollowsDepth`. The
  properties speak of the newest revision and are not inductive; `EventInv` holds at every one. It
  rests on `low`: an event that the program has seen has been no higher than the schema, unless its
  row was dropped, and a pending row is only there at 0004.
- `StaysStuck`: `Spec => StuckUntilDropped`, an action property, from the same invariant: below 0003
  no statement of the program repairs a concluded run.
- `NamesItsFile`, `CheckIsTrue`: `Spec => []ObjectNamesItsFile` and `Spec => []CheckPredictsBoot`.
  `CheckInv`: a verdict is about the layers as they are now, and compose always names an environment.
  Where the host sets only what compose forwards, its ports and a positive ceiling, both sides
  assemble the same value for every setting that a type or a gate looks at (`ForwardedRead`,
  `AgreeElsewhere`, `CeilingRead`, `SameSettled`), so both load or neither does (`BothLoad`).
- `PreflightIsTrue`: `Spec => []PreflightPredictsBind`. `BindInv`: a preflight that passed found the
  default port free, and whoever takes a port, or starts a container, ends its validity.
- `RefusalsNameCause`: `Spec => []RefusalNamesCause`. No layer sets a key to None (`Whole`), so two
  configurations in which a setting reads the same agree on it (`SameValue`). Each reason to refuse
  is then a function of what `_describe` names (`NamedIsCause`, `GatesNameCause`). One is not by
  itself: the missing spend ceiling of prod is named without `env`. It never stands alone, because in
  prod a port is either a substitute or only planned, and both are named (`ProdIsBlamed`).
- `DeployTyped`: `Spec => []TypeOK`.

Only model-checked: `AdmittedIsPublished`, `HandlersFinish`, `EveryMessageSettles` and
`DeathIsReported`, which are about liveness and fairness, out of this prover's reach. The runs that
show a violation have nothing to prove.

## Not modelled

- **Ports and stubs** (`ports/`): protocols, and stubs that answer from memory. The program selects
  them by name and calls none; only tests do.
- **Other contracts** (`contracts/`): record types and their field validation, without operations.
  The event, its fingerprint, the audit line and the conclusion are in `Ingress` and `Worker`.
- **Documentation tools** (`scripts/` but the preflight, `architecture/_gen`): linters, renderers
  and diagrams, text in and text out. They are a large share of the repository's Python.
- **In the configuration**: `log_dir`, the parsing of the allowlist's networks, the second spelling
  of `COMPOSE_PROFILES`, and the wording of a refusal beyond the variables it names.
- **In the migrations**: indexes and the vector extension, which hold nothing.
- **MAXLEN of the stream** (about 100000): above every bound. A worker that is away for longer loses
  the oldest events although their rows carry a receipt.
- **Seconds**: the timeouts of `/healthz` end a probe, and are not added up.
- **Text**: titles, bodies, summaries, log lines.
- **One state machine of Receiver and Worker.** They meet in the stream and in `window_closed_at`
  and are checked apart, with `Feed` between them: `Worker` allows its environment every order of
  `Feed`'s actions (and messages that are no event), `Receiver` does nothing else to what they share
  (`ReceiverImplementsFeed`), so the safety properties of `Worker` carry over. `FpOf`, a constant of
  `Worker`, is the fingerprint each event has in the end, and `MaxMessages` any bound that the
  stream does not reach; a recovery that waits for a worker's ticket row happens in `Receiver` when
  the wait is over. No module has both state machines in one, so nothing is shown of liveness from
  webhook to conclusion.
- The parts of `SPEC.md` without code: governor, storm brake, specialists, memory, chat, approvals.
