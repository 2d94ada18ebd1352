------------------------------- MODULE Worker -------------------------------
(***************************************************************************)
(* The consumer side: workers that read the group `intelligence` of the    *)
(* stream, run each event through triage and Actions, write the audit log  *)
(* and acknowledge.  The tables `runs`, `tickets` and `ticket_actions` are *)
(* shared; each worker process has one audit file per start.               *)
(*                                                                         *)
(* A transaction of several statements is several steps.  What it has      *)
(* written and not committed is kept in the worker's `outcome`, and a lock *)
(* it holds is read off `pc`: between `LockRun` and the commit a worker    *)
(* holds its run's row; at "ledger" it also holds the row it inserted into *)
(* `tickets` or updated there.                                             *)
(***************************************************************************)
EXTENDS Naturals, Sequences, FiniteSets

CONSTANTS
    Workers,
    Events,        \* event ids, which are also the run ids
    Poison,        \* a message whose payload does not parse
    Fingerprints,
    NoFp,
    FpOf,          \* the fingerprint of each event
    TicketIds,     \* the uuid4 values that rows of `tickets` can get
    NoTicket,
    ReadCount,     \* `count` of XREADGROUP
    MaxMessages,   \* bound on the stream's length
    MaxFaults,     \* bound on failed calls and lost replies
    MaxCrashes     \* bound on process crashes

ASSUME WorkerAssumption ==
    /\ NoTicket \notin TicketIds
    /\ Poison \notin Events
    /\ NoFp \notin Fingerprints
    /\ IsFiniteSet(Events)
    /\ FpOf \in [Events -> Fingerprints]
    /\ ReadCount \in Nat \ {0}
    /\ MaxMessages \in Nat /\ MaxFaults \in Nat /\ MaxCrashes \in Nat

VARIABLES
    window,          \* per event: no row, window open or closed
    stream,          \* the messages; a position is a message id
    delivered,       \* last-delivered id of the group
    pel,             \* ids delivered and not acknowledged
    runs, tickets, ticket_actions,
    logs,            \* per worker its audit files, one per start
    seqs,            \* per worker the recorder's `_seq`
    pc,
    batch,           \* ids read and not yet processed, the current one first
    outcome,         \* the worker's TicketOutcome, or what `apply` is writing
    faults, crashes

tables == <<runs, tickets, ticket_actions>>
queue == <<stream, delivered, pel>>
recorder == <<logs, seqs>>
bounds == <<faults, crashes>>
vars == <<window, queue, tables, recorder, pc, batch, outcome, bounds>>

NoRun == [status |-> "none", file |-> <<>>, start |-> 0, end |-> 0]
NoSuchTicket == [status |-> "absent", fp |-> NoFp, update_count |-> 0]
NoAction == [ticket |-> NoTicket, created |-> FALSE, update_count |-> 0]
NoOutcome == [ticket |-> NoTicket, created |-> FALSE, update_count |-> 0,
              replayed |-> FALSE]

-----------------------------------------------------------------------------
(* Queries and locks *)

Run(w) == stream[Head(batch[w])]      \* event.id, the run id

OpenTickets(fp) ==
    {t \in TicketIds : tickets[t].status = "open" /\ tickets[t].fp = fp}

InApply(w) == pc[w] \in {"insert", "update", "ledger"}

\* Nobody else's `apply` holds the run's row.
RunFree(run) == \A w \in Workers : InApply(w) => Run(w) # run

\* Mutant: the ticket's row is not locked until the commit.
MutTicketFree(t) == TRUE

\* The row is not inserted or updated by an uncommitted `apply`.
TicketFree(t) == \A w \in Workers : pc[w] = "ledger" => outcome[w].ticket # t

\* The worker has inserted a ticket of fp and not committed it.
Opening(w, fp) == pc[w] = "ledger" /\ outcome[w].created /\ FpOf[Run(w)] = fp

\* Mutant: no unique index.
MutIndexFree(fp) == TRUE

\* No uncommitted row of fp that the partial unique index makes us wait for.
IndexFree(fp) == \A w \in Workers : ~Opening(w, fp)

File(w) == <<w, Len(logs[w])>>
Log(w) == logs[w][Len(logs[w])]

HasEvent(w) == batch[w] # <<>> /\ Run(w) \in Events

-----------------------------------------------------------------------------
Init ==
    /\ window = [e \in Events |-> "none"]
    /\ stream = <<>>
    /\ delivered = 0
    /\ pel = {}
    /\ runs = [e \in Events |-> NoRun]
    /\ tickets = [t \in TicketIds |-> NoSuchTicket]
    /\ ticket_actions = [e \in Events |-> NoAction]
    /\ logs = [w \in Workers |-> << <<>> >>]
    /\ seqs = [w \in Workers |-> [e \in Events |-> 0]]
    /\ pc = [w \in Workers |-> "start"]
    /\ batch = [w \in Workers |-> <<>>]
    /\ outcome = [w \in Workers |-> NoOutcome]
    /\ faults = 0
    /\ crashes = 0

GoTo(w, from, to) ==
    /\ pc[w] = from
    /\ pc' = [pc EXCEPT ![w] = to]

Fault ==
    /\ faults < MaxFaults
    /\ faults' = faults + 1
    /\ UNCHANGED crashes

-----------------------------------------------------------------------------
(* The Receiver, as far as the worker can tell *)

Source == INSTANCE Feed WITH fp <- FpOf

Admit(e) ==
    /\ Source!Admit(e)
    /\ UNCHANGED <<delivered, pel, tables, recorder, pc, batch, outcome, bounds>>

\* An XADD: of an admitted event, once or more often, or of something else.
Enqueue(m) ==
    /\ Len(stream) < MaxMessages
    /\ Source!Enqueue(m)
    /\ UNCHANGED <<delivered, pel, tables, recorder, pc, batch, outcome, bounds>>

\* close_window and its trigger: when a window of fp closes, the open ticket of
\* fp that the transaction can see closes with it.
Recover(fp) ==
    /\ Source!Recover(fp)
    /\ \A t \in OpenTickets(fp) : TicketFree(t)
    /\ tickets' = [t \in TicketIds |->
          IF t \in OpenTickets(fp) THEN [tickets[t] EXCEPT !.status = "closed"]
          ELSE tickets[t]]
    /\ UNCHANGED <<delivered, pel, runs, ticket_actions, recorder, pc, batch,
                   outcome, bounds>>

-----------------------------------------------------------------------------
(* run_worker *)

\* ensure_group creates the group at the stream's start, or finds it there.
EnsureGroup(w) ==
    /\ GoTo(w, "start", "idle")
    /\ UNCHANGED <<window, queue, tables, recorder, batch, outcome, bounds>>

\* It is outside every `try`, like XACK: an error ends the task.
EnsureGroupFails(w) ==
    /\ GoTo(w, "start", "dead")
    /\ Fault
    /\ UNCHANGED <<window, queue, tables, recorder, batch, outcome>>

NextIds(n) == [i \in 1 .. n |-> delivered + i]

\* Mutant: XREADGROUP ... NOACK.
MutDeliver(n) ==
    /\ delivered + n <= Len(stream)
    /\ delivered' = delivered + n
    /\ UNCHANGED <<stream, pel>>

\* XREADGROUP ">": the next messages nobody was given, at most ReadCount.
Deliver(n) ==
    /\ n \in 1 .. ReadCount
    /\ delivered + n <= Len(stream)
    /\ n < ReadCount => delivered + n = Len(stream)
    /\ delivered' = delivered + n
    /\ pel' = pel \cup (delivered + 1 .. delivered + n)
    /\ UNCHANGED stream

Read(w) ==
    /\ pc[w] = "idle"
    /\ batch[w] = <<>>
    /\ \E n \in 1 .. ReadCount :
          Deliver(n) /\ batch' = [batch EXCEPT ![w] = NextIds(n)]
    /\ UNCHANGED <<window, tables, recorder, pc, outcome, bounds>>

\* The reply to XREADGROUP is lost: the loop reads on, and the ids stay pending.
ReadLost(w) ==
    /\ pc[w] = "idle"
    /\ batch[w] = <<>>
    /\ \E n \in 1 .. ReadCount : Deliver(n)
    /\ Fault
    /\ UNCHANGED <<window, tables, recorder, pc, batch, outcome>>

\* Mutant: a payload that does not parse is tried again.
MutSkipPoison(w) ==
    /\ batch[w] # <<>>
    /\ Run(w) = Poison
    /\ GoTo(w, "idle", "idle")
    /\ UNCHANGED <<window, queue, tables, recorder, batch, outcome, bounds>>

\* A payload that does not parse is acknowledged without a run.
SkipPoison(w) ==
    /\ batch[w] # <<>>
    /\ Run(w) = Poison
    /\ GoTo(w, "idle", "ack")
    /\ UNCHANGED <<window, queue, tables, recorder, batch, outcome, bounds>>

Acknowledge(w) ==
    /\ GoTo(w, "ack", "idle")
    /\ pel' = pel \ {Head(batch[w])}
    /\ batch' = [batch EXCEPT ![w] = Tail(@)]
    /\ outcome' = [outcome EXCEPT ![w] = NoOutcome]
    /\ UNCHANGED <<window, stream, delivered, tables, recorder, bounds>>

\* XACK fails, before or after Redis acted on it.
AckFails(w) ==
    /\ GoTo(w, "ack", "dead")
    /\ pel' \in {pel, pel \ {Head(batch[w])}}
    /\ batch' = [batch EXCEPT ![w] = <<>>]
    /\ outcome' = [outcome EXCEPT ![w] = NoOutcome]
    /\ Fault
    /\ UNCHANGED <<window, stream, delivered, tables, recorder>>

-----------------------------------------------------------------------------
(* handle *)

\* Mutant: a running row keeps pointing at its first attempt.
MutOpenRunKeeps(w) ==
    /\ pc[w] = "idle"
    /\ HasEvent(w)
    /\ RunFree(Run(w))
    /\ pc' = [pc EXCEPT ![w] = IF runs[Run(w)].status = "concluded" THEN "ack" ELSE "event"]
    /\ runs' = [runs EXCEPT ![Run(w)] =
          IF @ # NoRun THEN @
          ELSE [status |-> "running", file |-> File(w), start |-> Len(Log(w)), end |-> 0]]
    /\ UNCHANGED <<window, queue, tickets, ticket_actions, recorder, batch, outcome, bounds>>

\* Mutant: a redelivery starts the run over.
MutOpenRunAgain(w) ==
    /\ pc[w] = "idle"
    /\ HasEvent(w)
    /\ RunFree(Run(w))
    /\ pc' = [pc EXCEPT ![w] = "event"]
    /\ runs' = [runs EXCEPT ![Run(w)] =
          [status |-> "running", file |-> File(w), start |-> Len(Log(w)), end |-> 0]]
    /\ UNCHANGED <<window, queue, tickets, ticket_actions, recorder, batch, outcome, bounds>>

\* open_run: insert the row or, while it is running, repoint it at this
\* attempt.  A concluded run is acknowledged with nothing done.
OpenRun(w) ==
    /\ pc[w] = "idle"
    /\ HasEvent(w)
    /\ RunFree(Run(w))
    /\ IF runs[Run(w)].status = "concluded"
       THEN /\ pc' = [pc EXCEPT ![w] = "ack"]
            /\ UNCHANGED runs
       ELSE /\ pc' = [pc EXCEPT ![w] = "event"]
            /\ runs' = [runs EXCEPT ![Run(w)] =
                  [status |-> "running", file |-> File(w),
                   start |-> Len(Log(w)), end |-> 0]]
    /\ UNCHANGED <<window, queue, tickets, ticket_actions, recorder, batch, outcome, bounds>>

\* Recorder.append: the run's next number, and a line of some kind.
Number(w) == seqs' = [seqs EXCEPT ![w][Run(w)] = @ + 1]

Line(w, kind) ==
    [run |-> Run(w), kind |-> kind, seq |-> seqs[w][Run(w)] + 1,
     ticket |-> outcome[w].ticket]

Write(w, line) == logs' = [logs EXCEPT ![w][Len(logs[w])] = Append(@, line)]

AfterRecord == [event |-> "transition", transition |-> "apply", action |-> "close"]

Record(w) ==
    /\ pc[w] \in DOMAIN AfterRecord
    /\ Number(w)
    /\ Write(w, Line(w, pc[w]))
    /\ pc' = [pc EXCEPT ![w] = AfterRecord[pc[w]]]
    /\ UNCHANGED <<window, queue, tables, batch, outcome, bounds>>

\* close_run, whatever the run's status.
CloseRun(w) ==
    /\ RunFree(Run(w))
    /\ runs' = [runs EXCEPT ![Run(w)].status = "concluded", ![Run(w)].end = Len(Log(w))]
    /\ UNCHANGED <<window, queue, tickets, ticket_actions, recorder>>

Conclude(w) ==
    /\ GoTo(w, "close", "ack")
    /\ CloseRun(w)
    /\ UNCHANGED <<batch, outcome, bounds>>

-----------------------------------------------------------------------------
(* apply *)

\* The ledger has a row for this run: its outcome is returned again.
Replay(w) ==
    /\ GoTo(w, "apply", "action")
    /\ RunFree(Run(w))
    /\ ticket_actions[Run(w)] # NoAction
    /\ outcome' = [outcome EXCEPT ![w] =
          [ticket |-> ticket_actions[Run(w)].ticket,
           created |-> ticket_actions[Run(w)].created,
           update_count |-> ticket_actions[Run(w)].update_count,
           replayed |-> TRUE]]
    /\ UNCHANGED <<window, queue, tables, recorder, batch, bounds>>

\* Mutant: apply does not look at the ledger.
MutLockRun(w) ==
    /\ GoTo(w, "apply", "insert")
    /\ RunFree(Run(w))
    /\ UNCHANGED <<window, queue, tables, recorder, batch, outcome, bounds>>

LockRun(w) ==
    /\ GoTo(w, "apply", "insert")
    /\ RunFree(Run(w))
    /\ ticket_actions[Run(w)] = NoAction
    /\ UNCHANGED <<window, queue, tables, recorder, batch, outcome, bounds>>

\* INSERT ... ON CONFLICT DO NOTHING inserts.
InsertTicket(w) ==
    /\ GoTo(w, "insert", "ledger")
    /\ IndexFree(FpOf[Run(w)])
    /\ OpenTickets(FpOf[Run(w)]) = {}
    /\ \E t \in TicketIds :
          /\ tickets[t].status = "absent"
          /\ TicketFree(t)
          /\ outcome' = [outcome EXCEPT ![w] =
                [ticket |-> t, created |-> TRUE, update_count |-> 0, replayed |-> FALSE]]
    /\ UNCHANGED <<window, queue, tables, recorder, batch, bounds>>

\* It meets an open ticket and does nothing, not even lock it.
Conflict(w) ==
    /\ GoTo(w, "insert", "update")
    /\ OpenTickets(FpOf[Run(w)]) # {}
    /\ UNCHANGED <<window, queue, tables, recorder, batch, outcome, bounds>>

\* The UPDATE of the open ticket.
UpdateTicket(w) ==
    /\ GoTo(w, "update", "ledger")
    /\ \E t \in OpenTickets(FpOf[Run(w)]) :
          /\ TicketFree(t)
          /\ outcome' = [outcome EXCEPT ![w] =
                [ticket |-> t, created |-> FALSE,
                 update_count |-> tickets[t].update_count + 1, replayed |-> FALSE]]
    /\ UNCHANGED <<window, queue, tables, recorder, batch, bounds>>

\* The insert into the ledger and the commit.
Commit(w) ==
    /\ GoTo(w, "ledger", "action")
    /\ LET o == outcome[w]
       IN  /\ tickets' = [tickets EXCEPT ![o.ticket] =
                 IF o.created
                 THEN [status |-> "open", fp |-> FpOf[Run(w)], update_count |-> 0]
                 ELSE [@ EXCEPT !.update_count = o.update_count]]
           /\ ticket_actions' = [ticket_actions EXCEPT ![Run(w)] =
                 [ticket |-> o.ticket, created |-> o.created,
                  update_count |-> o.update_count]]
    /\ UNCHANGED <<window, queue, runs, recorder, batch, outcome, bounds>>

-----------------------------------------------------------------------------
(* Failures.  An exception out of `handle` rolls back, leaves the message      *)
(* pending and goes on with the next one.                                      *)

\* Mutant: a failed run gets a state of its own, which nothing leaves.
MutGiveUp(w) ==
    /\ pc' = [pc EXCEPT ![w] = "failed"]
    /\ batch' = [batch EXCEPT ![w] = Tail(@)]
    /\ outcome' = [outcome EXCEPT ![w] = NoOutcome]

GiveUp(w) ==
    /\ pc' = [pc EXCEPT ![w] = "idle"]
    /\ batch' = [batch EXCEPT ![w] = Tail(@)]
    /\ outcome' = [outcome EXCEPT ![w] = NoOutcome]

\* The open ticket was closed between the INSERT and the UPDATE.
UpdateMisses(w) ==
    /\ pc[w] = "update"
    /\ OpenTickets(FpOf[Run(w)]) = {}
    /\ GiveUp(w)
    /\ UNCHANGED <<window, queue, tables, recorder, bounds>>

\* The constraint runs_audit_offsets_ordered refuses an end below the start.  In
\* one file the end is later; another worker may have pointed the row at its own
\* file, and which offset is larger then depends on the length of the lines.
CloseRefused(w) ==
    /\ pc[w] = "close"
    /\ RunFree(Run(w))
    /\ runs[Run(w)].file # File(w) /\ runs[Run(w)].start > 0
    /\ GiveUp(w)
    /\ UNCHANGED <<window, queue, tables, recorder, bounds>>

\* A statement fails, or a commit's reply other than close_run's is lost.
HandleFails(w) ==
    /\ \/ pc[w] = "idle" /\ HasEvent(w)
       \/ InApply(w) \/ pc[w] \in {"event", "apply", "action", "close"}
    /\ GiveUp(w)
    /\ Fault
    /\ UNCHANGED <<window, queue, tables, recorder>>

\* close_run commits and its reply is lost.
CloseReplyLost(w) ==
    /\ pc[w] = "close"
    /\ CloseRun(w)
    /\ GiveUp(w)
    /\ Fault

\* Recorder.append raises OSError with nothing written, the line torn, or the
\* line whole but not synced; the number it took is spent.
RecordFails(w) ==
    /\ pc[w] \in DOMAIN AfterRecord
    /\ Number(w)
    /\ \/ UNCHANGED logs
       \/ \E kind \in {"torn", pc[w]} : Write(w, Line(w, kind))
    /\ GiveUp(w)
    /\ Fault
    /\ UNCHANGED <<window, queue, tables>>

-----------------------------------------------------------------------------
(* The process *)

Crash(w) ==
    /\ pc[w] # "down"
    /\ crashes < MaxCrashes
    /\ crashes' = crashes + 1
    /\ pc' = [pc EXCEPT ![w] = "down"]
    /\ batch' = [batch EXCEPT ![w] = <<>>]
    /\ outcome' = [outcome EXCEPT ![w] = NoOutcome]
    /\ UNCHANGED <<window, queue, tables, recorder, faults>>

\* A new process has a new Recorder, with a new file.
Restart(w) ==
    /\ GoTo(w, "down", "start")
    /\ logs' = [logs EXCEPT ![w] = Append(@, <<>>)]
    /\ seqs' = [seqs EXCEPT ![w] = [e \in Events |-> 0]]
    /\ UNCHANGED <<window, queue, tables, batch, outcome, bounds>>

\* Nothing left to read, or nobody left to read it.
Asleep ==
    /\ \A w \in Workers :
          \/ pc[w] = "dead"
          \/ pc[w] = "idle" /\ batch[w] = <<>> /\ delivered = Len(stream)
    /\ UNCHANGED vars

Apply(w) ==
    \/ Replay(w) \/ LockRun(w) \/ InsertTicket(w) \/ Conflict(w)
    \/ UpdateTicket(w) \/ UpdateMisses(w) \/ Commit(w)

Work(w) ==
    \/ EnsureGroup(w) \/ Read(w) \/ SkipPoison(w) \/ Acknowledge(w)
    \/ OpenRun(w) \/ Record(w) \/ Conclude(w) \/ CloseRefused(w) \/ Apply(w)

Failure(w) ==
    \/ EnsureGroupFails(w) \/ ReadLost(w) \/ AckFails(w) \/ HandleFails(w)
    \/ CloseReplyLost(w) \/ RecordFails(w)

Next ==
    \/ \E e \in Events : Admit(e)
    \/ \E m \in Events \cup {Poison} : Enqueue(m)
    \/ \E fp \in Fingerprints : Recover(fp)
    \/ \E w \in Workers : Work(w) \/ Failure(w) \/ Crash(w) \/ Restart(w)
    \/ Asleep

Spec == Init /\ [][Next]_vars

\* A task that can go on does, and a wait for a row ends when Postgres lets the
\* waiter through; a crashed process is started again.  A task that has died
\* in a live process stays dead.
Fairness == \A w \in Workers : SF_vars(Work(w)) /\ WF_vars(Restart(w))

FairSpec == Spec /\ Fairness

-----------------------------------------------------------------------------
(* Properties *)

RunRow == [status : {"none", "running", "concluded"},
           file : (Workers \X Nat) \cup {<<>>}, start : Nat, end : Nat]
TicketRow == [status : {"absent", "open", "closed"},
              fp : Fingerprints \cup {NoFp}, update_count : Nat]
ActionRow == [ticket : TicketIds \cup {NoTicket}, created : BOOLEAN, update_count : Nat]
Outcome == [ticket : TicketIds \cup {NoTicket}, created : BOOLEAN,
            update_count : Nat, replayed : BOOLEAN]
AuditLine == [run : Events, kind : {"event", "transition", "action", "torn"},
              seq : Nat, ticket : TicketIds \cup {NoTicket}]
WorkerPc == {"start", "idle", "event", "transition", "apply", "insert", "update",
             "ledger", "action", "close", "ack", "dead", "down"}

\* The type invariant of the tables, the queue, the audit files and the workers.
TypeOK ==
    /\ window \in [Events -> {"none", "open", "closed"}]
    /\ stream \in Seq(Events \cup {Poison})
    /\ delivered \in Nat
    /\ pel \in SUBSET Nat
    /\ runs \in [Events -> RunRow]
    /\ tickets \in [TicketIds -> TicketRow]
    /\ ticket_actions \in [Events -> ActionRow]
    /\ logs \in [Workers -> Seq(Seq(AuditLine))]
    /\ seqs \in [Workers -> [Events -> Nat]]
    /\ pc \in [Workers -> WorkerPc]
    /\ batch \in [Workers -> Seq(Nat)]
    /\ outcome \in [Workers -> Outcome]
    /\ faults \in Nat /\ crashes \in Nat

\* A fingerprint never has two open tickets, committed or about to be, however
\* workers race in service.apply.
OneOpenTicket ==
    \A fp \in Fingerprints :
        /\ \A t, u \in OpenTickets(fp) : t = u
        /\ \A v, w \in Workers : Opening(v, fp) /\ Opening(w, fp) => v = w
        /\ \A w \in Workers : Opening(w, fp) => OpenTickets(fp) = {}

ActedOn(t, created) ==
    {e \in Events : ticket_actions[e].ticket = t /\ ticket_actions[e].created = created}

\* Each run acts once, however often its event is delivered, retried or cut off
\* by a crash: a ticket was opened by exactly one run, and its update_count is
\* the number of other runs of its fingerprint that the ledger records.
ActedOnce ==
    \A t \in TicketIds : tickets[t].status # "absent" =>
        /\ Cardinality(ActedOn(t, TRUE)) = 1
        /\ tickets[t].update_count = Cardinality(ActedOn(t, FALSE))
        /\ \A e \in ActedOn(t, TRUE) \cup ActedOn(t, FALSE) : FpOf[e] = tickets[t].fp

\* An acknowledged event is a concluded run, and a concluded run has acted: the
\* worker acknowledges last, and closes the run after the ledger's commit.
AckedIsConcluded ==
    /\ \A m \in (1 .. delivered) \ pel :
          stream[m] \in Events => runs[stream[m]].status = "concluded"
    /\ \A e \in Events :
          runs[e].status = "concluded" => ticket_actions[e] # NoAction

AuditRange(run) == SubSeq(logs[run.file[1]][run.file[2]], run.start + 1, run.end)

\* The byte range stored with a concluded run holds one complete attempt and
\* nothing else: its event, transition and action lines, numbered in order, the
\* last naming the ticket in the ledger.  For one worker at a time.
ConcludedIsAudited ==
    \A e \in Events : runs[e].status = "concluded" =>
        LET range == AuditRange(runs[e])
        IN  /\ [i \in DOMAIN range |-> range[i].kind] = <<"event", "transition", "action">>
            /\ \A i \in DOMAIN range :
                  range[i].run = e /\ range[i].seq = range[1].seq + (i - 1)
            /\ range[3].ticket = ticket_actions[e].ticket

\* A concluded run is never reopened, repointed or closed again, whatever is
\* redelivered (the status test of open_run).  For one worker at a time.
ConcludedIsFinal ==
    [][\A e \in Events : runs[e].status = "concluded" => runs'[e] = runs[e]]_runs

Abstract == INSTANCE Tickets WITH Runs <- Events

\* The statements of apply, interleaved with other workers', with recoveries and
\* with failures, amount to one indivisible action per run.
ImplementsTickets == Abstract!Spec

Held(m) == \E w \in Workers : \E i \in DOMAIN batch[w] : batch[w][i] = m

\* Every message is delivered and let go of, acknowledged or left pending, unless
\* every worker's task has died: a failing message does not hold up the others.
EveryMessageSettles ==
    \A m \in 1 .. MaxMessages :
        m <= Len(stream) ~> \/ m <= delivered /\ ~Held(m)
                           \/ \A w \in Workers : pc[w] = "dead"

\* What the module docstring of worker.py says: "A failing message must not wedge
\* the queue."  Every message of the stream gets delivered.
QueueNotWedged ==
    \A m \in 1 .. MaxMessages : m <= Len(stream) ~> m <= delivered

\* What the module docstring of actions/service.py says: "the loser of the race
\* finds the winner's ticket and updates it".  With no fault of Postgres, Redis
\* or the disk and no crash, every event that is enqueued concludes.
EventsConclude ==
    \A e \in Events :
        (\E m \in DOMAIN stream : stream[m] = e) ~> runs[e].status = "concluded"

\* What SPEC.md says of the recovery trigger: it "closes the open fixture ticket
\* in the same transaction that closes its event window", so that an open ticket
\* belongs to an incident that is still open.
OpenTicketHasOpenWindow ==
    \A t \in TicketIds : tickets[t].status = "open" =>
        \E e \in Events : FpOf[e] = tickets[t].fp /\ window[e] = "open"
=============================================================================
