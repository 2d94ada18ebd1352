------------------------------ MODULE Receiver ------------------------------
(***************************************************************************)
(* The Receiver: webhook handlers that admit alerts into the Postgres      *)
(* `events` table, and the outbox task that offers every admitted row to   *)
(* the Redis stream `agentevents`.                                         *)
(*                                                                         *)
(* Handlers and the outbox are asyncio tasks of one process, interleaved   *)
(* at every await, and each database transaction is a sequence of          *)
(* statements.  A lock lives exactly as long as its transaction, so who    *)
(* holds it is read off the program counters: a handler between `Lock` and *)
(* its commit holds the advisory lock of its fingerprint, and a process    *)
(* between `LockRow` and its commit holds the row lock of its target.      *)
(* A crash drops every connection and with it every lock.                  *)
(***************************************************************************)
EXTENDS Naturals, Sequences, FiniteSets

CONSTANTS
    Requests,      \* webhook deliveries: one handler each
    Outbox,        \* the outbox task
    EventIds,      \* the uuid4 values that rows of `events` can get
    NoEvent,       \* no event
    Fingerprints,
    NoFp,          \* a NULL fingerprint
    LockKey,       \* hashtext: fingerprint -> advisory lock key, may collide
    Payloads,      \* the verified, well-formed bodies: sequences of alerts
    Window,        \* DEDUPE_WINDOW, in clock ticks
    BatchLimit,    \* `limit` of one outbox pass
    MaxTime,       \* bound on the clock
    MaxFaults,     \* bound on XADD replies and receipts lost
    MaxCrashes     \* bound on process crashes

Alert == [kind : {"resolve", "fire"}, fp : Fingerprints]

ASSUME ConstantsAssumption ==
    /\ Outbox \notin Requests
    /\ NoEvent \notin EventIds
    /\ NoFp \notin Fingerprints
    /\ Window \in Nat \ {0}
    /\ MaxTime \in Nat \ {0} /\ MaxFaults \in Nat /\ MaxCrashes \in Nat
    /\ BatchLimit \in Nat \ {0}
    /\ Payloads \subseteq Seq(Alert)
    /\ DOMAIN LockKey = Fingerprints

VARIABLES
    now,           \* the clock
    events,        \* the table, a row per event id
    stream,        \* every message ever XADDed; its position is the message id
    pc,            \* where each handler and the outbox are
    received_at,   \* the handler's `received_at`, read when it starts
    todo,          \* alerts of the payload the handler has still to deal with
    target,        \* the event a process is dispatching
    is_duplicate,  \* the handler's `admission.is_duplicate`
    message_id,    \* the XADD reply a process holds, 0 before it has one
    results,       \* the handler's `results`, the body of its response
    snapshot,      \* the ids of the outbox's current pass not yet visited
    faults, crashes

handlerVars == <<received_at, todo, is_duplicate, results>>
vars == <<now, events, stream, pc, handlerVars, target, message_id, snapshot,
          faults, crashes>>

Processes == Requests \cup {Outbox}

\* NULL is 0: the clock and the message ids start at 1.
NoRow == [status |-> "absent", fp |-> NoFp, received_at |-> 0,
          dedupe_count |-> 0, window_closed_at |-> 0, queue_message_id |-> 0]

-----------------------------------------------------------------------------
(* Queries *)

Admitted(e) == events[e].status = "admitted"

\* Mutant: a closed window is closed again.
MutOpen(e, fp) == Admitted(e) /\ events[e].fp = fp

\* A row whose window is still open to duplicates of its fingerprint.
Open(e, fp) ==
    /\ Admitted(e)
    /\ events[e].fp = fp
    /\ events[e].window_closed_at = 0

\* Mutant: `received_at >= cutoff`.
MutInWindow(e, t) == events[e].received_at + Window >= t

\* `received_at > cutoff`, cutoff = the delivery's received_at - window.
InWindow(e, t) == events[e].received_at + Window > t

Matches(fp, t) == {e \in EventIds : Open(e, fp) /\ InWindow(e, t)}

Oldest(S) == {e \in S : \A f \in S : events[e].received_at <= events[f].received_at}

\* Mutant: the outbox forgets an incident once it is over.
MutPending ==
    {e \in EventIds : /\ Admitted(e)
                      /\ events[e].queue_message_id = 0
                      /\ events[e].window_closed_at = 0}

\* Rows still waiting for a receipt, `queued_at IS NULL`.
Pending == {e \in EventIds : Admitted(e) /\ events[e].queue_message_id = 0}

\* What one `pending_queue_event_ids` can return: the oldest rows, ties broken
\* arbitrarily, at most BatchLimit of them.
Batches ==
    {S \in SUBSET Pending :
        /\ Cardinality(S) <= BatchLimit
        /\ S # Pending => Cardinality(S) = BatchLimit
        /\ \A e \in S, f \in Pending \ S :
              events[e].received_at <= events[f].received_at}

Fp(r) == Head(todo[r]).fp

\* Mutant: a session lock, which a handler that fails does not give back.
MutAdvisoryHeld(r) ==
    \/ pc[r] \in {"lookup", "insert"}
    \/ pc[r] = "failed" /\ todo[r] # <<>>

AdvisoryHeld(r) == pc[r] \in {"lookup", "insert"}

\* Mutant: admit takes no advisory lock.
MutAdvisoryFree(r) == TRUE

AdvisoryFree(r) ==
    \A q \in Requests : AdvisoryHeld(q) => LockKey[Fp(q)] # LockKey[Fp(r)]

RowHeld(p) == pc[p] \in {"xadd", "mark"}

\* Mutant: SELECT without FOR UPDATE.
MutRowFree(e) == TRUE

RowFree(e) == \A p \in Processes : RowHeld(p) => target[p] # e

Up == pc[Outbox] # "down"

-----------------------------------------------------------------------------
Init ==
    /\ now = 1
    /\ events = [e \in EventIds |-> NoRow]
    /\ stream = <<>>
    /\ pc = [p \in Processes |-> IF p = Outbox THEN "scan" ELSE "idle"]
    /\ received_at = [r \in Requests |-> 0]
    /\ todo = [r \in Requests |-> <<>>]
    /\ target = [p \in Processes |-> NoEvent]
    /\ is_duplicate = [r \in Requests |-> FALSE]
    /\ message_id = [p \in Processes |-> 0]
    /\ results = [r \in Requests |-> <<>>]
    /\ snapshot = {}
    /\ faults = 0
    /\ crashes = 0

GoTo(p, from, to) ==
    /\ pc[p] = from
    /\ pc' = [pc EXCEPT ![p] = to]

Tick ==
    /\ now < MaxTime
    /\ now' = now + 1
    /\ UNCHANGED <<events, stream, pc, handlerVars, target, message_id,
                   snapshot, faults, crashes>>

-----------------------------------------------------------------------------
(* The handler up to its first transaction *)

\* The source's verifier rejects the delivery: 401, nothing is stored.
RejectUnverified(r) ==
    /\ Up
    /\ GoTo(r, "idle", "done")
    /\ UNCHANGED <<now, events, stream, handlerVars, target, message_id,
                   snapshot, faults, crashes>>

\* A verified body that does not normalize.
ReceiveMalformed(r) ==
    /\ Up
    /\ GoTo(r, "idle", "quarantine")
    /\ received_at' = [received_at EXCEPT ![r] = now]
    /\ UNCHANGED <<now, events, stream, todo, is_duplicate, results, target,
                   message_id, snapshot, faults, crashes>>

\* A verified body that normalizes: its resolved alerts, then its firing ones.
ReceiveValid(r) ==
    /\ Up
    /\ GoTo(r, "idle", "next")
    /\ received_at' = [received_at EXCEPT ![r] = now]
    /\ \E p \in Payloads : todo' = [todo EXCEPT ![r] = p]
    /\ UNCHANGED <<now, events, stream, is_duplicate, results, target,
                   message_id, snapshot, faults, crashes>>

\* The quarantine transaction: a row with neither fingerprint nor payload.
Quarantine(r) ==
    /\ GoTo(r, "quarantine", "done")
    /\ \E e \in EventIds :
          /\ events[e].status = "absent"
          /\ events' = [events EXCEPT ![e] =
                [NoRow EXCEPT !.status = "quarantined",
                              !.received_at = received_at[r],
                              !.dedupe_count = 1]]
    /\ UNCHANGED <<now, stream, handlerVars, target, message_id, snapshot,
                   faults, crashes>>

\* Mutant: the rows are found by the key of the lock, not by the fingerprint.
MutCloseWindow(r) ==
    /\ pc[r] = "next"
    /\ todo[r] # <<>>
    /\ Head(todo[r]).kind = "resolve"
    /\ events' = [e \in EventIds |->
          IF \E fp \in Fingerprints : LockKey[fp] = LockKey[Fp(r)] /\ Open(e, fp)
          THEN [events[e] EXCEPT !.window_closed_at = received_at[r]]
          ELSE events[e]]
    /\ todo' = [todo EXCEPT ![r] = Tail(@)]
    /\ UNCHANGED <<now, stream, pc, received_at, is_duplicate, results, target,
                   message_id, snapshot, faults, crashes>>

\* close_window: one UPDATE over every open row of the fingerprint, which
\* waits for the rows a dispatcher holds and takes no advisory lock.
CloseWindow(r) ==
    /\ pc[r] = "next"
    /\ todo[r] # <<>>
    /\ Head(todo[r]).kind = "resolve"
    /\ \A e \in EventIds : Open(e, Fp(r)) => RowFree(e)
    /\ events' = [e \in EventIds |->
                     IF Open(e, Fp(r))
                     THEN [events[e] EXCEPT !.window_closed_at = received_at[r]]
                     ELSE events[e]]
    /\ todo' = [todo EXCEPT ![r] = Tail(@)]
    /\ UNCHANGED <<now, stream, pc, received_at, is_duplicate, results, target,
                   message_id, snapshot, faults, crashes>>

-----------------------------------------------------------------------------
(* admit *)

\* pg_advisory_xact_lock(hashtext(fingerprint))
Lock(r) ==
    /\ GoTo(r, "next", "lookup")
    /\ todo[r] # <<>>
    /\ Head(todo[r]).kind = "fire"
    /\ AdvisoryFree(r)
    /\ UNCHANGED <<now, events, stream, handlerVars, target, message_id,
                   snapshot, faults, crashes>>

\* The UPDATE finds the oldest open row in the window; the commit follows it.
CountDuplicate(r) ==
    /\ GoTo(r, "lookup", "dispatch")
    /\ \E e \in Oldest(Matches(Fp(r), received_at[r])) :
          /\ RowFree(e)
          /\ events' = [events EXCEPT ![e].dedupe_count = @ + 1]
          /\ target' = [target EXCEPT ![r] = e]
    /\ is_duplicate' = [is_duplicate EXCEPT ![r] = TRUE]
    /\ UNCHANGED <<now, stream, received_at, todo, results, message_id,
                   snapshot, faults, crashes>>

\* The UPDATE finds none, so the handler goes on to the INSERT.
MissWindow(r) ==
    /\ GoTo(r, "lookup", "insert")
    /\ Matches(Fp(r), received_at[r]) = {}
    /\ UNCHANGED <<now, events, stream, handlerVars, target, message_id,
                   snapshot, faults, crashes>>

\* Mutant: a new row starts with no alert counted.
MutInsertEvent(r) ==
    /\ GoTo(r, "insert", "dispatch")
    /\ \E e \in EventIds :
          /\ events[e].status = "absent"
          /\ events' = [events EXCEPT ![e] =
                [NoRow EXCEPT !.status = "admitted", !.fp = Fp(r),
                              !.received_at = received_at[r]]]
          /\ target' = [target EXCEPT ![r] = e]
    /\ is_duplicate' = [is_duplicate EXCEPT ![r] = FALSE]
    /\ UNCHANGED <<now, stream, received_at, todo, results, message_id,
                   snapshot, faults, crashes>>

InsertEvent(r) ==
    /\ GoTo(r, "insert", "dispatch")
    /\ \E e \in EventIds :
          /\ events[e].status = "absent"
          /\ events' = [events EXCEPT ![e] =
                [NoRow EXCEPT !.status = "admitted",
                              !.fp = Fp(r),
                              !.received_at = received_at[r],
                              !.dedupe_count = 1]]
          /\ target' = [target EXCEPT ![r] = e]
    /\ is_duplicate' = [is_duplicate EXCEPT ![r] = FALSE]
    /\ UNCHANGED <<now, stream, received_at, todo, results, message_id,
                   snapshot, faults, crashes>>

-----------------------------------------------------------------------------
(* dispatch_event, run by a handler after admit and by the outbox *)

\* Mutant: the result is built after the target is forgotten.
MutReturn(p, m) ==
    /\ target' = [target EXCEPT ![p] = NoEvent]
    /\ message_id' = [message_id EXCEPT ![p] = 0]
    /\ pc' = [pc EXCEPT ![p] = IF p = Outbox THEN "visit" ELSE "next"]
    /\ snapshot' = IF p = Outbox THEN snapshot \ {target[p]} ELSE snapshot
    /\ IF p = Outbox THEN UNCHANGED <<todo, results>>
       ELSE /\ todo' = [todo EXCEPT ![p] = Tail(@)]
            /\ results' = [results EXCEPT ![p] = Append(@,
                  [event_id |-> target'[p], fp |-> Fp(p),
                   is_duplicate |-> is_duplicate[p], message_id |-> m])]

\* Back to the caller.  A handler appends the result of this alert and takes
\* the next one; the outbox goes to the next id of its pass.
Return(p, m) ==
    /\ target' = [target EXCEPT ![p] = NoEvent]
    /\ message_id' = [message_id EXCEPT ![p] = 0]
    /\ IF p = Outbox
       THEN /\ pc' = [pc EXCEPT ![p] = "visit"]
            /\ snapshot' = snapshot \ {target[p]}
            /\ UNCHANGED <<todo, results>>
       ELSE /\ pc' = [pc EXCEPT ![p] = "next"]
            /\ todo' = [todo EXCEPT ![p] = Tail(@)]
            /\ results' = [results EXCEPT ![p] = Append(@,
                  [event_id |-> target[p], fp |-> Fp(p),
                   is_duplicate |-> is_duplicate[p], message_id |-> m])]
            /\ UNCHANGED snapshot

\* SELECT ... FOR UPDATE on a row that has a receipt already: it is returned.
AlreadyQueued(p) ==
    /\ pc[p] = "dispatch"
    /\ RowFree(target[p])
    /\ events[target[p]].queue_message_id # 0
    /\ Return(p, events[target[p]].queue_message_id)
    /\ UNCHANGED <<now, events, stream, received_at, is_duplicate, faults,
                   crashes>>

\* SELECT ... FOR UPDATE on a row that is pending: its lock is kept.
LockRow(p) ==
    /\ GoTo(p, "dispatch", "xadd")
    /\ RowFree(target[p])
    /\ events[target[p]].queue_message_id = 0
    /\ UNCHANGED <<now, events, stream, handlerVars, target, message_id,
                   snapshot, faults, crashes>>

\* Mutant: the receipt is the first id of the stream, not the reply of XADD.
MutPublish(p) ==
    /\ GoTo(p, "xadd", "mark")
    /\ stream' = Append(stream, target[p])
    /\ message_id' = [message_id EXCEPT ![p] = 1]
    /\ UNCHANGED <<now, events, handlerVars, target, snapshot, faults, crashes>>

\* producer.publish, answered.
Publish(p) ==
    /\ GoTo(p, "xadd", "mark")
    /\ stream' = Append(stream, target[p])
    /\ message_id' = [message_id EXCEPT ![p] = Len(stream) + 1]
    /\ UNCHANGED <<now, events, handlerVars, target, snapshot, faults, crashes>>

\* mark_queued, which leaves a row with a receipt alone, and the commit.
MarkQueued(p) ==
    /\ pc[p] = "mark"
    /\ events' = IF events[target[p]].queue_message_id = 0
                 THEN [events EXCEPT ![target[p]].queue_message_id = message_id[p]]
                 ELSE events
    /\ Return(p, message_id[p])
    /\ UNCHANGED <<now, stream, received_at, is_duplicate, faults, crashes>>

\* An exception out of dispatch_event rolls its transaction back.  The handler
\* catches it and answers "pending"; the outbox gives up the pass.
Abort(p) ==
    IF p = Outbox
    THEN /\ pc' = [pc EXCEPT ![p] = "scan"]
         /\ target' = [target EXCEPT ![p] = NoEvent]
         /\ message_id' = [message_id EXCEPT ![p] = 0]
         /\ snapshot' = {}
         /\ UNCHANGED <<todo, results>>
    ELSE Return(p, 0)

\* Postgres refuses the SELECT, or Redis the XADD.
DispatchFails(p) ==
    /\ pc[p] \in {"dispatch", "xadd"}
    /\ Abort(p)
    /\ UNCHANGED <<now, events, stream, received_at, is_duplicate, faults,
                   crashes>>

\* Redis appends the message and the reply is lost.
ReplyLost(p) ==
    /\ pc[p] = "xadd"
    /\ faults < MaxFaults
    /\ faults' = faults + 1
    /\ stream' = Append(stream, target[p])
    /\ Abort(p)
    /\ UNCHANGED <<now, events, received_at, is_duplicate, crashes>>

\* The receipt's UPDATE or its commit fails after the XADD.
ReceiptLost(p) ==
    /\ pc[p] = "mark"
    /\ faults < MaxFaults
    /\ faults' = faults + 1
    /\ Abort(p)
    /\ UNCHANGED <<now, events, stream, received_at, is_duplicate, crashes>>

-----------------------------------------------------------------------------
(* The end of a handler *)

Respond(r) ==
    /\ todo[r] = <<>>
    /\ GoTo(r, "next", "done")
    /\ UNCHANGED <<now, events, stream, handlerVars, target, message_id,
                   snapshot, faults, crashes>>

\* A statement outside dispatch_event fails: its transaction is rolled back and
\* the handler ends in a 500, the alerts before it staying as committed.
HandlerFails(r) ==
    /\ \/ pc[r] \in {"quarantine", "lookup", "insert"}
       \/ pc[r] = "next" /\ todo[r] # <<>>
    /\ pc' = [pc EXCEPT ![r] = "failed"]
    /\ UNCHANGED <<now, events, stream, handlerVars, target, message_id,
                   snapshot, faults, crashes>>

-----------------------------------------------------------------------------
(* The outbox task: _run and dispatch_pending *)

Scan ==
    /\ Pending # {}
    /\ GoTo(Outbox, "scan", "visit")
    /\ snapshot' \in Batches
    /\ UNCHANGED <<now, events, stream, handlerVars, target, message_id,
                   faults, crashes>>

Visit ==
    /\ GoTo(Outbox, "visit", "dispatch")
    /\ \E e \in Oldest(snapshot) : target' = [target EXCEPT ![Outbox] = e]
    /\ UNCHANGED <<now, events, stream, handlerVars, message_id, snapshot,
                   faults, crashes>>

EndPass ==
    /\ snapshot = {}
    /\ GoTo(Outbox, "visit", "scan")
    /\ UNCHANGED <<now, events, stream, handlerVars, target, message_id,
                   snapshot, faults, crashes>>

-----------------------------------------------------------------------------
(* The process *)

\* Every handler under way dies unanswered.
Crash ==
    /\ Up
    /\ crashes < MaxCrashes
    /\ crashes' = crashes + 1
    /\ pc' = [p \in Processes |->
                 IF p = Outbox THEN "down"
                 ELSE IF pc[p] \in {"idle", "done"} THEN pc[p] ELSE "failed"]
    /\ target' = [target EXCEPT ![Outbox] = NoEvent]
    /\ message_id' = [p \in Processes |-> 0]
    /\ snapshot' = {}
    /\ UNCHANGED <<now, events, stream, handlerVars, faults>>

Restart ==
    /\ GoTo(Outbox, "down", "scan")
    /\ UNCHANGED <<now, events, stream, handlerVars, target, message_id,
                   snapshot, faults, crashes>>

\* Every delivery answered or dead, nothing pending: the process sleeps.
Asleep ==
    /\ \A r \in Requests : pc[r] \in {"done", "failed"}
    /\ pc[Outbox] = "scan"
    /\ Pending = {}
    /\ UNCHANGED vars

Handler(r) ==
    \/ RejectUnverified(r) \/ ReceiveMalformed(r) \/ ReceiveValid(r)
    \/ Quarantine(r) \/ CloseWindow(r)
    \/ Lock(r) \/ CountDuplicate(r) \/ MissWindow(r) \/ InsertEvent(r)
    \/ Respond(r) \/ HandlerFails(r)

Dispatch(p) ==
    \/ AlreadyQueued(p) \/ LockRow(p) \/ Publish(p) \/ MarkQueued(p)
    \/ DispatchFails(p) \/ ReplyLost(p) \/ ReceiptLost(p)

Next ==
    \/ \E r \in Requests : Handler(r)
    \/ \E p \in Processes : Dispatch(p)
    \/ Scan \/ Visit \/ EndPass
    \/ Tick \/ Crash \/ Restart \/ Asleep

Spec == Init /\ [][Next]_vars
-----------------------------------------------------------------------------
(* Fairness.  asyncio runs every task that can go on, and Postgres queues     *)
(* lock waiters first come first served, so a handler that is let through     *)
(* again and again takes its step (any step: it may be a failure).  Outages   *)
(* end, so the outbox, which retries for ever, is not refused for ever; the   *)
(* process is started again by its operator.  Nothing makes a delivery come,  *)
(* a statement fail or the process crash.                                     *)

HandlerStep(r) ==
    \/ Quarantine(r) \/ CloseWindow(r) \/ Lock(r) \/ CountDuplicate(r)
    \/ MissWindow(r) \/ InsertEvent(r) \/ Respond(r) \/ Dispatch(r)

Fairness ==
    /\ \A r \in Requests : SF_vars(HandlerStep(r))
    /\ SF_vars(LockRow(Outbox) \/ AlreadyQueued(Outbox))
    /\ SF_vars(Publish(Outbox))
    /\ WF_vars(MarkQueued(Outbox))
    /\ WF_vars(Scan \/ Visit \/ EndPass \/ Restart)

FairSpec == Spec /\ Fairness

-----------------------------------------------------------------------------
(* Properties *)

Row == [status : {"absent", "admitted", "quarantined"},
        fp : Fingerprints \cup {NoFp}, received_at : Nat, dedupe_count : Nat,
        window_closed_at : Nat, queue_message_id : Nat]

Result == [event_id : EventIds, fp : Fingerprints, is_duplicate : BOOLEAN,
           message_id : Nat]

HandlerPc == {"idle", "quarantine", "next", "lookup", "insert", "dispatch",
              "xadd", "mark", "done", "failed"}
OutboxPc == {"down", "scan", "visit", "dispatch", "xadd", "mark"}

\* The type invariant: every variable of the handlers, the outbox, the table
\* and the stream keeps its shape.
TypeOK ==
    /\ now \in Nat \ {0}
    /\ events \in [EventIds -> Row]
    /\ stream \in Seq(EventIds)
    /\ pc \in [Processes -> HandlerPc \cup OutboxPc]
    /\ pc[Outbox] \in OutboxPc
    /\ \A r \in Requests : pc[r] \in HandlerPc
    /\ received_at \in [Requests -> Nat]
    /\ todo \in [Requests -> Seq(Alert)]
    /\ target \in [Processes -> EventIds \cup {NoEvent}]
    /\ is_duplicate \in [Requests -> BOOLEAN]
    /\ message_id \in [Processes -> Nat]
    /\ results \in [Requests -> Seq(Result)]
    /\ snapshot \in SUBSET EventIds
    /\ faults \in Nat /\ crashes \in Nat

\* Two rows of one fingerprint that both still take duplicates are at least a
\* whole window apart: however deliveries race (repository.admit), no incident
\* is split over two rows inside DEDUPE_WINDOW.
OneOpenWindow ==
    \A fp \in Fingerprints : \A e, f \in EventIds :
        Open(e, fp) /\ Open(f, fp) /\ e # f =>
            \/ events[e].received_at + Window <= events[f].received_at
            \/ events[f].received_at + Window <= events[e].received_at

Answers(e) ==
    UNION {{r} \X {i \in DOMAIN results[r] : results[r][i].event_id = e} :
           r \in Requests}

\* dedupe_count of a row is exactly the number of alerts answered with it plus
\* those admitted to it and still dispatching, or cut off there by a crash:
\* no admission is lost or counted twice, whichever alerts race in admit.
DedupeCountExact ==
    \A e \in EventIds : Admitted(e) =>
        events[e].dedupe_count =
            Cardinality(Answers(e)) + Cardinality({r \in Requests : target[r] = e})

\* A receipt stored on a row (mark_queued) is the id of a message that carries
\* that row's event, so no two rows share a receipt.
ReceiptNamesEvent ==
    \A e \in EventIds :
        LET m == events[e].queue_message_id
        IN  m # 0 => m \in DOMAIN stream /\ stream[m] = e

\* An event is XADDed again only after an XADD reply, a receipt or the process
\* was lost: the row lock of event_for_queue keeps the handlers' fast path and
\* the outbox from publishing one event twice by themselves.
RepeatsNeedFaults ==
    \A e \in EventIds :
        Cardinality({m \in DOMAIN stream : stream[m] = e}) <= 1 + faults + crashes

\* A response tells the truth: the row it names is admitted under the alert's
\* fingerprint, the alert was received inside that row's window, the message it
\* names carries that row's event, and each row is answered as new ("accepted")
\* at most once.
ResponsesTruthful ==
    \A r \in Requests : \A i \in DOMAIN results[r] :
        LET a == results[r][i]
        IN  /\ Admitted(a.event_id)
            /\ events[a.event_id].fp = a.fp
            /\ received_at[r] < events[a.event_id].received_at + Window
            /\ a.message_id # 0 => a.message_id \in DOMAIN stream /\ stream[a.message_id] = a.event_id
            /\ \A q \in Requests : \A j \in DOMAIN results[q] :
                  /\ results[q][j].event_id = a.event_id
                  /\ ~a.is_duplicate /\ ~results[q][j].is_duplicate
                  => q = r /\ i = j

RowKept(old, new) ==
    old.status # "absent" =>
        /\ new.status = old.status
        /\ new.fp = old.fp
        /\ new.received_at = old.received_at
        /\ new.dedupe_count >= old.dedupe_count
        /\ old.window_closed_at # 0 => new.window_closed_at = old.window_closed_at
        /\ old.queue_message_id # 0 => new.queue_message_id = old.queue_message_id

\* What a row says of the past never changes: its kind, fingerprint and
\* received_at, the time its window was closed, its receipt; and its count
\* never falls (close_window and mark_queued are idempotent).
RowHistoryStable ==
    [][\A e \in EventIds : RowKept(events[e], events'[e])]_events

\* The table read as the abstract Inbox: a receipt becomes "queued".
Incidents ==
    [e \in EventIds |->
        [status |-> events[e].status, fp |-> events[e].fp,
         received_at |-> events[e].received_at,
         dedupe_count |-> events[e].dedupe_count,
         window_closed_at |-> events[e].window_closed_at,
         queued |-> events[e].queue_message_id # 0]]

Abstract == INSTANCE Inbox
    WITH Ids <- EventIds, Times <- 1 .. MaxTime, incidents <- Incidents

\* admit is indivisible although it is several statements: every step of the
\* handlers and the outbox is a step of the Inbox or leaves its state alone.
ImplementsInbox == Abstract!Spec

\* The table read as a worker meets it: windows and fingerprints of the admitted
\* rows.
Windows ==
    [e \in EventIds |-> IF ~Admitted(e) THEN "none"
                        ELSE IF events[e].window_closed_at = 0 THEN "open" ELSE "closed"]

FpColumn == [e \in EventIds |-> IF Admitted(e) THEN events[e].fp ELSE NoFp]

Handover == INSTANCE Feed
    WITH Events <- EventIds, window <- Windows, fp <- FpColumn

\* What the workers rely on, through outages and crashes: XADD puts only events
\* on the stream whose admitted row is committed (never a quarantined one), a
\* row's window closes once, with every other open window of its fingerprint,
\* and its fingerprint stays: all that repository.admit, close_window and
\* dispatch_event let a worker see is a behaviour of the Feed.
ImplementsFeed == Handover!Spec

\* Every admitted event gets its receipt in the end, across Redis outages,
\* lost replies and crashes of the process (the outbox of delivery.py).
AdmittedIsPublished ==
    \A e \in EventIds : Admitted(e) ~> events[e].queue_message_id # 0

\* Every delivery that starts is answered, or its handler dies: no wait for an
\* advisory or a row lock lasts for ever.
HandlersFinish ==
    \A r \in Requests : pc[r] # "idle" ~> pc[r] \in {"done", "failed"}
=============================================================================
