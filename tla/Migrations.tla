----------------------------- MODULE Migrations -----------------------------
(***************************************************************************)
(* The four revisions of the schema, applied and taken back while rows are *)
(* in the tables.  The events are those of one incident; of what the       *)
(* program writes only the rows that a migration touches are kept, and     *)
(* each transaction is a step (Receiver and Worker have the detail).       *)
(***************************************************************************)
EXTENDS Integers, FiniteSets

CONSTANTS
    Events,
    MaxDowngrades    \* bound on `alembic downgrade -1`

VARIABLES
    revision,     \* alembic_version, 0 before the first
    row,          \* per event what the tables hold of it
    ticket,       \* the incident's newest ticket: "none", "open" or "closed"
    unacked,      \* messages of the stream that are not acknowledged
    downgrades,
    offered,      \* history: how often each event was given to the stream
    acts,         \* history: how often each event's run wrote to a ticket
    recovered,    \* history: events whose window a recovery closed
    low           \* history: the lowest revision since the event was admitted

history == <<offered, acts, recovered, low>>
db == <<revision, row, ticket>>
dbvars == <<db, unacked, downgrades, history>>

\* Mutant: the code expects a revision that no migration makes.
MutHead == 5

\* SCHEMA_HEAD, the newest revision
Head == 4

\* `queue` is "absent" without the columns of 0004, and `acted` says that the
\* run has a row in ticket_actions.
NoRow == [window |-> "none", queue |-> "absent", run |-> "none",
          conclusion |-> FALSE, acted |-> FALSE]

\* Rows of `events`; a run may be there without one.
Stored(rows) == {e \in Events : rows[e].window # "none"}

-----------------------------------------------------------------------------
(* The revisions, as functions of the rows *)

\* runs_concluded_has_conclusion: ALTER TABLE fails on a row that breaks it.
Up0003Fails(rows) == \E e \in Events : rows[e].run = "concluded" /\ ~rows[e].conclusion

\* Mutant: no backfill.
MutUp0004(rows) ==
    [e \in Events |->
        IF e \in Stored(rows) THEN [rows[e] EXCEPT !.queue = "pending"] ELSE rows[e]]

\* Every row there is counts as offered to the stream already.
Up0004(rows) ==
    [e \in Events |->
        IF e \in Stored(rows) THEN [rows[e] EXCEPT !.queue = "queued"] ELSE rows[e]]

\* queued_at, queue_message_id and ticket_actions are dropped.
Down0004(rows) == [e \in Events |-> [rows[e] EXCEPT !.queue = "absent", !.acted = FALSE]]

\* Mutant: the downgrade forgets the window columns, too.
MutDown0003(rows) ==
    [e \in Events |-> [rows[e] EXCEPT !.conclusion = FALSE,
                                      !.window = IF @ = "closed" THEN "open" ELSE @]]

\* runs.conclusion is dropped, runs.status is not; `tickets` goes.
Down0003(rows) == [e \in Events |-> [rows[e] EXCEPT !.conclusion = FALSE]]

\* Mutant: the runs are dropped with it.
MutDown0002(rows) ==
    [e \in Events |-> [rows[e] EXCEPT !.window = IF @ = "closed" THEN "open" ELSE @,
                                      !.run = "none"]]

\* window_closed_at is dropped: when it comes back every window is open.
Down0002(rows) ==
    [e \in Events |-> [rows[e] EXCEPT !.window = IF @ = "closed" THEN "open" ELSE @]]

\* Both tables go.
Down0001(rows) == [e \in Events |-> NoRow]

Down(rows) ==
    CASE revision = 4 -> Down0004(rows)
      [] revision = 3 -> Down0003(rows)
      [] revision = 2 -> Down0002(rows)
      [] revision = 1 -> Down0001(rows)

-----------------------------------------------------------------------------
Init ==
    /\ revision = 0
    /\ row = [e \in Events |-> NoRow]
    /\ ticket = "none"
    /\ unacked = {}
    /\ downgrades = 0
    /\ offered = [e \in Events |-> 0]
    /\ acts = [e \in Events |-> 0]
    /\ recovered = {}
    /\ low = [e \in Events |-> Head]

\* `alembic upgrade head`: all the missing revisions in one transaction.
UpgradeFails == revision < 3 /\ Up0003Fails(row)

UpgradeHead ==
    /\ ~UpgradeFails
    /\ row' = IF revision < 4 THEN Up0004(row) ELSE row
    /\ revision' = Head
    /\ UNCHANGED <<ticket, unacked, downgrades, history>>

\* `alembic downgrade -1`
Downgrade ==
    /\ revision > 0
    /\ downgrades < MaxDowngrades
    /\ row' = Down(row)
    /\ ticket' = IF revision = 3 THEN "none" ELSE ticket
    /\ revision' = revision - 1
    /\ downgrades' = downgrades + 1
    /\ low' = [e \in Events |->
                  IF offered[e] > 0 \/ e \in Stored(row)
                  THEN IF revision - 1 < low[e] THEN revision - 1 ELSE low[e]
                  ELSE low[e]]
    /\ UNCHANGED <<unacked, offered, acts, recovered>>

-----------------------------------------------------------------------------
(* What the program writes.  It goes on when a migration is taken back under    *)
(* it: a statement works from the revision that made its columns on, and one    *)
(* that fails changes nothing.                                                  *)

Write(since, e, r) ==
    /\ revision >= since
    /\ row' = [row EXCEPT ![e] = r]
    /\ UNCHANGED <<revision, downgrades, recovered>>

\* A firing alert outside any open window gets a row, which is the outbox entry
\* when there is an outbox.
Admit(e) ==
    /\ row[e].window = "none" /\ offered[e] = 0 /\ low[e] = Head
    /\ \A f \in Events : row[f].window # "open"
    /\ Write(2, e, [row[e] EXCEPT !.window = "open",
                                  !.queue = IF revision < 4 THEN "absent" ELSE "pending"])
    /\ low' = [low EXCEPT ![e] = revision]
    /\ UNCHANGED <<ticket, unacked, offered, acts>>

\* XADD and the mark in the row.
Publish(e) ==
    /\ row[e].queue = "pending"
    /\ Write(4, e, [row[e] EXCEPT !.queue = "queued"])
    /\ offered' = [offered EXCEPT ![e] = @ + 1]
    /\ unacked' = unacked \cup {e}
    /\ UNCHANGED <<ticket, acts, low>>

OpenRun(e) ==
    /\ e \in unacked /\ row[e].run = "none"
    /\ Write(3, e, [row[e] EXCEPT !.run = "running"])
    /\ UNCHANGED <<ticket, unacked, offered, acts, low>>

\* apply: a ticket is opened or updated, and the ledger remembers.
Apply(e) ==
    /\ e \in unacked /\ row[e].run = "running" /\ ~row[e].acted
    /\ Write(4, e, [row[e] EXCEPT !.acted = TRUE])
    /\ ticket' = "open"
    /\ acts' = [acts EXCEPT ![e] = @ + 1]
    /\ UNCHANGED <<unacked, offered, low>>

\* After apply, whether or not the ledger is still there.
CloseRun(e) ==
    /\ e \in unacked /\ row[e].run = "running" /\ acts[e] > 0
    /\ revision = 4 => row[e].acted
    /\ Write(3, e, [row[e] EXCEPT !.run = "concluded", !.conclusion = TRUE])
    /\ UNCHANGED <<ticket, unacked, offered, acts, low>>

\* The acknowledgement, at once or on the redelivery after a crash.
Acknowledge(e) ==
    /\ e \in unacked /\ row[e].run = "concluded"
    /\ unacked' = unacked \ {e}
    /\ UNCHANGED <<db, downgrades, history>>

\* close_window, and the trigger of 0004.
Recover ==
    LET closing == {e \in Events : row[e].window = "open"}
    IN  /\ revision >= 2
        /\ closing # {}
        /\ row' = [e \in Events |->
                      IF e \in closing THEN [row[e] EXCEPT !.window = "closed"] ELSE row[e]]
        /\ ticket' = IF revision = 4 /\ ticket = "open" THEN "closed" ELSE ticket
        /\ recovered' = recovered \cup closing
        /\ UNCHANGED <<revision, unacked, downgrades, offered, acts, low>>

Program ==
    \/ \E e \in Events :
          \/ Admit(e) \/ Publish(e)
          \/ OpenRun(e) \/ Apply(e) \/ CloseRun(e) \/ Acknowledge(e)
    \/ Recover
=============================================================================
