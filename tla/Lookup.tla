------------------------------- MODULE Lookup -------------------------------
(***************************************************************************)
(* GET /runs/{fingerprint}: what an operator is told about an incident     *)
(* while the workers go on.  It is one SELECT, so it reads one state and   *)
(* changes nothing.                                                        *)
(*                                                                         *)
(* "The newest" run or ticket is left open.  started_at and created_at are *)
(* read from the clock of the worker's host, before the row's lock is      *)
(* waited for, and a running row that is claimed again gets a new          *)
(* started_at; so the rows can be in any order, and what follows holds for *)
(* all of them.                                                            *)
(***************************************************************************)
EXTENDS Worker

Started(fp) == {e \in Events : FpOf[e] = fp /\ runs[e].status # "none"}
TicketsOf(fp) == {t \in TicketIds : tickets[t].status # "absent" /\ tickets[t].fp = fp}

\* Mutant: the newest ticket of the incident, whatever the ledger says.
MutJoined(e) == IF TicketsOf(FpOf[e]) = {} THEN {NoTicket} ELSE TicketsOf(FpOf[e])

\* The rows that the LEFT JOIN can give a run: the ledger's, or else the newest
\* of its fingerprint, or none.
Joined(e) ==
    IF ticket_actions[e] # NoAction THEN {ticket_actions[e].ticket}
    ELSE IF TicketsOf(FpOf[e]) # {} THEN TicketsOf(FpOf[e]) ELSE {NoTicket}

\* The response for run e joined with ticket t.  The id it shows, external_id,
\* is made from the fingerprint alone.
Answer(e, t) ==
    LET row == IF t = NoTicket THEN NoSuchTicket ELSE tickets[t]
    IN  [run |-> e, status |-> runs[e].status,
         joined |-> t, ticket |-> row.fp, ticket_updates |-> row.update_count,
         file |-> runs[e].file, start |-> runs[e].start, end |-> runs[e].end]

\* The answers that the query can give for a fingerprint; none is a 404.
run_for(fp) == UNION {{Answer(e, t) : t \in Joined(e)} : e \in Started(fp)}

-----------------------------------------------------------------------------
(* Properties *)

\* An answer never shows another incident's ticket, and one that says "concluded"
\* shows the ticket that this very run acted on, with its action counted:
\* run_for's COALESCE, close_run after the ledger's commit, however many tickets
\* the incident has had and whoever is in the middle of apply.
AnswerTruthful ==
    \A fp \in Fingerprints : \A a \in run_for(fp) :
        /\ a.joined # NoTicket => a.ticket = fp
        /\ a.status = "concluded" =>
              /\ a.joined # NoTicket
              /\ a.joined = ticket_actions[a.run].ticket
              /\ a.ticket_updates >= ticket_actions[a.run].update_count

\* The next answer about the same run: still concluded, from the same start of
\* the same file, on the same ticket, whose count only grows.
Upholds(b, a) ==
    /\ b.run = a.run /\ b.status = a.status
    /\ b.joined = a.joined /\ b.ticket = a.ticket /\ b.ticket_updates >= a.ticket_updates
    /\ b.file = a.file /\ b.start = a.start

\* What an operator was told of a concluded run stays true, with any number of
\* workers on the run: no redelivery reopens it, points it at another attempt or
\* gives it another ticket (open_run's status test, apply's ledger).  Only the
\* end offset may change, because close_run tests no status.
AnswerStands ==
    [][\A fp \in Fingerprints : \A a \in run_for(fp) :
          a.status = "concluded" => \E b \in run_for(fp)' : Upholds(b, a)]_vars
=============================================================================
