------------------------------ MODULE Tickets -------------------------------
(***************************************************************************)
(* What Actions promises, with no workers, queue, retries or transactions: *)
(* each run acts once, by opening the ticket of its fingerprint or, when   *)
(* one is open, by commenting on it; and a recovery closes the open ticket.*)
(***************************************************************************)
EXTENDS Naturals

CONSTANTS Runs, TicketIds, NoTicket, Fingerprints, NoFp,
          FpOf            \* the fingerprint of each run's event

VARIABLES tickets, ticket_actions

NoSuchTicket == [status |-> "absent", fp |-> NoFp, update_count |-> 0]
NoAction == [ticket |-> NoTicket, created |-> FALSE, update_count |-> 0]

OpenTickets(fp) ==
    {t \in TicketIds : tickets[t].status = "open" /\ tickets[t].fp = fp}

Init ==
    /\ tickets = [t \in TicketIds |-> NoSuchTicket]
    /\ ticket_actions = [run \in Runs |-> NoAction]

\* A run finds no open ticket of its fingerprint and opens one ...
OpenTicket(run, t) ==
    /\ ticket_actions[run] = NoAction
    /\ OpenTickets(FpOf[run]) = {}
    /\ tickets[t].status = "absent"
    /\ tickets' = [tickets EXCEPT ![t] =
          [status |-> "open", fp |-> FpOf[run], update_count |-> 0]]
    /\ ticket_actions' = [ticket_actions EXCEPT ![run] =
          [ticket |-> t, created |-> TRUE, update_count |-> 0]]

\* ... or comments on the one there is.
Comment(run, t) ==
    /\ ticket_actions[run] = NoAction
    /\ OpenTickets(FpOf[run]) = {t}
    /\ tickets' = [tickets EXCEPT ![t].update_count = @ + 1]
    /\ ticket_actions' = [ticket_actions EXCEPT ![run] =
          [ticket |-> t, created |-> FALSE, update_count |-> tickets[t].update_count + 1]]

\* The incident recovers.
Recover(fp) ==
    /\ tickets' = [t \in TicketIds |->
          IF t \in OpenTickets(fp) THEN [tickets[t] EXCEPT !.status = "closed"]
          ELSE tickets[t]]
    /\ UNCHANGED ticket_actions

Next ==
    \/ \E run \in Runs, t \in TicketIds : OpenTicket(run, t) \/ Comment(run, t)
    \/ \E fp \in Fingerprints : Recover(fp)

Spec == Init /\ [][Next]_<<tickets, ticket_actions>>
=============================================================================
