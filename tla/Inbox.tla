------------------------------- MODULE Inbox --------------------------------
(***************************************************************************)
(* What the Receiver promises, with no handlers, locks, transactions or    *)
(* crashes: a table of incidents in which an alert either joins the oldest *)
(* open incident of its fingerprint or, when none is open in its window,   *)
(* opens a new one, in one indivisible step; a recovery ends every open    *)
(* incident of its fingerprint; and each incident is marked as handed to   *)
(* the queue once.                                                         *)
(***************************************************************************)
EXTENDS Naturals

CONSTANTS Ids, Fingerprints, NoFp, Window, Times

VARIABLE incidents

Nothing == [status |-> "absent", fp |-> NoFp, received_at |-> 0,
            dedupe_count |-> 0, window_closed_at |-> 0, queued |-> FALSE]

OpenIncidents(fp) ==
    {i \in Ids : /\ incidents[i].status = "admitted"
                 /\ incidents[i].fp = fp
                 /\ incidents[i].window_closed_at = 0}

\* The open incidents an alert of fp received at t belongs to.
Candidates(fp, t) ==
    {i \in OpenIncidents(fp) : incidents[i].received_at + Window > t}

Init == incidents = [i \in Ids |-> Nothing]

\* An alert of fp received at t joins the oldest of them ...
Join(fp, t) ==
    \E i \in Candidates(fp, t) :
        /\ \A j \in Candidates(fp, t) :
              incidents[i].received_at <= incidents[j].received_at
        /\ incidents' = [incidents EXCEPT ![i].dedupe_count = @ + 1]

\* ... or opens an incident of its own when there is none.
OpenNew(fp, t) ==
    /\ Candidates(fp, t) = {}
    /\ \E i \in Ids :
          /\ incidents[i].status = "absent"
          /\ incidents' = [incidents EXCEPT ![i] =
                [Nothing EXCEPT !.status = "admitted", !.fp = fp,
                                !.received_at = t, !.dedupe_count = 1]]

\* A recovery of fp received at t.
Recover(fp, t) ==
    incidents' = [i \in Ids |->
                     IF i \in OpenIncidents(fp)
                     THEN [incidents[i] EXCEPT !.window_closed_at = t]
                     ELSE incidents[i]]

\* A delivery that does not normalize is kept apart.
SetAside(t) ==
    \E i \in Ids :
        /\ incidents[i].status = "absent"
        /\ incidents' = [incidents EXCEPT ![i] =
              [Nothing EXCEPT !.status = "quarantined", !.received_at = t,
                              !.dedupe_count = 1]]

\* The receipt of an incident is stored.
Queue(i) ==
    /\ incidents[i].status = "admitted"
    /\ ~incidents[i].queued
    /\ incidents' = [incidents EXCEPT ![i].queued = TRUE]

Next ==
    \/ \E t \in Times :
          \/ \E fp \in Fingerprints : Join(fp, t) \/ OpenNew(fp, t) \/ Recover(fp, t)
          \/ SetAside(t)
    \/ \E i \in Ids : Queue(i)

Spec == Init /\ [][Next]_incidents
=============================================================================
