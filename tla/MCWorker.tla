------------------------------ MODULE MCWorker ------------------------------
EXTENDS Lookup, TLC

CONSTANT f1

\* Every event is of one incident.
OneFp == [e \in Events |-> f1]

Symmetric == Permutations(Workers) \cup Permutations(Events) \cup Permutations(TicketIds)
=============================================================================
