----------------------------- MODULE MCReceiver -----------------------------
EXTENDS Receiver, TLC

CONSTANTS f1, f2

Fire(f) == [kind |-> "fire", fp |-> f]
Resolve(f) == [kind |-> "resolve", fp |-> f]

\* Every fingerprint hashes to one advisory key: the colliding case.
OneKey == [f \in Fingerprints |-> 0]

SinglePayloads == {<<Fire(f1)>>, <<Resolve(f1)>>}
BatchPayloads == {<<Fire(f1)>>, <<Resolve(f1), Fire(f2)>>, <<Fire(f1), Fire(f2)>>}

Symmetric == Permutations(Requests) \cup Permutations(EventIds)
=============================================================================
