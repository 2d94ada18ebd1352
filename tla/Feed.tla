-------------------------------- MODULE Feed --------------------------------
(***************************************************************************)
(* The seam between the Receiver and the workers: what a worker can see of *)
(* the Receiver, the windows of the rows it committed and the stream it    *)
(* appends to.  The Receiver implements Spec; the Worker's environment     *)
(* takes these same actions.                                               *)
(***************************************************************************)
EXTENDS Naturals, Sequences

CONSTANTS Events, Fingerprints

VARIABLES
    window,    \* per event: no admitted row, its window open or closed
    fp,        \* the fingerprint of each admitted event
    stream

Init ==
    /\ window = [e \in Events |-> "none"]
    /\ stream = <<>>

\* The row of an event that had none is committed.
Admit(e) ==
    /\ window[e] = "none"
    /\ window' = [window EXCEPT ![e] = "open"]
    /\ UNCHANGED stream

\* An XADD.  An event is on the stream only once its row is committed, and may
\* be put there again.
Enqueue(m) ==
    /\ m \in Events => window[m] # "none"
    /\ stream' = Append(stream, m)
    /\ UNCHANGED window

Closing(f) == {e \in Events : window[e] = "open" /\ fp[e] = f}

\* A recovery closes every open window of its fingerprint and no other.
Recover(f) ==
    /\ Closing(f) # {}
    /\ window' = [e \in Events |-> IF e \in Closing(f) THEN "closed" ELSE window[e]]
    /\ UNCHANGED stream

\* An admitted event keeps its fingerprint.
FpKept == \A e \in Events : window[e] # "none" => fp'[e] = fp[e]

Next ==
    /\ FpKept
    /\ \/ \E e \in Events : Admit(e) \/ Enqueue(e)
       \/ \E f \in Fingerprints : Recover(f)

Spec == Init /\ [][Next]_<<window, fp, stream>>
=============================================================================
