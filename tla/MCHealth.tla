------------------------------ MODULE MCHealth ------------------------------
(* Instances of Health.  Requests share nothing that they write: one is enough. *)
EXTENDS Health

AllFaults == {"down", "hung"}
=============================================================================
