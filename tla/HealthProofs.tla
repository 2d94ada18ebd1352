---------------------------- MODULE HealthProofs ----------------------------
(***************************************************************************)
(* What a 200 of /healthz is worth, for any number of callers and any      *)
(* number of faults.                                                       *)
(***************************************************************************)
EXTENDS Health, TLAPS

\* A leaf that names no prover is tried with Zenon, then with SMT.
USE ZenonT(5), SMTT(20)

Healthy == {c \in Components : Ok(c)}

\* The components whose checks a request at `where` is done with.
Passed(where) ==
    CASE where = "postgres" -> {}
      [] where = "schema" -> {"postgres"}
      [] where = "redis" -> {"postgres", "schema"}
      [] OTHER -> Components

\* A request in flight has seen what is ok now, and of what it has checked it
\* has seen everything that it did not find at fault.
Witnessed(r) ==
    pc[r] # "idle" => Healthy \subseteq seen[r] /\ Passed(pc[r]) \ checks[r] \subseteq seen[r]

HealthInv == TypeOK /\ \A r \in Requests : Witnessed(r)

\* A step of the world or of the worker: every request in flight observes it.
LEMMA WorldStep ==
    ASSUME HealthInv, Observe, UNCHANGED <<pc, checks, answer>>,
           postgres' \in {"up", "down", "hung"}, redis' \in {"up", "down", "hung"},
           atHead' \in BOOLEAN,
           worker' \in {"starting", "reading", "handling", "acking", "dead"}
    PROVE  HealthInv'
  <1>1. Healthy' = {c \in Components : Ok(c)'}
    BY DEF Healthy, Components
  <1>2. ASSUME NEW r \in Requests
        PROVE  seen'[r] = IF pc[r] # "idle" THEN seen[r] \cup Healthy' ELSE seen[r]
    BY <1>1 DEF Observe, InFlight
  <1>3. TypeOK'
    <2>1. \A r \in Requests : seen'[r] \in SUBSET Components
      <3>1. Healthy' \subseteq Components /\ \A r \in Requests : seen[r] \subseteq Components
        BY <1>1 DEF HealthInv, TypeOK
      <3> QED
        BY <1>2, <3>1
    <2>2. DOMAIN seen' = Requests /\ seen' = [r \in Requests |-> seen'[r]]
      BY DEF Observe
    <2>3. seen' \in [Requests -> SUBSET Components]
      BY <2>1, <2>2
    <2> QED
      BY <2>3 DEF HealthInv, TypeOK
  <1>4. ASSUME NEW r \in Requests
        PROVE  Witnessed(r)'
    BY <1>2 DEF HealthInv, Witnessed, Passed
  <1> QED
    BY <1>3, <1>4 DEF HealthInv

\* A step of one request changes nothing that it reports on.
LEMMA HandleStep ==
    ASSUME HealthInv, NEW r \in Requests, Handle(r)
    PROVE  HealthInv'
  <1> USE DEF HealthInv
  <1>1. UNCHANGED <<postgres, redis, atHead, worker>>
    BY DEF Handle, Request, Probe, Await, ReadQueue, Respond, world
  <1>2. Healthy' = Healthy
    BY <1>1 DEF Healthy, Ok, Status
  <1>3. CASE Request(r)
    <2>1. TypeOK'
      BY <1>1, <1>3 DEF Request, TypeOK, Components
    <2>2. ASSUME NEW q \in Requests PROVE Witnessed(q)'
      BY <1>2, <1>3 DEF Request, Witnessed, Passed, Healthy, TypeOK
    <2> QED
      BY <2>1, <2>2
  <1>4. CASE Probe(r)
    <2> DEFINE failed == {c \in Stages[pc[r]] : ~Ok(c)}
    <2>1. /\ pc[r] \in {"postgres", "schema", "redis"}
          /\ checks' = [checks EXCEPT ![r] = @ \cup failed]
          /\ pc' = [pc EXCEPT ![r] = After[@]]
          /\ UNCHANGED <<answer, seen>>
      BY <1>4 DEF Probe, Await, After
    <2>2. failed \subseteq Components
      BY <2>1 DEF Stages, Components
    <2>3. After[pc[r]] \in {"schema", "redis", "queue"}
      BY <2>1 DEF After
    <2>4. TypeOK'
      BY <1>1, <2>1, <2>2, <2>3 DEF TypeOK
    <2>5. Passed(After[pc[r]]) \subseteq Passed(pc[r]) \cup Stages[pc[r]]
      BY <2>1 DEF Passed, After, Stages, Components
    <2>6. Stages[pc[r]] \ failed \subseteq Healthy
      BY <2>1 DEF Stages, Components, Healthy
    <2>7. Witnessed(r)'
      <3>1. pc'[r] = After[pc[r]] /\ checks'[r] = checks[r] \cup failed /\ pc[r] # "idle"
        BY <2>1 DEF TypeOK
      <3>2. Passed(pc[r])' = Passed(After[pc[r]])
        BY <3>1 DEF Passed
      <3> QED
        BY <1>2, <2>1, <2>5, <2>6, <3>1, <3>2 DEF Witnessed
    <2>8. ASSUME NEW q \in Requests, q # r PROVE Witnessed(q)'
      BY <1>2, <2>1, <2>8 DEF Witnessed, TypeOK, Passed
    <2> QED
      BY <2>4, <2>7, <2>8
  <1>5. CASE ReadQueue(r)
    <2>1. TypeOK'
      BY <1>1, <1>5 DEF ReadQueue, TypeOK
    <2>2. ASSUME NEW q \in Requests PROVE Witnessed(q)'
      BY <1>2, <1>5 DEF ReadQueue, Witnessed, Passed, TypeOK
    <2> QED
      BY <2>1, <2>2
  <1>6. CASE Respond(r)
    <2>1. TypeOK'
      BY <1>1, <1>6 DEF Respond, TypeOK
    <2>2. ASSUME NEW q \in Requests PROVE Witnessed(q)'
      BY <1>2, <1>6 DEF Respond, Witnessed, Passed, TypeOK
    <2> QED
      BY <2>1, <2>2
  <1> QED
    BY <1>3, <1>4, <1>5, <1>6 DEF Handle

LEMMA HealthInvariant == Spec => []HealthInv
  <1>1. Init => HealthInv
    BY DEF Init, HealthInv, TypeOK, Witnessed
  <1>2. HealthInv /\ [Next]_vars => HealthInv'
    <2> SUFFICES ASSUME HealthInv, [Next]_vars PROVE HealthInv'
      OBVIOUS
    <2>1. CASE EnsureGroup \/ ReadGroup \/ HandleFails \/ HandleSucceeds \/ SkipPoison \/ Ack
      <3>1. Observe /\ UNCHANGED <<postgres, redis, atHead, pc, checks, answer>>
        BY <2>1 DEF EnsureGroup, ReadGroup, HandleFails, HandleSucceeds, SkipPoison, Ack,
           WorkerCalls, WorkerStep
      <3>2. worker' \in {"starting", "reading", "handling", "acking", "dead"}
        BY <2>1 DEF EnsureGroup, ReadGroup, HandleFails, HandleSucceeds, SkipPoison, Ack,
           WorkerCalls, WorkerStep
      <3> QED
        BY <3>1, <3>2, WorldStep DEF HealthInv, TypeOK
    <2>2. CASE Fault
      <3>1. /\ postgres' \in {"up", "down", "hung"} /\ redis' \in {"up", "down", "hung"}
            /\ atHead' \in BOOLEAN
        BY <2>2, HealthAssumption DEF Fault, HealthInv, TypeOK
      <3>2. Observe /\ UNCHANGED <<pc, checks, answer, worker>>
        BY <2>2 DEF Fault
      <3> QED
        BY <3>1, <3>2, WorldStep DEF HealthInv, TypeOK
    <2>3. CASE PostgresUnhangs \/ RedisUnhangs \/ Repair
      <3>1. /\ postgres' \in {"up", "down", "hung"} /\ redis' \in {"up", "down", "hung"}
            /\ atHead' \in BOOLEAN
        <4>1. /\ postgres' \in {postgres, "up", "down"}
              /\ redis' \in {redis, "up", "down"}
          BY <2>3 DEF PostgresUnhangs, RedisUnhangs, Repair
        <4>2. atHead' = atHead \/ atHead' = TRUE
          BY <2>3, Zenon DEF PostgresUnhangs, RedisUnhangs, Repair
        <4> QED
          BY <4>1, <4>2 DEF HealthInv, TypeOK
      <3>2. Observe /\ UNCHANGED <<pc, checks, answer, worker>>
        BY <2>3 DEF PostgresUnhangs, RedisUnhangs, Repair
      <3> QED
        BY <3>1, <3>2, WorldStep DEF HealthInv, TypeOK
    <2>4. CASE UNCHANGED vars
      BY <2>4 DEF vars, HealthInv, TypeOK, Witnessed, Passed, Healthy, Ok, Status
    <2> QED
      BY <2>1, <2>2, <2>3, <2>4, HandleStep DEF Next
  <1> QED
    BY <1>1, <1>2, PTL DEF Spec

\* The requests, the worker task and the dependencies stay in the states that
\* healthz and WorkerHandle.status tell apart.
THEOREM HealthTyped == Spec => []TypeOK
  <1>1. HealthInv => TypeOK
    BY DEF HealthInv
  <1> QED
    BY <1>1, HealthInvariant, PTL

\* No 200 of /healthz is about a component that was not ok at any time of that
\* request, however many callers there are and however the world moves between
\* the awaits.
THEOREM HealthyIsHonest == Spec => []HealthyWasSeen
  <1>1. HealthInv => HealthyWasSeen
    BY DEF HealthInv, TypeOK, Witnessed, Passed, HealthyWasSeen
  <1> QED
    BY <1>1, HealthInvariant, PTL
=============================================================================
