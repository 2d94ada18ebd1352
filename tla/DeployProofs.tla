---------------------------- MODULE DeployProofs ----------------------------
(***************************************************************************)
(* Proofs about Deploy, for any files under config/, any `.env`, any edits *)
(* and any number of events and downgrades.                                *)
(***************************************************************************)
EXTENDS Deploy, TLAPS

\* A leaf that names no prover is tried with Zenon, then with SMT.
USE ZenonT(10), SMTT(20)

Substituted == DOMAIN STUB_SELECTIONS

\* The seven ports that have a substitute, by name.
LEMMA SubstitutedPorts ==
    /\ Substituted = {"auth", "governance", "model", "platform", "channel", "ticketing", "memory"}
    /\ Ports = Substituted \cup {"tenancy"}
  BY DEF Substituted, STUB_SELECTIONS, Ports, Selections

\* A port is a field, and its type is a Literal.
LEMMA PortField ==
    ASSUME NEW p \in Ports
    PROVE  /\ <<"ports", p>> \in Fields
           /\ Default(<<"ports", p>>) = Selections[p][1]
           /\ \A v : Admits(<<"ports", p>>, v) => \E i \in DOMAIN Selections[p] : v = Selections[p][i]
  <1> DEFINE k == <<"ports", p>>
  <1>1. k \in Fields
    BY DEF Fields
  <1>2. k # <<"env">> /\ k # <<"compose_profiles">>
    OBVIOUS
  <1>3. k \notin Urls /\ k \notin Amounts
    BY DEF Urls, Amounts, Required
  <1>4. k \notin Texts
    <2>1. \A s \in DOMAIN CREDENTIALS_FOR : k \notin CREDENTIALS_FOR[s]
      BY DEF CREDENTIALS_FOR
    <2>2. k \notin {<<"webhooks", s>> : s \in WebhookSources}
      OBVIOUS
    <2> QED
      BY <2>1, <2>2 DEF Texts
  <1>5. k[1] = "ports" /\ k[2] = p
    OBVIOUS
  <1>6. Default(k) = Selections[p][1]
    BY <1>2, <1>5 DEF Default
  <1>7. ASSUME NEW v, Admits(k, v)
        PROVE  \E i \in DOMAIN Selections[p] : v = Selections[p][i]
    BY <1>2, <1>3, <1>4, <1>5, <1>7 DEF Admits
  <1> QED
    BY <1>1, <1>6, <1>7

\* Every selection but the substitute is planned.
LEMMA StubOrPlanned ==
    ASSUME NEW p \in Substituted, NEW i \in DOMAIN Selections[p]
    PROVE  Selections[p][i] = STUB_SELECTIONS[p] \/ Selections[p][i] \in PLANNED_SELECTIONS
  BY SubstitutedPorts DEF Selections, STUB_SELECTIONS, PLANNED_SELECTIONS

\* Settings that pass the gates select the substitute for each port that has one,
\* and are not prod's, which refuses them.
LEMMA GatesLeaveStubs ==
    ASSUME NEW data, WellFormed(data), _fail_closed(Settled(data))
    PROVE  /\ Settled(data)[<<"env">>] # "prod"
           /\ stubbed(Settled(data)) = DOMAIN STUB_SELECTIONS
  <1> DEFINE s == Settled(data)
  <1>1. ASSUME NEW p \in Substituted
        PROVE  s[<<"ports", p>>] = STUB_SELECTIONS[p]
    <2> DEFINE k == <<"ports", p>>
    <2>1. p \in Ports
      BY SubstitutedPorts
    <2>2. k \in Fields /\ Default(k) = Selections[p][1]
      BY <2>1, PortField
    <2>3. \A v : Admits(k, v) => \E i \in DOMAIN Selections[p] : v = Selections[p][i]
      BY <2>1, PortField
    <2>4. 1 \in DOMAIN Selections[p]
      BY SubstitutedPorts DEF Selections
    <2>5. k \in DOMAIN data => Admits(k, data[k])
      BY DEF WellFormed
    <2>6. s[k] = IF k \in DOMAIN data THEN data[k] ELSE Default(k)
      BY <2>2 DEF Settled
    <2>7. \E i \in DOMAIN Selections[p] : s[k] = Selections[p][i]
      BY <2>2, <2>3, <2>4, <2>5, <2>6
    <2>8. s[k] \notin PLANNED_SELECTIONS
      BY <2>1 DEF _fail_closed, unimplemented
    <2> QED
      BY <2>7, <2>8, StubOrPlanned
  <1>2. stubbed(s) = DOMAIN STUB_SELECTIONS
    BY <1>1 DEF stubbed, Substituted
  <1>3. "auth" \in stubbed(s)
    BY <1>2, SubstitutedPorts DEF Substituted
  <1> QED
    BY <1>2, <1>3 DEF _fail_closed

-----------------------------------------------------------------------------

\* `container` is a record of its three fields: with it OnlyStubsServe is inductive.
Shape == container = [state |-> container.state, environ |-> container.environ,
                      port |-> container.port]
StubsInv == Shape /\ OnlyStubsServe

\* The steps that leave the container alone.
LEMMA ContainerSteps ==
    ASSUME [Next]_vars
    PROVE  UNCHANGED container \/ Up \/ Migrate \/ app_from_env \/ Stop
  BY DEF Next, vars, Edit, TakePort, Preflight, check_config, Serve, Downgrade

\* Become changes the state of the container and nothing else of it.
LEMMA BecomeShape ==
    ASSUME Shape, NEW s, Become(s)
    PROVE  Shape' /\ container'.state = s /\ container'.environ = container.environ
  BY DEF Shape, Become

\* Whatever the layers say, what serves is built of substitutes and is not prod:
\* the gates of _fail_closed are applied to every container's boot (app_from_env).
THEOREM ServesStubs == Spec => []OnlyStubsServe
  <1>1. Init => StubsInv
    BY DEF Init, StubsInv, Shape, OnlyStubsServe, NoContainer
  <1>2. StubsInv /\ [Next]_vars => StubsInv'
    <2> SUFFICES ASSUME StubsInv, [Next]_vars
                 PROVE  StubsInv'
      OBVIOUS
    <2>1. CASE UNCHANGED container
      BY <2>1 DEF StubsInv, Shape, OnlyStubsServe, BootSettings
    <2>2. CASE app_from_env
      <3>1. CASE Loads(Nothing, container.environ, Nothing)
        <4>1. Shape' /\ container'.environ = container.environ
          BY <2>2, <3>1, BecomeShape DEF app_from_env, StubsInv
        <4>2. /\ BootSettings[<<"env">>] # "prod"
              /\ stubbed(BootSettings) = DOMAIN STUB_SELECTIONS
          BY <3>1, GatesLeaveStubs DEF Loads, BootSettings
        <4>3. BootSettings' = BootSettings
          BY <4>1 DEF BootSettings
        <4> QED
          BY <4>1, <4>2, <4>3 DEF StubsInv, OnlyStubsServe
      <3>2. CASE ~Loads(Nothing, container.environ, Nothing)
        <4>1. Shape' /\ container'.state = "refused"
          BY <2>2, <3>2, BecomeShape DEF app_from_env, StubsInv
        <4> QED
          BY <4>1 DEF StubsInv, OnlyStubsServe
      <3> QED
        BY <3>1, <3>2
    <2>3. CASE Migrate
      <3>1. Shape' /\ container'.state \in {"blocked", "booting"}
        BY <2>3, BecomeShape DEF Migrate, StubsInv
      <3> QED
        BY <3>1 DEF StubsInv, OnlyStubsServe
    <2>4. CASE Up
      BY <2>4 DEF Up, StubsInv, Shape, OnlyStubsServe
    <2>5. CASE Stop
      BY <2>5 DEF Stop, NoContainer, StubsInv, Shape, OnlyStubsServe
    <2> QED
      BY <2>1, <2>2, <2>3, <2>4, <2>5, ContainerSteps
  <1>3. StubsInv => OnlyStubsServe
    BY DEF StubsInv
  <1> QED
    BY <1>1, <1>2, <1>3, PTL DEF Spec

-----------------------------------------------------------------------------
(* The rows through the migrations *)

Rows == [window : {"none", "open", "closed"}, queue : {"absent", "pending", "queued"},
         run : {"none", "running", "concluded"}, conclusion : BOOLEAN, acted : BOOLEAN]

DbType ==
    /\ revision \in 0..4
    /\ row \in [Events -> Rows]
    /\ offered \in [Events -> Nat] /\ acts \in [Events -> Nat]
    /\ low \in [Events -> 0..4]
    /\ recovered \subseteq Events /\ unacked \subseteq Events

\* Nothing has happened to the event yet.
Fresh(e) == /\ row[e].window = "none" /\ row[e].queue = "absent" /\ row[e].run = "none"
            /\ ~row[e].conclusion /\ ~row[e].acted
            /\ offered[e] = 0 /\ acts[e] = 0 /\ e \notin recovered /\ e \notin unacked

InTables(e) == row[e].window # "none"

\* The strengthening of OfferedOnce and LossFollowsDepth.  They speak of the newest
\* revision; this holds at every one.  The second conjunct is what carries the
\* argument: an event that the program has seen has been no higher than the
\* schema, unless its row was dropped.
EventInv(e) ==
    /\ offered[e] <= 1 /\ (e \in unacked => offered[e] > 0)
    /\ \/ (offered[e] > 0 \/ InTables(e)) /\ low[e] <= revision
       \/ low[e] = 4 /\ Fresh(e)
       \/ low[e] = 0
    /\ row[e].queue = "pending" => InTables(e) /\ offered[e] = 0 /\ revision = 4
    /\ low[e] = 4 => /\ InTables(e) => (row[e].queue = "queued" <=> offered[e] > 0)
                     /\ acts[e] <= 1 /\ (row[e].acted <=> acts[e] = 1)
    /\ low[e] >= 3 => (row[e].run = "concluded" => row[e].conclusion)
    /\ low[e] >= 2 => (row[e].window = "closed" <=> e \in recovered)
    /\ low[e] >= 1 => (offered[e] > 0 => InTables(e))

DbInv == DbType /\ \A e \in Events : EventInv(e)

\* EventInv(f) depends on f's own state and on the revision only.
LEMMA Untouched ==
    ASSUME NEW f \in Events, EventInv(f), revision' = revision,
           row'[f] = row[f], offered'[f] = offered[f], acts'[f] = acts[f], low'[f] = low[f],
           f \in recovered' <=> f \in recovered, f \in unacked' <=> f \in unacked
    PROVE  EventInv(f)'
  BY DEF EventInv, InTables, Fresh

\* A record of Rows keeps its type and its other fields when one is written.
LEMMA RowUpdates ==
    ASSUME NEW r \in Rows
    PROVE  /\ \A q \in {"absent", "pending"} : [r EXCEPT !.window = "open", !.queue = q] \in Rows
           /\ [r EXCEPT !.queue = "queued"] \in Rows
           /\ [r EXCEPT !.run = "running"] \in Rows
           /\ [r EXCEPT !.acted = TRUE] \in Rows
           /\ [r EXCEPT !.run = "concluded", !.conclusion = TRUE] \in Rows
           /\ [r EXCEPT !.window = "closed"] \in Rows
           /\ [r EXCEPT !.queue = "absent", !.acted = FALSE] \in Rows
           /\ [r EXCEPT !.conclusion = FALSE] \in Rows
           /\ [r EXCEPT !.window = IF @ = "closed" THEN "open" ELSE @] \in Rows
  BY DEF Rows

\* What the downgrade of 0004 leaves of a row.
LEMMA StrippedRow ==
    ASSUME NEW r \in Rows, NEW new, new = [r EXCEPT !.queue = "absent", !.acted = FALSE]
    PROVE  /\ new.window = r.window /\ new.run = r.run /\ new.conclusion = r.conclusion
           /\ new.queue = "absent" /\ ~new.acted
  BY DEF Rows

\* What Write does to the tables and to the histories.
LEMMA WriteType ==
    ASSUME DbType, NEW e \in Events, NEW r \in Rows, NEW n \in 2..4, Db!Write(n, e, r)
    PROVE  /\ row' \in [Events -> Rows] /\ row'[e] = r
           /\ \A f \in Events \ {e} : row'[f] = row[f]
           /\ revision >= n /\ revision' \in 0..4 /\ revision' = revision
           /\ recovered' = recovered
  BY DEF DbType, Db!Write

\* Each step of the program at work keeps the invariant.
LEMMA ProgramStep ==
    ASSUME DbInv, Db!Program
    PROVE  DbInv'
  <1> USE DEF DbInv
  <1>1. ASSUME NEW e \in Events, Db!Admit(e)
        PROVE  DbInv'
    <2> DEFINE q == IF revision < 4 THEN "absent" ELSE "pending"
               r == [row[e] EXCEPT !.window = "open", !.queue = q]
    <2>1. row[e] \in Rows /\ r \in Rows
      BY RowUpdates DEF DbType
    <2>2. Db!Write(2, e, r)
      BY <1>1 DEF Db!Admit
    <2> HIDE DEF r
    <2>3. DbType'
      BY <1>1, <2>1, <2>2, WriteType DEF DbType, Db!Admit
    <2>4. EventInv(e)'
      <3>1. /\ row'[e] = r /\ revision >= 2 /\ revision' = revision
            /\ recovered' = recovered
        BY <2>1, <2>2, WriteType
      <3> QED
        BY <1>1, <2>1, <3>1 DEF r, DbType, Rows, EventInv, InTables, Fresh, Db!Admit, Db!Head
    <2>5. ASSUME NEW f \in Events, f # e
          PROVE  EventInv(f)'
      <3>1. row'[f] = row[f] /\ revision' = revision /\ recovered' = recovered
        BY <2>1, <2>2, <2>5, WriteType
      <3> QED
        BY <1>1, <2>5, <3>1, Untouched DEF DbType, Db!Admit
    <2> QED
      BY <2>3, <2>4, <2>5
  <1>2. ASSUME NEW e \in Events, Db!Publish(e)
        PROVE  DbInv'
    <2> DEFINE r == [row[e] EXCEPT !.queue = "queued"]
    <2>1. row[e] \in Rows /\ r \in Rows
      BY RowUpdates DEF DbType
    <2>2. Db!Write(4, e, r)
      BY <1>2 DEF Db!Publish
    <2> HIDE DEF r
    <2>3. DbType'
      BY <1>2, <2>1, <2>2, WriteType DEF DbType, Db!Publish
    <2>4. EventInv(e)'
      <3>1. /\ row'[e] = r /\ revision >= 4 /\ revision' = revision
            /\ recovered' = recovered
        BY <2>1, <2>2, WriteType
      <3> QED
        BY <1>2, <2>1, <3>1 DEF r, DbType, Rows, EventInv, InTables, Fresh, Db!Publish, Db!Head
    <2>5. ASSUME NEW f \in Events, f # e
          PROVE  EventInv(f)'
      <3>1. row'[f] = row[f] /\ revision' = revision /\ recovered' = recovered
        BY <2>1, <2>2, <2>5, WriteType
      <3> QED
        BY <1>2, <2>5, <3>1, Untouched DEF DbType, Db!Publish
    <2> QED
      BY <2>3, <2>4, <2>5
  <1>3. ASSUME NEW e \in Events, Db!OpenRun(e)
        PROVE  DbInv'
    <2> DEFINE r == [row[e] EXCEPT !.run = "running"]
    <2>1. row[e] \in Rows /\ r \in Rows
      BY RowUpdates DEF DbType
    <2>2. Db!Write(3, e, r)
      BY <1>3 DEF Db!OpenRun
    <2> HIDE DEF r
    <2>3. DbType'
      BY <1>3, <2>1, <2>2, WriteType DEF DbType, Db!OpenRun
    <2>4. EventInv(e)'
      <3>1. /\ row'[e] = r /\ revision >= 3 /\ revision' = revision
            /\ recovered' = recovered
        BY <2>1, <2>2, WriteType
      <3> QED
        BY <1>3, <2>1, <3>1 DEF r, DbType, Rows, EventInv, InTables, Fresh, Db!OpenRun, Db!Head
    <2>5. ASSUME NEW f \in Events, f # e
          PROVE  EventInv(f)'
      <3>1. row'[f] = row[f] /\ revision' = revision /\ recovered' = recovered
        BY <2>1, <2>2, <2>5, WriteType
      <3> QED
        BY <1>3, <2>5, <3>1, Untouched DEF DbType, Db!OpenRun
    <2> QED
      BY <2>3, <2>4, <2>5
  <1>4. ASSUME NEW e \in Events, Db!Apply(e)
        PROVE  DbInv'
    <2> DEFINE r == [row[e] EXCEPT !.acted = TRUE]
    <2>1. row[e] \in Rows /\ r \in Rows
      BY RowUpdates DEF DbType
    <2>2. Db!Write(4, e, r)
      BY <1>4 DEF Db!Apply
    <2> HIDE DEF r
    <2>3. DbType'
      BY <1>4, <2>1, <2>2, WriteType DEF DbType, Db!Apply
    <2>4. EventInv(e)'
      <3>1. /\ row'[e] = r /\ revision >= 4 /\ revision' = revision
            /\ recovered' = recovered
        BY <2>1, <2>2, WriteType
      <3>2. /\ r.window = row[e].window /\ r.queue = row[e].queue /\ r.run = row[e].run
            /\ r.conclusion = row[e].conclusion /\ r.acted = TRUE
        BY <2>1 DEF r, Rows
      <3>3. /\ acts[e] \in Nat /\ acts'[e] = acts[e] + 1
            /\ offered' = offered /\ unacked' = unacked /\ low' = low /\ e \in unacked /\ ~row[e].acted
        BY <1>4 DEF DbType, Db!Apply
      <3>4. EventInv(e) /\ ~Fresh(e) /\ (low[e] = 4 => acts[e] = 0)
        BY <3>3 DEF EventInv, Fresh
      <3> QED
        BY <3>1, <3>2, <3>3, <3>4 DEF EventInv, InTables
    <2>5. ASSUME NEW f \in Events, f # e
          PROVE  EventInv(f)'
      <3>1. row'[f] = row[f] /\ revision' = revision /\ recovered' = recovered
        BY <2>1, <2>2, <2>5, WriteType
      <3> QED
        BY <1>4, <2>5, <3>1, Untouched DEF DbType, Db!Apply
    <2> QED
      BY <2>3, <2>4, <2>5
  <1>5. ASSUME NEW e \in Events, Db!CloseRun(e)
        PROVE  DbInv'
    <2> DEFINE r == [row[e] EXCEPT !.run = "concluded", !.conclusion = TRUE]
    <2>1. row[e] \in Rows /\ r \in Rows
      BY RowUpdates DEF DbType
    <2>2. Db!Write(3, e, r)
      BY <1>5 DEF Db!CloseRun
    <2> HIDE DEF r
    <2>3. DbType'
      BY <1>5, <2>1, <2>2, WriteType DEF DbType, Db!CloseRun
    <2>4. EventInv(e)'
      <3>1. /\ row'[e] = r /\ revision >= 3 /\ revision' = revision
            /\ recovered' = recovered
        BY <2>1, <2>2, WriteType
      <3> QED
        BY <1>5, <2>1, <3>1 DEF r, DbType, Rows, EventInv, InTables, Fresh, Db!CloseRun, Db!Head
    <2>5. ASSUME NEW f \in Events, f # e
          PROVE  EventInv(f)'
      <3>1. row'[f] = row[f] /\ revision' = revision /\ recovered' = recovered
        BY <2>1, <2>2, <2>5, WriteType
      <3> QED
        BY <1>5, <2>5, <3>1, Untouched DEF DbType, Db!CloseRun
    <2> QED
      BY <2>3, <2>4, <2>5
  <1>6. ASSUME NEW e \in Events, Db!Acknowledge(e)
        PROVE  DbInv'
    <2>1. DbType' /\ row' = row
      BY <1>6 DEF DbType, Db!Acknowledge, Db!db, Db!history
    <2>2. EventInv(e)'
      BY <1>6, <2>1 DEF EventInv, InTables, Fresh, Db!Acknowledge, Db!db, Db!history
    <2>3. ASSUME NEW f \in Events, f # e
          PROVE  EventInv(f)'
      BY <1>6, <2>1, <2>3, Untouched DEF Db!Acknowledge, Db!db, Db!history
    <2> QED
      BY <2>1, <2>2, <2>3
  <1>7. CASE Db!Recover
    <2>1. DbType'
      BY <1>7, RowUpdates DEF DbType, Db!Recover
    <2>2. ASSUME NEW f \in Events, row[f].window = "open"
          PROVE  EventInv(f)'
      BY <1>7, <2>2 DEF DbType, Rows, EventInv, InTables, Fresh, Db!Recover, Db!NoRow
    <2>3. ASSUME NEW f \in Events, row[f].window # "open"
          PROVE  EventInv(f)'
      BY <1>7, <2>3, Untouched DEF DbType, Db!Recover
    <2> QED
      BY <2>1, <2>2, <2>3
  <1> QED
    BY <1>1, <1>2, <1>3, <1>4, <1>5, <1>6, <1>7 DEF Db!Program

\* `alembic upgrade head` keeps the invariant: below the newest revision no event
\* of the program's is at 4, so the backfill contradicts no history.
LEMMA UpgradeStep ==
    ASSUME DbInv, Db!UpgradeHead
    PROVE  DbInv'
  <1> USE DEF DbInv
  <1>1. CASE revision = 4
    <2>1. UNCHANGED <<row, revision, unacked, offered, acts, recovered, low>>
      BY <1>1 DEF Db!UpgradeHead, Db!Head, Db!history
    <2>2. \A f \in Events : EventInv(f)'
      BY <2>1, Untouched
    <2> QED
      BY <2>1, <2>2 DEF DbType
  <1>2. CASE revision # 4
    <2>1. /\ row' = Db!Up0004(row) /\ revision' = 4 /\ revision < 4
          /\ UNCHANGED <<unacked, offered, acts, recovered, low>>
      BY <1>2 DEF DbType, Db!UpgradeHead, Db!Head, Db!history
    <2>2. ASSUME NEW e \in Events
          PROVE  row'[e] = IF InTables(e) THEN [row[e] EXCEPT !.queue = "queued"] ELSE row[e]
      BY <2>1 DEF Db!Up0004, Db!Stored, InTables
    <2>3. DbType'
      <3>1. ASSUME NEW e \in Events PROVE row'[e] \in Rows
        <4>1. row[e] \in Rows
          BY DEF DbType
        <4>2. [row[e] EXCEPT !.queue = "queued"] \in Rows
          BY <4>1, RowUpdates
        <4>3. row'[e] \in {[row[e] EXCEPT !.queue = "queued"], row[e]}
          BY <2>2
        <4> QED
          BY <4>1, <4>2, <4>3
      <3>2. row' \in [Events -> Rows]
        BY <2>1, <3>1 DEF Db!Up0004
      <3> QED
        BY <2>1, <3>2 DEF DbType
    <2>4. ASSUME NEW e \in Events
          PROVE  EventInv(e)'
      <3>1. row[e] \in Rows /\ low[e] \in 0..4 /\ EventInv(e)
        BY DEF DbType
      <3>2. CASE InTables(e)
        <4>1. /\ row'[e].window = row[e].window /\ row'[e].run = row[e].run
              /\ row'[e].conclusion = row[e].conclusion /\ row'[e].queue = "queued"
          BY <2>2, <3>1, <3>2 DEF Rows
        <4>2. low[e] < 4
          <5>1. ~Fresh(e)
            BY <3>2 DEF Fresh, InTables, Db!NoRow
          <5> QED
            BY <2>1, <3>1, <5>1 DEF DbType, EventInv
        <4> QED
          BY <2>1, <3>1, <3>2, <4>1, <4>2 DEF EventInv, InTables
      <3>3. CASE ~InTables(e)
        <4>1. row'[e] = row[e]
          BY <2>2, <3>3
        <4> QED
          BY <2>1, <3>1, <3>3, <4>1 DEF EventInv, InTables, Fresh
      <3> QED
        BY <3>2, <3>3
    <2> QED
      BY <2>3, <2>4
  <1> QED
    BY <1>1, <1>2

\* `alembic downgrade -1` keeps it: what a revision drops is what EventInv no
\* longer says of an event that was there.
LEMMA DowngradeStep ==
    ASSUME DbInv, Db!Downgrade
    PROVE  DbInv'
  <1> USE DEF DbInv
  <1>1. /\ revision \in 1..4 /\ revision' = revision - 1
        /\ row' = Db!Down(row)
        /\ UNCHANGED <<unacked, offered, acts, recovered>>
    BY DEF DbType, Db!Downgrade
  <1>2. ASSUME NEW e \in Events
        PROVE  low'[e] = IF offered[e] > 0 \/ InTables(e)
                         THEN IF revision - 1 < low[e] THEN revision - 1 ELSE low[e]
                         ELSE low[e]
    BY DEF Db!Downgrade, Db!Stored, InTables
  <1> DEFINE Seen(e) == offered[e] > 0 \/ InTables(e)
  <1>3. ASSUME NEW e \in Events
        PROVE  /\ row[e] \in Rows /\ low[e] \in 0..4 /\ low'[e] \in 0..4
               /\ offered[e] \in Nat /\ acts[e] \in Nat /\ EventInv(e)
               /\ Seen(e) => low'[e] <= revision - 1 /\ low'[e] <= low[e]
               /\ ~Seen(e) => low'[e] = low[e] /\ ((low[e] = 4 /\ Fresh(e)) \/ low[e] = 0)
    <2>1. row[e] \in Rows /\ low[e] \in 0..4 /\ offered[e] \in Nat /\ acts[e] \in Nat
      BY DEF DbType
    <2> QED
      BY <1>1, <1>2, <2>1 DEF EventInv
  <1>4. low' \in [Events -> 0..4]
    BY <1>3 DEF Db!Downgrade
  <1>5. CASE revision = 4
    <2>1. row' = Db!Down0004(row)
      BY <1>1, <1>5 DEF Db!Down
    <2>2. ASSUME NEW e \in Events
          PROVE  row'[e] = [row[e] EXCEPT !.queue = "absent", !.acted = FALSE]
      BY <2>1 DEF Db!Down0004
    <2>3. ASSUME NEW e \in Events
          PROVE  EventInv(e)'
      <3>1. /\ row'[e].window = row[e].window /\ row'[e].run = row[e].run
            /\ row'[e].conclusion = row[e].conclusion /\ row'[e].queue = "absent"
            /\ ~row'[e].acted
        <4>1. row[e] \in Rows
          BY <1>3
        <4> QED
          BY <2>2, <4>1, StrippedRow, Zenon
      <3>2. CASE Seen(e)
        BY <1>1, <1>3, <1>5, <3>1, <3>2 DEF EventInv, InTables
      <3>3. CASE ~Seen(e) /\ Fresh(e)
        <4>1. /\ row'[e].window = "none" /\ row'[e].run = "none"
              /\ ~row'[e].conclusion /\ ~row'[e].acted
          BY <3>1, <3>3 DEF Fresh
        <4> QED
          BY <1>1, <1>3, <3>1, <3>3, <4>1 DEF EventInv, Fresh, InTables
      <3>4. CASE ~Seen(e) /\ low[e] = 0
        BY <1>1, <1>3, <3>1, <3>4 DEF EventInv, InTables
      <3> QED
        BY <1>3, <3>2, <3>3, <3>4
    <2>4. row' \in [Events -> Rows]
      BY <1>3, <2>1, RowUpdates DEF Db!Down0004
    <2> QED
      BY <1>1, <1>4, <2>3, <2>4 DEF DbType
  <1>6. CASE revision = 3
    <2>1. row' = Db!Down0003(row)
      BY <1>1, <1>6 DEF Db!Down
    <2>2. ASSUME NEW e \in Events
          PROVE  row'[e] = [row[e] EXCEPT !.conclusion = FALSE]
      BY <2>1 DEF Db!Down0003
    <2>3. ASSUME NEW e \in Events
          PROVE  EventInv(e)'
      <3>1. row'[e].window = row[e].window /\ row'[e].queue = row[e].queue
        BY <1>3, <2>2 DEF Rows
      <3>2. CASE Seen(e)
        BY <1>1, <1>3, <1>6, <3>1, <3>2 DEF EventInv, InTables
      <3>3. CASE ~Seen(e) /\ Fresh(e)
        <4>1. /\ row'[e].window = "none" /\ row'[e].queue = "absent" /\ row'[e].run = "none"
              /\ ~row'[e].conclusion /\ ~row'[e].acted
          BY <1>3, <2>2, <3>3 DEF Fresh, Rows
        <4> QED
          BY <1>1, <1>3, <3>3, <4>1 DEF EventInv, Fresh, InTables
      <3>4. CASE ~Seen(e) /\ low[e] = 0
        BY <1>1, <1>3, <3>1, <3>4 DEF EventInv, InTables
      <3> QED
        BY <1>3, <3>2, <3>3, <3>4
    <2>4. row' \in [Events -> Rows]
      BY <1>3, <2>1, RowUpdates DEF Db!Down0003
    <2> QED
      BY <1>1, <1>4, <2>3, <2>4 DEF DbType
  <1>7. CASE revision = 2
    <2>1. row' = Db!Down0002(row)
      BY <1>1, <1>7 DEF Db!Down
    <2>2. ASSUME NEW e \in Events
          PROVE  row'[e] = [row[e] EXCEPT !.window = IF @ = "closed" THEN "open" ELSE @]
      BY <2>1 DEF Db!Down0002
    <2>3. ASSUME NEW e \in Events
          PROVE  EventInv(e)'
      <3>1. InTables(e)' <=> InTables(e)
        BY <1>3, <2>2 DEF Rows, InTables
      <3>2. row'[e].queue = row[e].queue
        BY <1>3, <2>2 DEF Rows
      <3>3. CASE Seen(e)
        BY <1>1, <1>3, <1>7, <3>1, <3>2, <3>3 DEF EventInv
      <3>4. CASE ~Seen(e) /\ Fresh(e)
        <4>1. /\ row'[e].window = "none" /\ row'[e].queue = "absent" /\ row'[e].run = "none"
              /\ ~row'[e].conclusion /\ ~row'[e].acted
          BY <1>3, <2>2, <3>4 DEF Fresh, Rows
        <4> QED
          BY <1>1, <1>3, <3>4, <4>1 DEF EventInv, Fresh, InTables
      <3>5. CASE ~Seen(e) /\ low[e] = 0
        BY <1>1, <1>3, <3>1, <3>2, <3>5 DEF EventInv
      <3> QED
        BY <1>3, <3>3, <3>4, <3>5
    <2>4. row' \in [Events -> Rows]
      BY <1>3, <2>1, RowUpdates DEF Db!Down0002
    <2> QED
      BY <1>1, <1>4, <2>3, <2>4 DEF DbType
  <1>8. CASE revision = 1
    <2>1. row' = Db!Down0001(row)
      BY <1>1, <1>8 DEF Db!Down
    <2>2. ASSUME NEW e \in Events
          PROVE  EventInv(e)'
      <3>1. row'[e] = Db!NoRow
        BY <2>1 DEF Db!Down0001
      <3>2. CASE Seen(e)
        BY <1>1, <1>3, <1>8, <3>1, <3>2 DEF EventInv, InTables, Db!NoRow
      <3>3. CASE ~Seen(e)
        BY <1>1, <1>3, <3>1, <3>3 DEF EventInv, Fresh, InTables, Db!NoRow
      <3> QED
        BY <3>2, <3>3
    <2>3. row' \in [Events -> Rows]
      BY <2>1 DEF Db!Down0001, Db!NoRow, Rows
    <2> QED
      BY <1>1, <1>4, <2>2, <2>3 DEF DbType
  <1> QED
    BY <1>1, <1>5, <1>6, <1>7, <1>8

\* Only the program at work, a migration and a downgrade touch the database.
LEMMA DatabaseSteps ==
    ASSUME [Next]_vars
    PROVE  \/ Db!Program
           \/ Db!UpgradeHead
           \/ Db!Downgrade
           \/ UNCHANGED dbvars
  <1>1. CASE Next
    BY <1>1 DEF Next, Edit, TakePort, Preflight, check_config, Up, Migrate, app_from_env, Stop,
       Serve, Downgrade
  <1>2. CASE UNCHANGED vars
    BY <1>2 DEF vars
  <1> QED
    BY <1>1, <1>2

\* DbInv holds in every state.
LEMMA DbInvariant == Spec => []DbInv
  <1>1. Init => DbInv
    <2> SUFFICES ASSUME Init PROVE DbInv
      OBVIOUS
    <2>1. /\ revision = 0 /\ row = [e \in Events |-> Db!NoRow] /\ unacked = {}
          /\ offered = [e \in Events |-> 0] /\ acts = [e \in Events |-> 0]
          /\ recovered = {} /\ low = [e \in Events |-> 4]
      BY DEF Init, Db!Init, Db!Head
    <2>2. Db!NoRow \in Rows
      BY DEF Db!NoRow, Rows
    <2>3. DbType
      BY <2>1, <2>2 DEF DbType
    <2>4. ASSUME NEW e \in Events
          PROVE  EventInv(e)
      BY <2>1 DEF EventInv, Fresh, InTables, Db!NoRow
    <2> QED
      BY <2>3, <2>4 DEF DbInv
  <1>2. DbInv /\ [Next]_vars => DbInv'
    <2> SUFFICES ASSUME DbInv, [Next]_vars PROVE DbInv'
      OBVIOUS
    <2>1. CASE UNCHANGED dbvars
      BY <2>1 DEF DbInv, DbType, EventInv, Fresh, InTables, dbvars
    <2> QED
      BY <2>1, DatabaseSteps, ProgramStep, UpgradeStep, DowngradeStep
  <1> QED
    BY <1>1, <1>2, PTL DEF Spec

\* Whatever the operator does to the schema, and whenever, the dispatcher gives no
\* event to the stream twice: the backfill of 0004 counts every row as offered.
THEOREM NeverReplayed == Spec => []OfferedOnce
  <1>1. DbInv => OfferedOnce
    BY DEF DbInv, EventInv, OfferedOnce
  <1> QED
    BY <1>1, DbInvariant, PTL

\* At the newest revision the tables are true to what happened, save what the
\* revisions hold that the event was taken below (the `downgrade` functions).
THEOREM LossIsBounded == Spec => []LossFollowsDepth
  <1>1. DbInv => LossFollowsDepth
    BY DEF DbInv, EventInv, InTables, LossFollowsDepth, Db!Stored
  <1> QED
    BY <1>1, DbInvariant, PTL

\* A concluded run without its conclusion keeps `alembic upgrade head` from
\* succeeding until a downgrade drops the tables.
THEOREM StaysStuck == Spec => StuckUntilDropped
  <1>1. DbInv /\ [Next]_vars => (Db!UpgradeFails => Db!UpgradeFails' \/ revision' = 0)
    <2> SUFFICES ASSUME DbInv, [Next]_vars, Db!UpgradeFails
                 PROVE  Db!UpgradeFails' \/ revision' = 0
      OBVIOUS
    <2>1. revision \in 0..2
      BY DEF DbInv, DbType, Db!UpgradeFails
    <2>2. CASE Db!Program
      <3>1. PICK e \in Events : row[e].run = "concluded" /\ ~row[e].conclusion
        BY DEF Db!UpgradeFails, Db!Up0003Fails
      <3>2. row \in [Events -> Rows] /\ row[e] \in Rows
        BY DEF DbInv, DbType
      <3>3. ASSUME NEW f \in Events, Db!Admit(f)
            PROVE  revision' = revision /\ row'[e].run = row[e].run
                   /\ row'[e].conclusion = row[e].conclusion
        BY <3>2, <3>3 DEF Rows, Db!Admit, Db!Write
      <3>4. ASSUME NEW f \in Events, Db!Acknowledge(f)
            PROVE  revision' = revision /\ row' = row
        BY <3>4 DEF Db!Acknowledge, Db!db
      <3>5. ASSUME Db!Recover
            PROVE  revision' = revision /\ row'[e].run = row[e].run
                   /\ row'[e].conclusion = row[e].conclusion
        BY <3>2, <3>5 DEF Rows, Db!Recover
      <3>6. ASSUME NEW f \in Events,
                   Db!Publish(f) \/ Db!OpenRun(f) \/ Db!Apply(f) \/ Db!CloseRun(f)
            PROVE  FALSE
        BY <2>1, <3>6 DEF Db!Publish, Db!OpenRun, Db!Apply, Db!CloseRun, Db!Write
      <3>7. /\ revision' = revision /\ row'[e].run = row[e].run
            /\ row'[e].conclusion = row[e].conclusion
        BY <2>2, <3>3, <3>4, <3>5, <3>6 DEF Db!Program
      <3> QED
        BY <2>1, <3>1, <3>7 DEF Db!UpgradeFails, Db!Up0003Fails
    <2>3. CASE Db!UpgradeHead
      BY <2>3 DEF Db!UpgradeHead
    <2>4. CASE Db!Downgrade
      <3>1. revision' = revision - 1 /\ row' = Db!Down(row) /\ revision > 0
        BY <2>4 DEF Db!Downgrade
      <3>2. CASE revision = 2
        <4>1. PICK e \in Events : row[e].run = "concluded" /\ ~row[e].conclusion
          BY DEF Db!UpgradeFails, Db!Up0003Fails
        <4>2. row'[e] = [row[e] EXCEPT !.window = IF @ = "closed" THEN "open" ELSE @]
          BY <3>1, <3>2 DEF Db!Down, Db!Down0002
        <4>3. row[e] \in Rows
          BY DEF DbInv, DbType
        <4>4. row'[e].run = "concluded" /\ ~row'[e].conclusion
          BY <4>1, <4>2, <4>3 DEF Rows
        <4> QED
          BY <3>1, <3>2, <4>4 DEF Db!UpgradeFails, Db!Up0003Fails
      <3>3. CASE revision = 1
        BY <3>1, <3>3
      <3> QED
        BY <2>1, <3>1, <3>2, <3>3
    <2>5. CASE UNCHANGED dbvars
      BY <2>5 DEF Db!UpgradeFails, Db!Up0003Fails, dbvars
    <2> QED
      BY <2>2, <2>3, <2>4, <2>5, DatabaseSteps
  <1>2. DbInv /\ [Next]_vars => [Db!UpgradeFails => Db!UpgradeFails' \/ revision' = 0]_vars
    BY <1>1
  <1> QED
    BY <1>2, DbInvariant, PTL DEF Spec, StuckUntilDropped

-----------------------------------------------------------------------------
(* How the layers read *)

\* The two files under config/ that an environment reads.
FilesOf(name) == Over(YamlFile(name), YamlFile("base"))

\* A setting is the process's, else that of `.env`, else a file's.
LEMMA LayeredReads ==
    ASSUME NEW environ, NEW file, NEW k,
           IsSetting(k) \/ k \notin DOMAIN environ \cup DOMAIN file
    PROVE  /\ k \in DOMAIN Layered(Nothing, environ, file) <=>
                 \/ k \in DOMAIN environ \/ k \in DOMAIN file
                 \/ k \in DOMAIN FilesOf(_resolve_env(Nothing, environ))
           /\ k \in DOMAIN environ => Layered(Nothing, environ, file)[k] = environ[k]
           /\ k \in DOMAIN file \ DOMAIN environ => Layered(Nothing, environ, file)[k] = file[k]
           /\ k \in DOMAIN FilesOf(_resolve_env(Nothing, environ)) \ (DOMAIN environ \cup DOMAIN file) =>
                 Layered(Nothing, environ, file)[k] = FilesOf(_resolve_env(Nothing, environ))[k]
  <1> DEFINE e == FromEnviron(environ)
             d == FromDotenv(file)
             y == FilesOf(_resolve_env(Nothing, environ))
  <1>1. DOMAIN Nothing = {}
    BY DEF Nothing
  <1>2. (k \in DOMAIN e <=> k \in DOMAIN environ) /\ (k \in DOMAIN environ => e[k] = environ[k])
    BY DEF FromEnviron, Only
  <1>3. (k \in DOMAIN d <=> k \in DOMAIN file) /\ (k \in DOMAIN file => d[k] = file[k])
    BY DEF FromDotenv, Only
  <1>4. Layered(Nothing, environ, file) = Over(Nothing, Over(e, Over(d, y)))
    BY DEF Layered, FilesOf
  <1> HIDE DEF e, d, y
  <1>5. /\ DOMAIN Over(d, y) = DOMAIN d \cup DOMAIN y
        /\ k \in DOMAIN d => Over(d, y)[k] = d[k]
        /\ k \in DOMAIN y \ DOMAIN d => Over(d, y)[k] = y[k]
    BY DEF Over
  <1>6. /\ DOMAIN Over(e, Over(d, y)) = DOMAIN e \cup DOMAIN Over(d, y)
        /\ k \in DOMAIN e => Over(e, Over(d, y))[k] = e[k]
        /\ k \in DOMAIN Over(d, y) \ DOMAIN e => Over(e, Over(d, y))[k] = Over(d, y)[k]
    BY DEF Over
  <1>7. /\ DOMAIN Over(Nothing, Over(e, Over(d, y))) = DOMAIN Over(e, Over(d, y))
        /\ k \in DOMAIN Over(e, Over(d, y)) =>
              Over(Nothing, Over(e, Over(d, y)))[k] = Over(e, Over(d, y))[k]
    BY <1>1 DEF Over
  <1> QED
    BY <1>2, <1>3, <1>4, <1>5, <1>6, <1>7 DEF y

\* The settings that a bare variable can fill are credentials.
LEMMA BareTargets ==
    /\ DOMAIN BARE_SECRET_VARS = {"SLACK_BOT_TOKEN", "SLACK_APP_TOKEN", "LINEAR_API_KEY"}
    /\ \A v \in DOMAIN BARE_SECRET_VARS : BARE_SECRET_VARS[v] \in
          {<<"slack", "bot_token">>, <<"slack", "app_token">>, <<"ticketing", "api_key">>}
  BY DEF BARE_SECRET_VARS

\* What is neither compose's, nor bare, nor filled by a bare variable is kept.
LEMMA AssembleKeeps ==
    ASSUME NEW environ, NEW file, NEW k, k \notin HostPortVars, k \notin BareVars,
           \A v \in DOMAIN BARE_SECRET_VARS : BARE_SECRET_VARS[v] # k
    PROVE  /\ k \in DOMAIN Assemble(Nothing, environ, file) <=> k \in DOMAIN Layered(Nothing, environ, file)
           /\ k \in DOMAIN Layered(Nothing, environ, file) =>
                 Assemble(Nothing, environ, file)[k] = Layered(Nothing, environ, file)[k]
  <1> DEFINE data == Layered(Nothing, environ, file)
             kept == Only(data, DOMAIN data \ (HostPortVars \cup BareVars))
             secrets == {v \in DOMAIN BARE_SECRET_VARS : BareSecret(data, environ, v) # None}
             filled == [j \in {BARE_SECRET_VARS[v] : v \in secrets} |->
                           BareSecret(data, environ, CHOOSE v \in secrets : BARE_SECRET_VARS[v] = j)]
  <1>1. Assemble(Nothing, environ, file) = Over(kept, filled)
    BY DEF Assemble, _reconcile_shared_env
  <1>2. k \notin DOMAIN filled
    OBVIOUS
  <1>3. (k \in DOMAIN kept <=> k \in DOMAIN data) /\ (k \in DOMAIN data => kept[k] = data[k])
    BY DEF Only
  <1> HIDE DEF data, kept, filled
  <1>4. /\ DOMAIN Over(kept, filled) = DOMAIN kept \cup DOMAIN filled
        /\ k \in DOMAIN kept => Over(kept, filled)[k] = kept[k]
    BY DEF Over
  <1> QED
    BY <1>1, <1>2, <1>3, <1>4 DEF data

\* Two layers say the same of key k.
Agree(k, f, g) == (k \in DOMAIN f <=> k \in DOMAIN g) /\ (k \in DOMAIN f => f[k] = g[k])

\* Bare variables that read the same fill the same settings.
LEMMA ReconcileAgrees ==
    ASSUME NEW f, NEW g, NEW e1, NEW e2, NEW k, Agree(k, f, g),
           \A v \in DOMAIN BARE_SECRET_VARS : BareSecret(f, e1, v) = BareSecret(g, e2, v)
    PROVE  Agree(k, _reconcile_shared_env(f, e1), _reconcile_shared_env(g, e2))
  <1> DEFINE keptF == Only(f, DOMAIN f \ (HostPortVars \cup BareVars))
             keptG == Only(g, DOMAIN g \ (HostPortVars \cup BareVars))
             secretsF == {v \in DOMAIN BARE_SECRET_VARS : BareSecret(f, e1, v) # None}
             secretsG == {v \in DOMAIN BARE_SECRET_VARS : BareSecret(g, e2, v) # None}
             filledF == [j \in {BARE_SECRET_VARS[v] : v \in secretsF} |->
                           BareSecret(f, e1, CHOOSE v \in secretsF : BARE_SECRET_VARS[v] = j)]
             filledG == [j \in {BARE_SECRET_VARS[v] : v \in secretsG} |->
                           BareSecret(g, e2, CHOOSE v \in secretsG : BARE_SECRET_VARS[v] = j)]
  <1>1. /\ _reconcile_shared_env(f, e1) = Over(keptF, filledF)
        /\ _reconcile_shared_env(g, e2) = Over(keptG, filledG)
    BY DEF _reconcile_shared_env
  <1>2. secretsF = secretsG
    OBVIOUS
  <1>3. DOMAIN filledF = DOMAIN filledG
    BY <1>2
  <1>4. ASSUME NEW j \in DOMAIN filledF
        PROVE  filledF[j] = filledG[j]
    <2> DEFINE w == CHOOSE v \in secretsF : BARE_SECRET_VARS[v] = j
    <2>1. w \in secretsF
      BY <1>4
    <2>2. w = CHOOSE v \in secretsG : BARE_SECRET_VARS[v] = j
      BY <1>2
    <2>3. filledF[j] = BareSecret(f, e1, w) /\ filledG[j] = BareSecret(g, e2, w)
      BY <1>3, <1>4, <2>2
    <2> QED
      BY <2>1, <2>3
  <1>5. Agree(k, keptF, keptG)
    BY DEF Agree, Only
  <1> HIDE DEF keptF, keptG, filledF, filledG
  <1> QED
    BY <1>1, <1>3, <1>4, <1>5 DEF Agree, Over

-----------------------------------------------------------------------------
(* check-config and the container *)

LEMMA ForwardedKeys ==
    ASSUME NEW k \in Forwarded \cup {SpendCeiling}
    PROVE  /\ k \in Fields /\ IsSetting(k)
           /\ k \notin HostPortVars /\ k \notin BareVars
           /\ \A v \in DOMAIN BARE_SECRET_VARS : BARE_SECRET_VARS[v] # k
  <1>1. k \in Fields
    <2>1. CASE k \in {<<"env">>, <<"compose_profiles">>}
      BY <2>1 DEF Fields
    <2>2. CASE k \in Required
      BY <2>2 DEF Fields, Urls
    <2>3. CASE k \in {<<"webhooks", s>> : s \in WebhookSources}
      BY <2>3 DEF Fields, Texts
    <2>4. CASE k = SpendCeiling
      BY <2>4 DEF Fields, Amounts, SpendCeiling
    <2> QED
      BY <2>1, <2>2, <2>3, <2>4 DEF Forwarded
  <1>2. k \in {<<"env">>, <<"compose_profiles">>, <<"database", "url">>, <<"redis", "url">>,
               <<"budget", "max_usd_per_run">>} \cup {<<"webhooks", s>> : s \in WebhookSources}
    BY DEF Forwarded, Required, SpendCeiling
  <1>3. k \notin HostPortVars
    BY <1>2 DEF HostPortVars
  <1>4. k \notin BareVars
    BY <1>2, BareTargets DEF BareVars
  <1>5. \A v \in DOMAIN BARE_SECRET_VARS : BARE_SECRET_VARS[v] # k
    BY <1>2, BareTargets
  <1> QED
    BY <1>1, <1>3, <1>4, <1>5 DEF IsSetting

\* No file sets what is forwarded, and the ceiling that one sets is positive.
LEMMA FilesSet ==
    ASSUME NEW name
    PROVE  /\ \A k \in Forwarded : k \notin DOMAIN FilesOf(name)
           /\ SpendCeiling \in DOMAIN FilesOf(name) => FilesOf(name)[SpendCeiling] = "positive"
  <1>1. ASSUME NEW n
        PROVE  /\ \A k \in Forwarded : k \notin DOMAIN YamlFile(n)
               /\ SpendCeiling \in DOMAIN YamlFile(n) => YamlFile(n)[SpendCeiling] = "positive"
    BY DeployAssumption DEF YamlFile, Nothing
  <1> QED
    BY <1>1 DEF FilesOf, Over

\* The types and the defaults of what compose forwards.
LEMMA EnvAdmits ==
    \A v : Admits(<<"env">>, v) <=> v \in Environment
  <1>1. /\ <<"env">> # <<"compose_profiles">> /\ <<"env">> \notin Urls /\ <<"env">> \notin Amounts
        /\ <<"env">>[1] # "ports"
    BY DEF Urls, Amounts, Required
  <1>2. <<"env">> \notin Texts
    BY DEF Texts, CREDENTIALS_FOR
  <1> QED
    BY <1>1, <1>2 DEF Admits

LEMMA BlankNamesNone == Blank \notin Environment
  BY Zenon DEF Blank, Environment

LEMMA EnvDefault == Default(<<"env">>) = DEFAULT_ENV
  <1>1. <<"env">> # <<"compose_profiles">> /\ <<"env">>[1] # "ports"
    OBVIOUS
  <1> QED
    BY <1>1 DEF Default

\* What compose hands the container, key by key.
LEMMA ContainerReads ==
    /\ DOMAIN ContainerEnviron = Forwarded
    /\ ContainerEnviron[<<"env">>] = IF Given(Host, <<"env">>) THEN Host[<<"env">>] ELSE DEFAULT_ENV
    /\ ContainerEnviron[<<"compose_profiles">>] =
          IF <<"compose_profiles">> \in DOMAIN Host THEN Host[<<"compose_profiles">>] ELSE {}
    /\ \A k \in Required : ContainerEnviron[k] = "url"
    /\ \A s \in WebhookSources : ContainerEnviron[<<"webhooks", s>>] =
          IF <<"webhooks", s>> \in DOMAIN Host THEN Host[<<"webhooks", s>>] ELSE Blank
  <1>1. /\ <<"env">> \in Forwarded /\ <<"compose_profiles">> \in Forwarded
        /\ Required \subseteq Forwarded /\ \A s \in WebhookSources : <<"webhooks", s>> \in Forwarded
    BY DEF Forwarded
  <1>2. /\ <<"env">> # <<"compose_profiles">>
        /\ <<"env">> \notin Required /\ <<"compose_profiles">> \notin Required
        /\ \A s \in WebhookSources : /\ <<"webhooks", s>> # <<"env">>
                                     /\ <<"webhooks", s>> # <<"compose_profiles">>
                                     /\ <<"webhooks", s>> \notin Required
    BY DEF Required
  <1> QED
    BY <1>1, <1>2 DEF ContainerEnviron

\* A process that names its environment reads the file of that name.
LEMMA ProcessNamesFile ==
    ASSUME NEW environ, NEW file, Given(environ, <<"env">>)
    PROVE  Settled(Assemble(Nothing, environ, file))[<<"env">>] = _resolve_env(Nothing, environ)
  <1> DEFINE k == <<"env">>
  <1>1. /\ k \in Fields /\ IsSetting(k) /\ k \notin HostPortVars /\ k \notin BareVars
        /\ \A v \in DOMAIN BARE_SECRET_VARS : BARE_SECRET_VARS[v] # k
    BY ForwardedKeys DEF Forwarded
  <1>2. k \in DOMAIN environ /\ environ[k] # Blank
    BY DEF Given
  <1>3. /\ k \in DOMAIN Layered(Nothing, environ, file)
        /\ Layered(Nothing, environ, file)[k] = environ[k]
    BY <1>1, <1>2, LayeredReads
  <1>4. /\ k \in DOMAIN Assemble(Nothing, environ, file)
        /\ Assemble(Nothing, environ, file)[k] = environ[k]
    BY <1>1, <1>3, AssembleKeeps
  <1>5. _resolve_env(Nothing, environ) = environ[k]
    BY <1>2 DEF _resolve_env, Given, Nothing
  <1> QED
    BY <1>1, <1>4, <1>5 DEF Settled

\* On the host too, when the settings load and `.env` alone does not name it: a
\* blank name in the shell is refused, and no name anywhere is the default's.
LEMMA HostNamesFile ==
    ASSUME Loads(Nothing, shell, dotenv),
           <<"env">> \in DOMAIN shell \/ <<"env">> \notin DOMAIN dotenv
    PROVE  Settled(Assemble(Nothing, shell, dotenv))[<<"env">>] = _resolve_env(Nothing, shell)
  <1> DEFINE k == <<"env">>
             data == Assemble(Nothing, shell, dotenv)
  <1>1. /\ k \in Fields /\ IsSetting(k) /\ k \notin HostPortVars /\ k \notin BareVars
        /\ \A v \in DOMAIN BARE_SECRET_VARS : BARE_SECRET_VARS[v] # k
    BY ForwardedKeys DEF Forwarded
  <1>2. Agree(k, data, Layered(Nothing, shell, dotenv))
    BY <1>1, AssembleKeeps DEF Agree
  <1>3. CASE k \in DOMAIN shell
    <2>1. k \in DOMAIN Layered(Nothing, shell, dotenv) /\ Layered(Nothing, shell, dotenv)[k] = shell[k]
      BY <1>1, <1>3, LayeredReads
    <2>2. k \in DOMAIN data /\ data[k] = shell[k]
      BY <1>2, <2>1 DEF Agree
    <2>3. WellFormed(data)
      BY DEF Loads
    <2>4. Admits(k, data[k])
      BY <2>2, <2>3 DEF WellFormed
    <2>5. data[k] \in Environment
      BY <2>4, EnvAdmits
    <2>6. Given(shell, k)
      BY <1>3, <2>2, <2>5, BlankNamesNone DEF Given
    <2> QED
      BY <2>6, ProcessNamesFile
  <1>4. CASE k \notin DOMAIN shell
    <2>1. k \notin DOMAIN FilesOf(_resolve_env(Nothing, shell))
      BY FilesSet DEF Forwarded
    <2>2. k \notin DOMAIN Layered(Nothing, shell, dotenv)
      BY <1>1, <1>4, <2>1, LayeredReads
    <2>3. k \notin DOMAIN data
      BY <1>2, <2>2 DEF Agree
    <2>4. Settled(data)[k] = DEFAULT_ENV
      BY <1>1, <2>3, EnvDefault DEF Settled
    <2>5. _resolve_env(Nothing, shell) = DEFAULT_ENV
      BY <1>4 DEF _resolve_env, Given, Nothing
    <2> QED
      BY <2>4, <2>5
  <1> QED
    BY <1>3, <1>4

\* What compose puts in the place of what is not set is admitted, as are the URL
\* that it forwards and a positive ceiling.
LEMMA SubstitutesAdmitted ==
    /\ Admits(<<"env">>, DEFAULT_ENV)
    /\ Admits(<<"compose_profiles">>, {}) /\ Default(<<"compose_profiles">>) = {}
    /\ Admits(SpendCeiling, "positive")
    /\ \A s \in WebhookSources : Admits(<<"webhooks", s>>, Blank)
  <1>1. Admits(<<"env">>, DEFAULT_ENV)
    BY EnvAdmits DEF Environment, DEFAULT_ENV
  <1>2. Admits(<<"compose_profiles">>, {}) /\ Default(<<"compose_profiles">>) = {}
    <2> DEFINE k == <<"compose_profiles">>
    <2>1. k # <<"env">> /\ k \notin Urls /\ k \notin Amounts /\ k[1] # "ports"
      BY DEF Urls, Amounts, Required
    <2>2. k \notin Texts
      BY DEF Texts, CREDENTIALS_FOR
    <2> QED
      BY <2>1, <2>2 DEF Admits, Default
  <1>3. Admits(SpendCeiling, "positive")
    <2> DEFINE k == <<"budget", "max_usd_per_run">>
    <2>1. /\ k # <<"env">> /\ k # <<"compose_profiles">> /\ k \notin Urls /\ k \in Amounts
          /\ k[1] # "ports"
      BY DEF Urls, Amounts, Required
    <2>2. k \notin Texts
      BY DEF Texts, CREDENTIALS_FOR
    <2>3. Admits(k, "positive")
      BY <2>1, <2>2 DEF Admits
    <2> QED
      BY <2>3 DEF SpendCeiling
  <1>4. ASSUME NEW s \in WebhookSources
        PROVE  Admits(<<"webhooks", s>>, Blank)
    <2> DEFINE k == <<"webhooks", s>>
    <2>1. /\ k # <<"env">> /\ k # <<"compose_profiles">> /\ k \notin Urls /\ k \notin Amounts
          /\ k[1] # "ports"
      BY DEF Urls, Amounts, Required
    <2>2. k \in Texts
      BY DEF Texts
    <2> QED
      BY <2>1, <2>2 DEF Admits
  <1> QED
    BY <1>1, <1>2, <1>3, <1>4

OneSided == Forwarded \cup HostPortVars \cup {SpendCeiling}
HostData == Assemble(Nothing, shell, dotenv)
ContainerData == Assemble(Nothing, ContainerEnviron, Nothing)

LEMMA HostDomain ==
    /\ DOMAIN Host = DOMAIN shell \cup DOMAIN dotenv
    /\ \A k \in DOMAIN shell : Host[k] = shell[k]
    /\ \A k \in DOMAIN dotenv \ DOMAIN shell : Host[k] = dotenv[k]
  BY DEF Host, Over

\* Both sides read the same file.
LEMMA SameFile ==
    ASSUME SameForBoth
    PROVE  _resolve_env(Nothing, shell) = _resolve_env(Nothing, ContainerEnviron)
  <1> DEFINE k == <<"env">>
  <1>1. k \in DOMAIN ContainerEnviron
    BY ContainerReads DEF Forwarded
  <1>2. DEFAULT_ENV # Blank
    BY BlankNamesNone DEF Environment, DEFAULT_ENV
  <1>3. ContainerEnviron[k] = IF Given(Host, k) THEN Host[k] ELSE DEFAULT_ENV
    BY ContainerReads
  <1>4. Given(ContainerEnviron, k)
    BY <1>1, <1>2, <1>3 DEF Given
  <1>5. _resolve_env(Nothing, ContainerEnviron) = ContainerEnviron[k]
    BY <1>4 DEF _resolve_env, Given, Nothing
  <1>6. CASE Given(shell, k)
    <2>1. Host[k] = shell[k] /\ Given(Host, k)
      BY <1>6, HostDomain DEF Given
    <2>2. _resolve_env(Nothing, shell) = shell[k]
      BY <1>6 DEF _resolve_env, Given, Nothing
    <2> QED
      BY <1>3, <1>5, <2>1, <2>2
  <1>7. CASE ~Given(shell, k)
    <2>1. _resolve_env(Nothing, shell) = DEFAULT_ENV
      BY <1>7 DEF _resolve_env, Given, Nothing
    <2>2. Given(Host, k) => Host[k] = DEFAULT_ENV
      BY <1>7 DEF SameForBoth, Given
    <2> QED
      BY <1>3, <1>5, <2>1, <2>2
  <1> QED
    BY <1>6, <1>7

\* What neither side sets for itself both have from the files and bare variables.
LEMMA AgreeElsewhere ==
    ASSUME SameForBoth, NEW k, k \notin OneSided
    PROVE  Agree(k, HostData, ContainerData)
  <1> DEFINE f == Layered(Nothing, shell, dotenv)
             g == Layered(Nothing, ContainerEnviron, Nothing)
             y == FilesOf(_resolve_env(Nothing, shell))
  <1>1. DOMAIN shell \subseteq OneSided /\ DOMAIN dotenv \subseteq OneSided
    BY HostDomain DEF SameForBoth, OneSided
  <1>2. DOMAIN ContainerEnviron \subseteq OneSided /\ DOMAIN Nothing = {}
    BY ContainerReads DEF OneSided, Nothing
  <1>3. ASSUME NEW j, j \notin OneSided
        PROVE  Agree(j, f, g)
    <2>1. Agree(j, f, y)
      BY <1>1, <1>3, LayeredReads DEF Agree
    <2>2. Agree(j, g, FilesOf(_resolve_env(Nothing, ContainerEnviron)))
      BY <1>2, <1>3, LayeredReads DEF Agree
    <2>3. Agree(j, g, y)
      BY <2>2, SameFile
    <2> QED
      BY <2>1, <2>3 DEF Agree
  <1>4. ASSUME NEW v \in DOMAIN BARE_SECRET_VARS
        PROVE  BareSecret(f, shell, v) = BareSecret(g, ContainerEnviron, v)
    <2>1. <<v>> \notin OneSided
      <3>1. <<v>> \in BareVars
        BY DEF BareVars
      <3>2. <<v>> \notin Forwarded \cup {SpendCeiling}
        BY <3>1, ForwardedKeys
      <3>3. <<v>> \notin HostPortVars
        BY BareTargets DEF HostPortVars
      <3> QED
        BY <3>2, <3>3 DEF OneSided
    <2>2. ~Given(shell, <<v>>) /\ ~Given(ContainerEnviron, <<v>>)
      BY <1>1, <1>2, <2>1 DEF Given
    <2>3. Agree(<<v>>, f, g)
      BY <1>3, <2>1
    <2> QED
      BY <2>2, <2>3 DEF BareSecret, Agree
  <1>5. Agree(k, f, g)
    BY <1>3
  <1>6. Agree(k, _reconcile_shared_env(f, shell), _reconcile_shared_env(g, ContainerEnviron))
    BY <1>4, <1>5, ReconcileAgrees
  <1> QED
    BY <1>6 DEF HostData, ContainerData, Assemble

\* Compose's own variables are nobody's settings.
LEMMA HostPortsDropped ==
    ASSUME NEW environ, NEW file, NEW k \in HostPortVars
    PROVE  k \notin DOMAIN Assemble(Nothing, environ, file)
  <1>1. \A v \in DOMAIN BARE_SECRET_VARS : BARE_SECRET_VARS[v] # k
    BY BareTargets DEF HostPortVars
  <1> QED
    BY <1>1 DEF Assemble, _reconcile_shared_env, Over, Only

\* What compose forwards: the host reads the operator's, the container compose's.
LEMMA ForwardedRead ==
    ASSUME NEW k \in Forwarded
    PROVE  /\ k \in DOMAIN HostData <=> k \in DOMAIN Host
           /\ k \in DOMAIN Host => HostData[k] = Host[k]
           /\ k \in DOMAIN ContainerData /\ ContainerData[k] = ContainerEnviron[k]
  <1> DEFINE f == Layered(Nothing, shell, dotenv)
             g == Layered(Nothing, ContainerEnviron, Nothing)
  <1>1. /\ IsSetting(k) /\ k \notin HostPortVars /\ k \notin BareVars
        /\ \A v \in DOMAIN BARE_SECRET_VARS : BARE_SECRET_VARS[v] # k
    BY ForwardedKeys
  <1>2. Agree(k, HostData, f) /\ Agree(k, ContainerData, g)
    BY <1>1, AssembleKeeps DEF Agree, HostData, ContainerData
  <1>3. k \notin DOMAIN FilesOf(_resolve_env(Nothing, shell))
    BY FilesSet
  <1>4. (k \in DOMAIN f <=> k \in DOMAIN Host) /\ (k \in DOMAIN Host => f[k] = Host[k])
    BY <1>1, <1>3, LayeredReads, HostDomain
  <1>5. k \in DOMAIN ContainerEnviron
    BY ContainerReads
  <1>6. /\ k \in DOMAIN ContainerEnviron => k \in DOMAIN g
        /\ k \in DOMAIN ContainerEnviron => g[k] = ContainerEnviron[k]
    BY <1>1, LayeredReads
  <1> HIDE DEF f, g
  <1> QED
    BY <1>2, <1>4, <1>5, <1>6 DEF Agree

\* A spend ceiling is positive wherever it is read from.
LEMMA CeilingRead ==
    ASSUME SameForBoth
    PROVE  /\ SpendCeiling \in DOMAIN HostData => HostData[SpendCeiling] = "positive"
           /\ SpendCeiling \in DOMAIN ContainerData => ContainerData[SpendCeiling] = "positive"
  <1> DEFINE k == SpendCeiling
             f == Layered(Nothing, shell, dotenv)
             g == Layered(Nothing, ContainerEnviron, Nothing)
  <1>1. /\ IsSetting(k) /\ k \notin HostPortVars /\ k \notin BareVars
        /\ \A v \in DOMAIN BARE_SECRET_VARS : BARE_SECRET_VARS[v] # k
    BY ForwardedKeys
  <1>2. Agree(k, HostData, f) /\ Agree(k, ContainerData, g)
    BY <1>1, AssembleKeeps DEF Agree, HostData, ContainerData
  <1>3. k \notin DOMAIN ContainerEnviron /\ k \notin DOMAIN Nothing
    BY ContainerReads DEF Forwarded, Required, SpendCeiling, Nothing
  <1>4. k \in DOMAIN g => g[k] = "positive"
    BY <1>1, <1>3, LayeredReads, FilesSet
  <1>5. k \in DOMAIN f => f[k] = "positive"
    BY <1>1, LayeredReads, FilesSet, HostDomain DEF SameForBoth
  <1> QED
    BY <1>2, <1>4, <1>5 DEF Agree

\* The types hold of both or of neither.
LEMMA BothWellFormed ==
    ASSUME SameForBoth
    PROVE  WellFormed(HostData) <=> WellFormed(ContainerData)
  <1>1. Required \subseteq DOMAIN HostData /\ Required \subseteq DOMAIN ContainerData
    BY ForwardedRead DEF SameForBoth, Forwarded
  <1>2. ASSUME NEW k \in OneSided
        PROVE  /\ k \in DOMAIN HostData \cup DOMAIN ContainerData => k \in Fields
               /\ (k \in DOMAIN HostData => Admits(k, HostData[k]))
                     <=> (k \in DOMAIN ContainerData => Admits(k, ContainerData[k]))
    <2>1. CASE k \in HostPortVars
      BY <2>1, HostPortsDropped DEF HostData, ContainerData
    <2>2. CASE k = SpendCeiling
      BY <2>2, CeilingRead, SubstitutesAdmitted, ForwardedKeys
    <2>3. CASE k \in Forwarded
      <3>1. k \in Fields
        BY <2>3, ForwardedKeys
      <3>2. /\ k \in DOMAIN HostData <=> k \in DOMAIN Host
            /\ k \in DOMAIN Host => HostData[k] = Host[k]
            /\ k \in DOMAIN ContainerData /\ ContainerData[k] = ContainerEnviron[k]
        BY <2>3, ForwardedRead
      <3>3. CASE k = <<"env">>
        <4>1. ContainerEnviron[k] = IF Given(Host, k) THEN Host[k] ELSE DEFAULT_ENV
          BY <3>3, ContainerReads
        <4>2. k \in DOMAIN Host => Given(Host, k)
          BY <3>3, HostDomain, BlankNamesNone DEF SameForBoth, Given, Environment, DEFAULT_ENV
        <4>3. k \in DOMAIN Host => ContainerEnviron[k] = Host[k]
          BY <4>1, <4>2
        <4>4. k \notin DOMAIN Host => Admits(k, ContainerEnviron[k])
          BY <3>3, <4>1, SubstitutesAdmitted DEF Given
        <4> QED
          BY <3>1, <3>2, <4>3, <4>4
      <3>4. CASE k = <<"compose_profiles">>
        <4>1. ContainerEnviron[k] = IF k \in DOMAIN Host THEN Host[k] ELSE {}
          BY <3>4, ContainerReads
        <4>2. Admits(k, {})
          BY <3>4, SubstitutesAdmitted
        <4> QED
          BY <3>1, <3>2, <4>1, <4>2
      <3>5. CASE k \in Required
        <4>1. ContainerEnviron[k] = "url" /\ k \in DOMAIN Host /\ Host[k] = "url"
          BY <3>5, ContainerReads DEF SameForBoth
        <4> QED
          BY <3>1, <3>2, <4>1
      <3>6. CASE k \in {<<"webhooks", s>> : s \in WebhookSources}
        <4>1. ContainerEnviron[k] = IF k \in DOMAIN Host THEN Host[k] ELSE Blank
          BY <3>6, ContainerReads
        <4>2. Admits(k, Blank)
          BY <3>6, SubstitutesAdmitted
        <4> QED
          BY <3>1, <3>2, <4>1, <4>2
      <3> QED
        BY <2>3, <3>3, <3>4, <3>5, <3>6 DEF Forwarded
    <2> QED
      BY <2>1, <2>2, <2>3 DEF OneSided
  <1>3. ASSUME NEW k
        PROVE  (k \in DOMAIN HostData => k \in Fields /\ Admits(k, HostData[k]))
                   <=> (k \in DOMAIN ContainerData => k \in Fields /\ Admits(k, ContainerData[k]))
    <2>1. CASE k \in OneSided
      BY <1>2, <2>1
    <2>2. CASE k \notin OneSided
      BY <2>2, AgreeElsewhere DEF Agree
    <2> QED
      BY <2>1, <2>2
  <1> QED
    BY <1>1, <1>3 DEF WellFormed

\* What the gates outside prod look at.
GateKeys ==
    {<<"env">>, <<"compose_profiles">>} \cup {<<"ports", p>> : p \in Ports}
        \cup UNION {CREDENTIALS_FOR[a] : a \in DOMAIN CREDENTIALS_FOR}

\* Both sides settle on the same for the gates.
LEMMA SameSettled ==
    ASSUME SameForBoth, NEW k \in GateKeys
    PROVE  Settled(HostData)[k] = Settled(ContainerData)[k]
  <1>1. CASE k = <<"env">>
    <2>1. k \in Forwarded /\ k \in Fields
      BY <1>1, ForwardedKeys DEF Forwarded
    <2>2. /\ k \in DOMAIN HostData <=> k \in DOMAIN Host
          /\ k \in DOMAIN Host => HostData[k] = Host[k]
          /\ k \in DOMAIN ContainerData /\ ContainerData[k] = ContainerEnviron[k]
      BY <2>1, ForwardedRead
    <2>3. ContainerEnviron[k] = IF Given(Host, k) THEN Host[k] ELSE DEFAULT_ENV
      BY <1>1, ContainerReads
    <2>4. k \in DOMAIN Host <=> Given(Host, k)
      BY <1>1, HostDomain, BlankNamesNone DEF SameForBoth, Given, Environment, DEFAULT_ENV
    <2>5. Default(k) = DEFAULT_ENV
      BY <1>1, EnvDefault
    <2> QED
      BY <2>1, <2>2, <2>3, <2>4, <2>5 DEF Settled
  <1>2. CASE k = <<"compose_profiles">>
    <2>1. k \in Forwarded /\ k \in Fields
      BY <1>2, ForwardedKeys DEF Forwarded
    <2>2. /\ k \in DOMAIN HostData <=> k \in DOMAIN Host
          /\ k \in DOMAIN Host => HostData[k] = Host[k]
          /\ k \in DOMAIN ContainerData /\ ContainerData[k] = ContainerEnviron[k]
      BY <2>1, ForwardedRead
    <2>3. ContainerEnviron[k] = IF k \in DOMAIN Host THEN Host[k] ELSE {}
      BY <1>2, ContainerReads
    <2>4. Default(k) = {}
      BY <1>2, SubstitutesAdmitted
    <2> QED
      BY <2>1, <2>2, <2>3, <2>4 DEF Settled
  <1>3. CASE k \in {<<"ports", p>> : p \in Ports}
    <2>1. k \in Fields
      BY <1>3, PortField
    <2>2. k \notin OneSided
      BY <1>3 DEF OneSided, Forwarded, Required, HostPortVars, SpendCeiling
    <2>3. Agree(k, HostData, ContainerData)
      BY <2>2, AgreeElsewhere
    <2> QED
      BY <2>1, <2>3 DEF Settled, Agree
  <1>4. CASE k \in UNION {CREDENTIALS_FOR[a] : a \in DOMAIN CREDENTIALS_FOR}
    <2>1. k \in Fields
      BY <1>4 DEF Fields, Texts
    <2>2. k \notin OneSided
      BY <1>4 DEF OneSided, Forwarded, Required, HostPortVars, SpendCeiling, CREDENTIALS_FOR
    <2>3. Agree(k, HostData, ContainerData)
      BY <2>2, AgreeElsewhere
    <2> QED
      BY <2>1, <2>3 DEF Settled, Agree
  <1> QED
    BY <1>1, <1>2, <1>3, <1>4 DEF GateKeys

\* Settings that pass the gates are not prod's, so what the others look at decides.
LEMMA GatesFollow ==
    ASSUME NEW f, NEW g, WellFormed(f), _fail_closed(Settled(f)),
           \A k \in GateKeys : Settled(f)[k] = Settled(g)[k]
    PROVE  _fail_closed(Settled(g))
  <1> DEFINE s == Settled(f)
             t == Settled(g)
  <1>1. s[<<"env">>] # "prod"
    BY GatesLeaveStubs
  <1>2. s[<<"env">>] = t[<<"env">>] /\ s[<<"compose_profiles">>] = t[<<"compose_profiles">>]
    BY DEF GateKeys
  <1>3. \A p \in Ports : s[<<"ports", p>>] = t[<<"ports", p>>]
    BY DEF GateKeys
  <1>4. \A a \in DOMAIN CREDENTIALS_FOR : \A k \in CREDENTIALS_FOR[a] : s[k] = t[k]
    BY DEF GateKeys
  <1> HIDE DEF s, t
  <1>5. unimplemented(s) = unimplemented(t)
    BY <1>3 DEF unimplemented
  <1>6. uncredentialed(s) = uncredentialed(t)
    BY <1>3, <1>4 DEF uncredentialed
  <1>7. _fail_closed(s)
    BY DEF s
  <1>8. _fail_closed(t)
    BY <1>1, <1>2, <1>5, <1>6, <1>7 DEF _fail_closed
  <1> QED
    BY <1>8 DEF t

\* Where both read the same, the settings load on both sides or on neither.
LEMMA BothLoad ==
    ASSUME SameForBoth
    PROVE  Loads(Nothing, shell, dotenv) <=> Loads(Nothing, ContainerEnviron, Nothing)
  <1> DEFINE x == <<"SMOKEJUMPER__ENV">>
  <1>1. x \notin OneSided
    BY DEF OneSided, Forwarded, Required, HostPortVars, SpendCeiling
  <1>2. x \notin DOMAIN shell /\ x \notin DOMAIN ContainerEnviron
    BY <1>1, HostDomain, ContainerReads DEF SameForBoth, OneSided
  <1>3. Loads(Nothing, shell, dotenv) <=> WellFormed(HostData) /\ _fail_closed(Settled(HostData))
    BY <1>2 DEF Loads, HostData
  <1>4. Loads(Nothing, ContainerEnviron, Nothing)
            <=> WellFormed(ContainerData) /\ _fail_closed(Settled(ContainerData))
    BY <1>2 DEF Loads, ContainerData
  <1>5. \A k \in GateKeys : Settled(HostData)[k] = Settled(ContainerData)[k]
    BY SameSettled
  <1>6. WellFormed(HostData) /\ _fail_closed(Settled(HostData)) => _fail_closed(Settled(ContainerData))
    BY <1>5, GatesFollow
  <1>7. WellFormed(ContainerData) /\ _fail_closed(Settled(ContainerData)) => _fail_closed(Settled(HostData))
    BY <1>5, GatesFollow
  <1> QED
    BY <1>3, <1>4, <1>6, <1>7, BothWellFormed

-----------------------------------------------------------------------------
(* The operator's checks against what the container does *)

\* A verdict is about the layers as they are now, and compose always names an
\* environment.
CheckInv ==
    /\ Shape
    /\ container.state # "absent" => Given(container.environ, <<"env">>)
    /\ verdict # "none" => (verdict = "valid" <=> Loads(Nothing, shell, dotenv))

LEMMA CheckInvariant == Spec => []CheckInv
  <1>1. Init => CheckInv
    BY DEF Init, CheckInv, Shape, NoContainer
  <1>2. CheckInv /\ [Next]_vars => CheckInv'
    <2> SUFFICES ASSUME CheckInv, [Next]_vars
                 PROVE  CheckInv'
      OBVIOUS
    <2>1. CASE Edit
      BY <2>1 DEF Edit, CheckInv, Shape
    <2>2. CASE TakePort \/ Preflight \/ Serve \/ Downgrade \/ UNCHANGED vars
      BY <2>2 DEF TakePort, Preflight, Serve, Downgrade, vars, configuration, checked, CheckInv, Shape
    <2>3. CASE check_config
      <3>1. UNCHANGED <<shell, dotenv, container>>
        BY <2>3 DEF check_config, configuration
      <3>2. Loads(Nothing, shell, dotenv)' = Loads(Nothing, shell, dotenv)
        BY <3>1
      <3>3. verdict' = IF Loads(Nothing, shell, dotenv) THEN "valid" ELSE "invalid"
        BY <2>3 DEF check_config
      <3> QED
        BY <3>1, <3>2, <3>3 DEF CheckInv, Shape
    <2>4. CASE Up
      <3>1. /\ container' = [state |-> IF is_free(HostPort) THEN "migrating" ELSE "unbound",
                             environ |-> ContainerEnviron, port |-> HostPort]
            /\ verdict' = "none"
        BY <2>4 DEF Up
      <3>2. Shape' /\ container'.environ = ContainerEnviron
        BY <3>1 DEF Shape
      <3>3. <<"env">> \in DOMAIN ContainerEnviron
        BY ContainerReads DEF Forwarded
      <3>4. ContainerEnviron[<<"env">>] # Blank
        BY ContainerReads, BlankNamesNone DEF Given, Environment, DEFAULT_ENV
      <3> QED
        BY <3>1, <3>2, <3>3, <3>4 DEF CheckInv, Given
    <2>5. CASE Migrate \/ app_from_env
      <3>1. /\ container.state # "absent" /\ UNCHANGED <<shell, dotenv, verdict>>
            /\ \E s \in {"blocked", "booting", "serving", "refused"} : Become(s)
        BY <2>5 DEF Migrate, app_from_env, configuration
      <3>2. Shape' /\ container'.environ = container.environ
        BY <3>1, BecomeShape DEF CheckInv
      <3> QED
        BY <3>1, <3>2 DEF CheckInv
    <2>6. CASE Stop
      BY <2>6 DEF Stop, NoContainer, configuration, CheckInv, Shape
    <2> QED
      BY <2>1, <2>2, <2>3, <2>4, <2>5, <2>6 DEF Next
  <1> QED
    BY <1>1, <1>2, PTL DEF Spec

\* Whatever the operator has edited and in whatever order, a container serves the
\* environment whose file it read, and so does a host that check-config finds
\* valid, unless `.env` alone names the environment (_resolve_env, load_settings).
THEOREM NamesItsFile == Spec => []ObjectNamesItsFile
  <1>1. CheckInv => ObjectNamesItsFile
    BY ProcessNamesFile, HostNamesFile DEF CheckInv, ObjectNamesItsFile, BootSettings
  <1> QED
    BY <1>1, CheckInvariant, PTL

\* Where both read the same, check-config on the host says what the boot of the
\* container will do, for any files under config/ (check_config, app_from_env).
THEOREM CheckIsTrue == Spec => []CheckPredictsBoot
  <1>1. CheckInv => CheckPredictsBoot
    BY BothLoad DEF CheckInv, CheckPredictsBoot
  <1> QED
    BY <1>1, CheckInvariant, PTL

\* A pass is forgotten as soon as the port may be bound by somebody.
BindInv == preflight = "pass" => container.state = "absent" /\ "8000" \notin taken

\* A preflight that passed and that nothing has followed predicts the bind of the
\* default port (find_collisions against `docker compose up`).
THEOREM PreflightIsTrue == Spec => []PreflightPredictsBind
  <1>1. Init => BindInv
    BY DEF Init, BindInv
  <1>2. BindInv /\ [Next]_vars => BindInv'
    <2> SUFFICES ASSUME BindInv, [Next]_vars
                 PROVE  BindInv'
      OBVIOUS
    <2>1. CASE Edit \/ TakePort \/ Up \/ Stop
      BY <2>1 DEF Edit, TakePort, Up, Stop, BindInv
    <2>2. CASE Preflight
      <3>1. /\ container.state = "absent" /\ UNCHANGED <<taken, container>>
            /\ preflight' = "pass" =>
                  \E names : find_collisions(selected_ports(names)) = {}
        BY <2>2 DEF Preflight
      <3>2. \A names : [profile |-> "default", service |-> "app", host_port |-> "8000"]
                          \in selected_ports(names)
        BY DEF selected_ports, INVENTORY
      <3>3. preflight' = "pass" => is_free("8000")
        BY <3>1, <3>2 DEF find_collisions
      <3> QED
        BY <3>1, <3>3 DEF BindInv, is_free
    <2>3. CASE check_config \/ Serve \/ Downgrade \/ UNCHANGED vars
      BY <2>3 DEF check_config, Serve, Downgrade, vars, checked, BindInv
    <2>4. CASE Migrate \/ app_from_env
      BY <2>4 DEF Migrate, app_from_env, BindInv
    <2> QED
      BY <2>1, <2>2, <2>3, <2>4 DEF Next
  <1>3. BindInv => PreflightPredictsBind
    BY DEF BindInv, PreflightPredictsBind, HostPort, is_free
  <1> QED
    BY <1>1, <1>2, <1>3, PTL DEF Spec

-----------------------------------------------------------------------------
(* Types *)

\* What DbType does not say.
HostType ==
    /\ Shape
    /\ edits \in 0..MaxEdits /\ downgrades \in 0..MaxDowngrades
    /\ taken \subseteq HostPorts
    /\ preflight \in {"none", "pass", "fail"} /\ verdict \in {"none", "valid", "invalid"}
    /\ container.state \in {"absent", "unbound", "migrating", "blocked", "booting", "refused",
                            "serving"}
    /\ container.state # "absent" => DOMAIN container.environ = Forwarded
    /\ ticket \in {"none", "open", "closed"}

\* What the database steps do to the ticket and to the count of downgrades.
LEMMA TicketSteps ==
    ASSUME ticket \in {"none", "open", "closed"}, downgrades \in 0..MaxDowngrades, [Next]_vars
    PROVE  ticket' \in {"none", "open", "closed"} /\ downgrades' \in 0..MaxDowngrades
  <1>1. CASE Db!Program
    BY <1>1 DEF Db!Program, Db!Admit, Db!Publish, Db!OpenRun, Db!Apply, Db!CloseRun,
       Db!Acknowledge, Db!Recover, Db!Write, Db!db
  <1>2. CASE Db!UpgradeHead
    BY <1>2 DEF Db!UpgradeHead
  <1>3. CASE Db!Downgrade
    BY <1>3, DeployAssumption DEF Db!Downgrade
  <1>4. CASE UNCHANGED dbvars
    BY <1>4 DEF dbvars
  <1> QED
    BY <1>1, <1>2, <1>3, <1>4, DatabaseSteps

\* Every variable keeps its type, for any number of edits and downgrades.
THEOREM DeployTyped == Spec => []TypeOK
  <1>1. Init => HostType
    BY DeployAssumption DEF Init, Db!Init, HostType, Shape, NoContainer
  <1>2. HostType /\ [Next]_vars => HostType'
    <2> SUFFICES ASSUME HostType, [Next]_vars
                 PROVE  HostType'
      OBVIOUS
    <2>1. ticket' \in {"none", "open", "closed"} /\ downgrades' \in 0..MaxDowngrades
      BY TicketSteps DEF HostType
    <2>2. CASE Edit
      BY <2>1, <2>2, DeployAssumption DEF Edit, HostType, Shape
    <2>3. CASE TakePort
      BY <2>1, <2>3 DEF TakePort, configuration, HostType, Shape
    <2>4. CASE Preflight \/ check_config
      BY <2>1, <2>4 DEF Preflight, check_config, configuration, HostType, Shape
    <2>5. CASE Up
      <3>1. /\ container' = [state |-> IF is_free(HostPort) THEN "migrating" ELSE "unbound",
                             environ |-> ContainerEnviron, port |-> HostPort]
            /\ preflight' = "none" /\ verdict' = "none" /\ UNCHANGED <<edits, taken>>
        BY <2>5 DEF Up, configuration
      <3>2. Shape' /\ container'.environ = ContainerEnviron
            /\ container'.state \in {"migrating", "unbound"}
        BY <3>1 DEF Shape
      <3> QED
        BY <2>1, <3>1, <3>2, ContainerReads DEF HostType
    <2>6. CASE Migrate \/ app_from_env
      <3>1. /\ container.state # "absent" /\ UNCHANGED <<edits, taken, verdict>>
            /\ preflight' \in {preflight, "none"}
            /\ \E s \in {"blocked", "booting", "serving", "refused"} : Become(s)
        BY <2>6 DEF Migrate, app_from_env, configuration
      <3>2. PICK s \in {"blocked", "booting", "serving", "refused"} : Become(s)
        BY <3>1
      <3>3. Shape' /\ container'.environ = container.environ /\ container'.state = s
        BY <3>2, BecomeShape DEF HostType
      <3> QED
        BY <2>1, <3>1, <3>3 DEF HostType
    <2>7. CASE Stop
      BY <2>1, <2>7 DEF Stop, NoContainer, configuration, HostType, Shape
    <2>8. CASE Serve \/ Downgrade \/ UNCHANGED vars
      BY <2>1, <2>8 DEF Serve, Downgrade, vars, configuration, checked, HostType, Shape
    <2> QED
      BY <2>2, <2>3, <2>4, <2>5, <2>6, <2>7, <2>8 DEF Next
  <1>3. HostType /\ DbInv => TypeOK
    BY DEF HostType, DbInv, DbType, Rows, TypeOK
  <1> QED
    BY <1>1, <1>2, <1>3, DbInvariant, PTL DEF Spec

-----------------------------------------------------------------------------
(* What a refusal names *)

\* A layer sets what it sets to something.
Whole(layer) == \A k \in DOMAIN layer : layer[k] # None

LEMMA OverWhole ==
    ASSUME NEW top, NEW rest, Whole(top), Whole(rest)
    PROVE  Whole(Over(top, rest))
  BY DEF Whole, Over

LEMMA OnlyWhole ==
    ASSUME NEW layer, NEW keys, Whole(layer)
    PROVE  Whole(Only(layer, keys))
  BY DEF Whole, Only

LEMMA AssembledWhole ==
    ASSUME NEW environ, NEW file, Whole(environ), Whole(file)
    PROVE  Whole(Assemble(Nothing, environ, file))
  <1> DEFINE data == Layered(Nothing, environ, file)
             kept == Only(data, DOMAIN data \ (HostPortVars \cup BareVars))
             secrets == {v \in DOMAIN BARE_SECRET_VARS : BareSecret(data, environ, v) # None}
             filled == [j \in {BARE_SECRET_VARS[v] : v \in secrets} |->
                           BareSecret(data, environ, CHOOSE v \in secrets : BARE_SECRET_VARS[v] = j)]
  <1>1. Whole(Nothing) /\ \A n : Whole(YamlFile(n))
    BY DeployAssumption DEF Whole, Nothing, YamlFile
  <1>2. Whole(FromEnviron(environ)) /\ Whole(FromDotenv(file))
    BY OnlyWhole DEF FromEnviron, FromDotenv
  <1>3. Whole(FilesOf(_resolve_env(Nothing, environ)))
    BY <1>1, OverWhole DEF FilesOf
  <1>4. Whole(Over(FromDotenv(file), FilesOf(_resolve_env(Nothing, environ))))
    BY <1>2, <1>3, OverWhole
  <1>5. Whole(Over(FromEnviron(environ), Over(FromDotenv(file), FilesOf(_resolve_env(Nothing, environ)))))
    BY <1>2, <1>4, OverWhole
  <1>6. Whole(data)
    BY <1>1, <1>5, OverWhole DEF Layered, FilesOf
  <1>7. Whole(kept)
    BY <1>6, OnlyWhole
  <1>8. Whole(filled)
    <2> SUFFICES ASSUME NEW j \in DOMAIN filled
                 PROVE  filled[j] # None
      BY DEF Whole
    <2> DEFINE w == CHOOSE v \in secrets : BARE_SECRET_VARS[v] = j
    <2>1. w \in secrets
      OBVIOUS
    <2>2. filled[j] = BareSecret(data, environ, w)
      OBVIOUS
    <2> HIDE DEF w
    <2> QED
      BY <2>1, <2>2
  <1>9. Assemble(Nothing, environ, file) = Over(kept, filled)
    BY DEF Assemble, _reconcile_shared_env
  <1> HIDE DEF kept, filled
  <1> QED
    BY <1>7, <1>8, <1>9, OverWhole

\* Compose's variables, bare secrets and the misspelt prefix are no settings.
LEMMA NotSettings ==
    ASSUME NEW k \in HostPortVars \cup BareVars \cup {<<"SMOKEJUMPER__ENV">>}
    PROVE  ~IsSetting(k)
  <1>1. k \in {<<"APP_HOST_PORT">>, <<"PROMETHEUS_HOST_PORT">>, <<"PHOENIX_HOST_PORT">>,
               <<"SLACK_BOT_TOKEN">>, <<"SLACK_APP_TOKEN">>, <<"LINEAR_API_KEY">>,
               <<"SMOKEJUMPER__ENV">>}
    BY BareTargets DEF HostPortVars, BareVars
  <1>2. Len(k) = 1
    BY <1>1
  <1>3. k \notin {<<"env">>, <<"compose_profiles">>} \cup Urls \cup Amounts
    BY <1>1 DEF Urls, Amounts, Required
  <1>4. k \notin Texts
    BY <1>1 DEF Texts, CREDENTIALS_FOR
  <1>5. k \notin {<<"ports", p>> : p \in Ports}
    BY <1>1
  <1> QED
    BY <1>2, <1>3, <1>4, <1>5 DEF IsSetting, Fields

\* A setting of the process's environment is among the assembled ones.
LEMMA EnvironAssembled ==
    ASSUME NEW environ, NEW file, NEW k \in DOMAIN environ, IsSetting(k)
    PROVE  k \in DOMAIN Assemble(Nothing, environ, file)
  <1> DEFINE data == Layered(Nothing, environ, file)
             kept == Only(data, DOMAIN data \ (HostPortVars \cup BareVars))
  <1>1. k \in DOMAIN data
    BY LayeredReads
  <1>2. k \notin HostPortVars \cup BareVars
    BY NotSettings
  <1>3. k \in DOMAIN kept
    BY <1>1, <1>2 DEF Only
  <1>4. \E filled : Assemble(Nothing, environ, file) = Over(kept, filled)
    BY DEF Assemble, _reconcile_shared_env
  <1> HIDE DEF kept
  <1> QED
    BY <1>3, <1>4 DEF Over

\* Settings that read the same are the same.
LEMMA SameValue ==
    ASSUME NEW e1, NEW f1, NEW e2, NEW f2, Whole(e1), Whole(f1), Whole(e2), Whole(f2),
           NEW k, IsSetting(k), SettingValue(e1, f1, k) = SettingValue(e2, f2, k)
    PROVE  Agree(k, Assemble(Nothing, e1, f1), Assemble(Nothing, e2, f2))
  <1>1. /\ Whole(Assemble(Nothing, e1, f1)) /\ Whole(Assemble(Nothing, e2, f2))
        /\ k \in DOMAIN e1 => k \in DOMAIN Assemble(Nothing, e1, f1)
        /\ k \in DOMAIN e2 => k \in DOMAIN Assemble(Nothing, e2, f2)
    BY AssembledWhole, EnvironAssembled
  <1> QED
    BY <1>1 DEF SettingValue, Whole, Agree

\* When `.env` holds nothing unknown, all that is assembled are settings.
Known(file) == \A k \in DOMAIN file : IsSetting(k) \/ k \in HostPortVars \cup BareVars

LEMMA AssembledSettings ==
    ASSUME NEW environ, NEW file, Known(file), NEW k \in DOMAIN Assemble(Nothing, environ, file)
    PROVE  IsSetting(k)
  <1> DEFINE data == Layered(Nothing, environ, file)
             kept == Only(data, DOMAIN data \ (HostPortVars \cup BareVars))
             secrets == {v \in DOMAIN BARE_SECRET_VARS : BareSecret(data, environ, v) # None}
             filled == [j \in {BARE_SECRET_VARS[v] : v \in secrets} |->
                           BareSecret(data, environ, CHOOSE v \in secrets : BARE_SECRET_VARS[v] = j)]
  <1>1. Assemble(Nothing, environ, file) = Over(kept, filled)
    BY DEF Assemble, _reconcile_shared_env
  <1>2. \A j \in DOMAIN filled : IsSetting(j)
    <2>1. \A j \in DOMAIN filled : j \in {<<"slack", "bot_token">>, <<"slack", "app_token">>,
                                         <<"ticketing", "api_key">>}
      BY BareTargets
    <2>2. \A j \in {<<"slack", "bot_token">>, <<"slack", "app_token">>, <<"ticketing", "api_key">>} :
              IsSetting(j)
      BY DEF IsSetting
    <2> HIDE DEF filled
    <2> QED
      BY <2>1, <2>2
  <1>3. ASSUME NEW j \in DOMAIN data, j \notin HostPortVars \cup BareVars
        PROVE  IsSetting(j)
    <2>1. \A n : \A i \in DOMAIN YamlFile(n) : IsSetting(i)
      BY DeployAssumption DEF YamlFile, Nothing
    <2>2. j \in DOMAIN FilesOf(_resolve_env(Nothing, environ)) => IsSetting(j)
      BY <2>1 DEF FilesOf, Over
    <2>3. j \in DOMAIN file => IsSetting(j)
      BY <1>3 DEF Known
    <2>4. j \in DOMAIN FromEnviron(environ) => IsSetting(j)
      BY DEF FromEnviron, Only
    <2>5. j \in DOMAIN FromDotenv(file) => j \in DOMAIN file
      BY DEF FromDotenv, Only
    <2>6. \/ j \in DOMAIN FromEnviron(environ) \/ j \in DOMAIN FromDotenv(file)
          \/ j \in DOMAIN FilesOf(_resolve_env(Nothing, environ))
      BY DEF Layered, FilesOf, Over, Nothing
    <2> QED
      BY <2>2, <2>3, <2>4, <2>5, <2>6
  <1>4. \A j \in DOMAIN kept : IsSetting(j)
    BY <1>3 DEF Only
  <1> HIDE DEF kept, filled
  <1> QED
    BY <1>1, <1>2, <1>4 DEF Over

\* The variables that the gates name are fields.
LEMMA ProblemsAreFields ==
    ASSUME NEW s, NEW k \in Problems(s)
    PROVE  k \in Fields
  <1>1. CASE k \in {<<"ports", p>> : p \in Blamed(s)}
    <2>1. Blamed(s) \subseteq Ports
      BY SubstitutedPorts DEF Blamed, unimplemented, uncredentialed, stubbed, Substituted
    <2> QED
      BY <1>1, <2>1, PortField
  <1>2. CASE k \in Unset(s)
    <2>1. PICK p \in uncredentialed(s) : k \in CREDENTIALS_FOR[s[<<"ports", p>>]]
      BY <1>2 DEF Unset
    <2>2. s[<<"ports", p>>] \in DOMAIN CREDENTIALS_FOR
      BY <2>1 DEF uncredentialed
    <2> QED
      BY <2>1, <2>2 DEF Fields, Texts
  <1>3. CASE k \in {<<"budget", "max_usd_per_run">>, <<"compose_profiles">>, <<"env">>}
    BY <1>3 DEF Fields, Amounts
  <1> QED
    BY <1>1, <1>2, <1>3 DEF Problems

\* In prod a port without a substitute has an adapter that is only planned.
LEMMA ProdIsBlamed ==
    ASSUME NEW data, WellFormed(data), stubbed(Settled(data)) = {}
    PROVE  unimplemented(Settled(data)) # {}
  <1> DEFINE s == Settled(data)
             k == <<"ports", "auth">>
  <1>1. "auth" \in Substituted /\ "auth" \in Ports
    BY SubstitutedPorts
  <1>2. k \in Fields /\ Default(k) = Selections["auth"][1]
    BY <1>1, PortField
  <1>3. \A v : Admits(k, v) => \E i \in DOMAIN Selections["auth"] : v = Selections["auth"][i]
    BY <1>1, PortField
  <1>4. 1 \in DOMAIN Selections["auth"]
    BY DEF Selections
  <1>5. k \in DOMAIN data => Admits(k, data[k])
    BY DEF WellFormed
  <1>6. s[k] = IF k \in DOMAIN data THEN data[k] ELSE Default(k)
    BY <1>2 DEF Settled
  <1>7. \E i \in DOMAIN Selections["auth"] : s[k] = Selections["auth"][i]
    BY <1>2, <1>3, <1>4, <1>5, <1>6
  <1>8. s[k] # STUB_SELECTIONS["auth"]
    BY <1>1 DEF stubbed, Substituted
  <1>9. s[k] \in PLANNED_SELECTIONS
    BY <1>1, <1>7, <1>8, StubOrPlanned
  <1>10. "auth" \in unimplemented(s)
    BY <1>1, <1>9 DEF unimplemented
  <1> QED
    BY <1>10

\* Settings that agree with refused ones on all that the gates named are refused.
LEMMA GatesNameCause ==
    ASSUME NEW s, NEW t, ~_fail_closed(s), \A k \in Problems(s) : s[k] = t[k],
           s[<<"env">>] = "prod" => stubbed(s) # {} \/ unimplemented(s) # {}
    PROVE  ~_fail_closed(t)
  <1> SUFFICES ASSUME _fail_closed(t)
               PROVE  FALSE
    OBVIOUS
  <1>1. unimplemented(s) = {}
    <2> SUFFICES ASSUME NEW p \in unimplemented(s)
                 PROVE  FALSE
      OBVIOUS
    <2>1. <<"ports", p>> \in Problems(s)
      BY DEF Problems, Blamed
    <2>2. p \in unimplemented(t)
      BY <2>1 DEF unimplemented
    <2> QED
      BY <2>2 DEF _fail_closed
  <1>2. uncredentialed(s) = {}
    <2> SUFFICES ASSUME NEW p \in uncredentialed(s)
                 PROVE  FALSE
      OBVIOUS
    <2>1. <<"ports", p>> \in Problems(s)
      BY DEF Problems, Blamed
    <2>2. PICK a \in DOMAIN CREDENTIALS_FOR :
                  s[<<"ports", p>>] = a /\ \E k \in CREDENTIALS_FOR[a] : ~_present(s[k])
      BY DEF uncredentialed
    <2>3. PICK k \in CREDENTIALS_FOR[a] : ~_present(s[k])
      BY <2>2
    <2>4. k \in Unset(s)
      BY <2>2, <2>3 DEF Unset
    <2>5. k \in Problems(s)
      BY <2>4 DEF Problems
    <2>6. t[<<"ports", p>>] = a /\ ~_present(t[k])
      BY <2>1, <2>2, <2>3, <2>5
    <2>7. p \in Ports
      BY DEF uncredentialed
    <2>8. p \in uncredentialed(t)
      BY <2>6, <2>7 DEF uncredentialed
    <2> QED
      BY <2>8 DEF _fail_closed
  <1>3. ~LabAbroad(s)
    <2> SUFFICES ASSUME LabAbroad(s)
                 PROVE  FALSE
      OBVIOUS
    <2>1. <<"compose_profiles">> \in Problems(s) /\ <<"env">> \in Problems(s)
      BY DEF Problems
    <2>2. LabAbroad(t)
      BY <2>1 DEF LabAbroad
    <2> QED
      BY <2>2 DEF LabAbroad, _fail_closed
  <1>4. s[<<"env">>] = "prod"
    BY <1>1, <1>2, <1>3 DEF _fail_closed, LabAbroad
  <1>5. PICK p \in stubbed(s) : TRUE
    BY <1>1, <1>4
  <1>6. <<"env">> \in Problems(s) /\ <<"ports", p>> \in Problems(s)
    BY <1>4, <1>5 DEF Problems, Blamed
  <1>7. t[<<"env">>] = "prod" /\ p \in stubbed(t)
    BY <1>4, <1>5, <1>6 DEF stubbed
  <1> QED
    BY <1>7 DEF _fail_closed

\* What is refused stays refused while all that the refusal named stays as it is.
LEMMA NamedIsCause ==
    ASSUME NEW e1, NEW f1, NEW e2, NEW f2, Whole(e1), Whole(f1), Whole(e2), Whole(f2), Known(f1),
           <<"SMOKEJUMPER__ENV">> \notin DOMAIN e1, ~Loads(Nothing, e1, f1),
           \A k \in Named(Nothing, e1, f1) : SettingValue(e2, f2, k) = SettingValue(e1, f1, k)
    PROVE  ~Loads(Nothing, e2, f2)
  <1> DEFINE f == Assemble(Nothing, e1, f1)
             g == Assemble(Nothing, e2, f2)
  <1> SUFFICES ASSUME Loads(Nothing, e2, f2)
               PROVE  FALSE
    OBVIOUS
  <1>1. WellFormed(g) /\ _fail_closed(Settled(g))
    BY DEF Loads
  <1>2. ~(WellFormed(f) /\ _fail_closed(Settled(f)))
    BY DEF Loads
  <1>3. Named(Nothing, e1, f1) = _describe(f)
    BY DEF Named
  <1>4. ASSUME NEW k \in _describe(f), IsSetting(k)
        PROVE  Agree(k, f, g)
    <2>1. SettingValue(e1, f1, k) = SettingValue(e2, f2, k)
      BY <1>3
    <2> QED
      BY <1>4, <2>1, SameValue
  <1>5. \A k \in DOMAIN f : IsSetting(k)
    BY AssembledSettings
  <1> HIDE DEF f, g
  <1>6. CASE ~WellFormed(f)
    <2> DEFINE wrong == (Required \ DOMAIN f) \cup {k \in DOMAIN f : k \notin Fields \/ ~Admits(k, f[k])}
    <2>1. PICK k \in wrong : TRUE
      BY <1>6 DEF WellFormed
    <2>2. IsSetting(k)
      BY <1>5 DEF IsSetting, Fields, Urls
    <2>3. k \in _describe(f)
      BY <1>6, <2>2 DEF _describe, _env_var_for
    <2>4. Agree(k, f, g)
      BY <1>4, <2>2, <2>3
    <2> QED
      BY <1>1, <2>4 DEF WellFormed, Agree
  <1>7. CASE WellFormed(f)
    <2>1. _describe(f) = Problems(Settled(f))
      BY <1>7 DEF _describe
    <2>2. ASSUME NEW k \in Problems(Settled(f))
          PROVE  Settled(f)[k] = Settled(g)[k]
      <3>1. k \in Fields /\ IsSetting(k)
        BY ProblemsAreFields DEF IsSetting
      <3>2. Agree(k, f, g)
        BY <1>4, <2>1, <3>1
      <3> QED
        BY <3>1, <3>2 DEF Settled, Agree
    <2>3. stubbed(Settled(f)) # {} \/ unimplemented(Settled(f)) # {}
      BY <1>7, ProdIsBlamed
    <2>4. ~_fail_closed(Settled(g))
      BY <1>2, <1>7, <2>2, <2>3, GatesNameCause
    <2> QED
      BY <1>1, <2>4
  <1> QED
    BY <1>6, <1>7

\* The misspelt prefix is read from the process alone, so only removing it there
\* changes what it says.
LEMMA PrefixIsCause ==
    ASSUME NEW environ, NEW other, NEW file, Whole(environ), Known(file),
           <<"SMOKEJUMPER__ENV">> \in DOMAIN environ,
           SettingValue(other, file, <<"SMOKEJUMPER__ENV">>) =
               SettingValue(environ, file, <<"SMOKEJUMPER__ENV">>)
    PROVE  <<"SMOKEJUMPER__ENV">> \in DOMAIN other
  <1> DEFINE x == <<"SMOKEJUMPER__ENV">>
  <1>1. ~IsSetting(x)
    BY NotSettings
  <1>2. x \notin DOMAIN Assemble(Nothing, environ, file) /\ x \notin DOMAIN Assemble(Nothing, other, file)
    BY <1>1, AssembledSettings
  <1> QED
    BY <1>2 DEF SettingValue, Whole

LEMMA EditedWhole ==
    ASSUME NEW layer, NEW edit, Whole(layer)
    PROVE  Whole(Edited(layer, edit))
  BY DEF Edited, Whole, Only, Over

\* A refusal of check-config names the cause, for any edits of `.env` and the shell
\* and any files under config/: nothing that leaves what it names as it is helps
\* (_describe, _env_vars_for and the messages of _fail_closed).
THEOREM RefusalsNameCause == Spec => []RefusalNamesCause
  <1> DEFINE LayersWhole == Whole(shell) /\ Whole(dotenv)
  <1>1. Init => LayersWhole
    BY DeployAssumption DEF Init, Whole, Nothing
  <1>2. LayersWhole /\ [Next]_vars => LayersWhole'
    <2> SUFFICES ASSUME LayersWhole, [Next]_vars
                 PROVE  LayersWhole'
      OBVIOUS
    <2>1. CASE Edit
      <3>1. \/ (\E e : dotenv' = Edited(dotenv, e)) /\ shell' = shell
            \/ (\E e : shell' = Edited(shell, e)) /\ dotenv' = dotenv
        BY <2>1 DEF Edit
      <3>2. \A e : Whole(Edited(dotenv, e)) /\ Whole(Edited(shell, e))
        BY EditedWhole
      <3> QED
        BY <3>1, <3>2
    <2>2. CASE UNCHANGED <<dotenv, shell>>
      BY <2>2
    <2> QED
      BY <2>1, <2>2 DEF Next, TakePort, Preflight, check_config, Up, Migrate, app_from_env, Serve,
         Downgrade, Stop, configuration, vars
  <1>3. LayersWhole /\ CheckInv => RefusalNamesCause
    <2> SUFFICES ASSUME LayersWhole, CheckInv, verdict = "invalid", Known(dotenv),
                        NEW next \in OneEditAway,
                        \A k \in Named(Nothing, shell, dotenv) :
                            SettingValue(next[1], next[2], k) = SettingValue(shell, dotenv, k)
                 PROVE  ~Loads(Nothing, next[1], next[2])
      BY DEF RefusalNamesCause, Known
    <2>1. ~Loads(Nothing, shell, dotenv)
      BY DEF CheckInv
    <2>2. \/ next[1] = shell /\ \E e : next[2] = Edited(dotenv, e)
          \/ next[2] = dotenv /\ \E e : next[1] = Edited(shell, e)
      BY DEF OneEditAway
    <2>3. Whole(next[1]) /\ Whole(next[2])
      BY <2>2, EditedWhole
    <2>4. CASE <<"SMOKEJUMPER__ENV">> \in DOMAIN shell
      <3>1. Named(Nothing, shell, dotenv) = {<<"SMOKEJUMPER__ENV">>}
        BY <2>4 DEF Named
      <3>2. <<"SMOKEJUMPER__ENV">> \in DOMAIN next[1]
        <4>1. CASE next[1] = shell
          BY <2>4, <4>1
        <4>2. CASE next[2] = dotenv
          BY <2>4, <3>1, <4>2, PrefixIsCause
        <4> QED
          BY <2>2, <4>1, <4>2
      <3> QED
        BY <3>2 DEF Loads
    <2>5. CASE <<"SMOKEJUMPER__ENV">> \notin DOMAIN shell
      BY <2>1, <2>3, <2>5, NamedIsCause
    <2> QED
      BY <2>4, <2>5
  <1> QED
    BY <1>1, <1>2, <1>3, CheckInvariant, PTL DEF Spec
=============================================================================
