---------------------------- MODULE WorkerProofs ----------------------------
(***************************************************************************)
(* Proofs about the workers, for any number of workers, events, tickets    *)
(* and fingerprints and any bounds: what a worker has in hand keeps its    *)
(* shape, types, and one open ticket for each fingerprint.                 *)
(***************************************************************************)
EXTENDS Worker, TLAPS

\* A leaf that names no prover is tried with Zenon, then with SMT.
USE ZenonT(5), SMTT(20)

InHandle == {"event", "transition", "apply", "insert", "update", "ledger", "action", "close"}

\* What a worker has in hand: ids the group has delivered, and inside `handle`
\* a message with an event.
HandShape ==
    /\ delivered <= Len(stream)
    /\ \A w \in Workers :
          /\ \A i \in DOMAIN batch[w] : batch[w][i] \in 1 .. delivered
          /\ pc[w] \in InHandle \cup {"ack"} => batch[w] # <<>>
          /\ pc[w] \in InHandle => Run(w) \in Events
          /\ logs[w] # <<>>

Shape == TypeOK /\ HandShape

\* The stream only grows.
StreamGrows == Len(stream) <= Len(stream') /\ \A m \in 1 .. Len(stream) : stream'[m] = stream[m]

LEMMA RunKept ==
    ASSUME Shape, StreamGrows, NEW w \in Workers, batch'[w] = batch[w], batch[w] # <<>>
    PROVE  Run(w)' = Run(w)
<1>1. batch[w] \in Seq(Nat) /\ 1 \in DOMAIN batch[w] /\ Head(batch[w]) = batch[w][1]
  BY DEF Shape, TypeOK
<1>2. batch[w][1] \in 1 .. Len(stream)
  BY <1>1 DEF Shape, TypeOK, HandShape
<1>3. Head(batch[w]') = Head(batch[w])
  OBVIOUS
<1> QED
  BY <1>1, <1>2, <1>3 DEF Run, StreamGrows

\* One entry of a sequence replaced.
LEMMA EntryReplaced ==
    ASSUME NEW S, NEW s \in Seq(S), NEW i \in 1 .. Len(s), NEW x \in S
    PROVE  [s EXCEPT ![i] = x] \in Seq(S) /\ Len([s EXCEPT ![i] = x]) = Len(s)
<1>1. [s EXCEPT ![i] = x] \in [1 .. Len(s) -> S] /\ Len(s) \in Nat
  OBVIOUS
<1> QED
  BY <1>1

\* What is left of a sequence.
LEMMA TailLeft ==
    ASSUME NEW S, NEW s \in Seq(S), s # <<>>
    PROVE  /\ Tail(s) \in Seq(S) /\ Len(Tail(s)) = Len(s) - 1
           /\ \A i \in 1 .. Len(Tail(s)) : Tail(s)[i] = s[i + 1]
OBVIOUS

\* An append to a worker's current file.
LEMMA WriteTyped ==
    ASSUME Shape, NEW w \in Workers, NEW line \in AuditLine, Write(w, line)
    PROVE  logs' \in [Workers -> Seq(Seq(AuditLine))] /\ \A v \in Workers : logs'[v] # <<>>
<1> DEFINE n == Len(logs[w])
           file == Append(logs[w][n], line)
           files == [logs[w] EXCEPT ![n] = file]
<1>1. logs[w] \in Seq(Seq(AuditLine)) /\ logs[w] # <<>>
  BY DEF Shape, TypeOK, HandShape
<1>2. n \in 1 .. Len(logs[w]) /\ logs[w][n] \in Seq(AuditLine)
  BY <1>1
<1>3. file \in Seq(AuditLine)
  BY <1>2
<1>4. files \in Seq(Seq(AuditLine)) /\ files # <<>>
  <2> HIDE DEF file
  <2>1. files \in Seq(Seq(AuditLine)) /\ Len(files) = Len(logs[w])
    BY <1>1, <1>2, <1>3, EntryReplaced
  <2> QED
    BY <1>1, <2>1
<1>5. logs' = [logs EXCEPT ![w] = files]
  BY DEF Write, Shape, TypeOK
<1> HIDE DEF files
<1> QED
  BY <1>4, <1>5 DEF Shape, TypeOK, HandShape

LEMMA InitShape == Init => Shape
<1> SUFFICES ASSUME Init PROVE Shape
  OBVIOUS
<1> USE WorkerAssumption DEF Init
<1>1. runs \in [Events -> RunRow] /\ tickets \in [TicketIds -> TicketRow]
  BY DEF RunRow, TicketRow, NoRun, NoSuchTicket
<1>2. ticket_actions \in [Events -> ActionRow] /\ outcome \in [Workers -> Outcome]
  BY DEF ActionRow, Outcome, NoAction, NoOutcome
<1>3. logs \in [Workers -> Seq(Seq(AuditLine))]
  <2>1. <<>> \in Seq(AuditLine)
    OBVIOUS
  <2>2. << <<>> >> \in Seq(Seq(AuditLine))
    BY <2>1
  <2> QED
    BY <2>2
<1>4. TypeOK
  BY <1>1, <1>2, <1>3 DEF TypeOK, WorkerPc
<1>5. HandShape
  BY DEF HandShape, InHandle
<1> QED
  BY <1>4, <1>5 DEF Shape

-----------------------------------------------------------------------------
(* The type invariant.  A step changes at most one worker's hands.             *)

LEMMA HandKept ==
    ASSUME Shape, StreamGrows, NEW w \in Workers,
           delivered' \in Nat, delivered <= delivered', delivered' <= Len(stream'),
           stream' \in Seq(Events \cup {Poison}),
           \A v \in Workers \ {w} : pc'[v] = pc[v] /\ batch'[v] = batch[v],
           \A v \in Workers : logs'[v] # <<>>,
           \A i \in DOMAIN batch'[w] : batch'[w][i] \in 1 .. delivered',
           pc'[w] \in InHandle \cup {"ack"} => batch'[w] = batch[w] /\ batch[w] # <<>>,
           pc'[w] \in InHandle => Run(w) \in Events
    PROVE  HandShape'
<1>1. \A v \in Workers : \A i \in DOMAIN batch'[v] : batch'[v][i] \in 1 .. delivered'
  <2> SUFFICES ASSUME NEW v \in Workers \ {w}, NEW i \in DOMAIN batch'[v]
               PROVE  batch'[v][i] \in 1 .. delivered'
    OBVIOUS
  <2>1. batch[v][i] \in 1 .. delivered /\ delivered \in Nat
    BY DEF Shape, TypeOK, HandShape
  <2> QED
    BY <2>1
<1>2. \A v \in Workers : pc'[v] \in InHandle \cup {"ack"} => batch'[v] = batch[v] /\ batch[v] # <<>>
  BY DEF Shape, HandShape
<1>3. \A v \in Workers : pc'[v] \in InHandle => Run(v) \in Events
  BY DEF Shape, HandShape
<1>4. \A v \in Workers : pc'[v] \in InHandle => Run(v)' \in Events
  BY <1>2, <1>3, RunKept
<1> QED
  BY <1>1, <1>2, <1>4 DEF HandShape

LEMMA SameStream == ASSUME Shape, stream' = stream PROVE StreamGrows
BY DEF StreamGrows, Shape, TypeOK

\* The worker lets go of its current message.
LEMMA TailShape ==
    ASSUME Shape, NEW w \in Workers, batch[w] # <<>>
    PROVE  /\ Tail(batch[w]) \in Seq(Nat)
           /\ \A i \in DOMAIN Tail(batch[w]) : Tail(batch[w])[i] \in 1 .. delivered
<1>1. batch[w] \in Seq(Nat)
  BY DEF Shape, TypeOK
<1>2. \A i \in 1 .. Len(batch[w]) : batch[w][i] \in 1 .. delivered
  BY <1>1 DEF Shape, HandShape
<1> QED
  BY <1>1, <1>2, TailLeft

\* The row of a run, of the ledger and of the outcome that the steps write.
LEMMA LineTyped ==
    ASSUME Shape, NEW w \in Workers, Run(w) \in Events,
           NEW kind \in {"event", "transition", "action", "torn"}
    PROVE  Line(w, kind) \in AuditLine /\ [seqs EXCEPT ![w][Run(w)] = @ + 1] \in [Workers -> [Events -> Nat]]
<1>1. seqs[w] \in [Events -> Nat] /\ outcome[w] \in Outcome
  BY DEF Shape, TypeOK
<1>2. seqs[w][Run(w)] + 1 \in Nat /\ outcome[w].ticket \in TicketIds \cup {NoTicket}
  BY <1>1 DEF Outcome
<1>3. [seqs[w] EXCEPT ![Run(w)] = @ + 1] \in [Events -> Nat]
  BY <1>1, <1>2
<1> QED
  BY <1>2, <1>3 DEF Line, AuditLine, Shape, TypeOK

LEMMA GiveUpKeepsShape ==
    ASSUME Shape, NEW w \in Workers, batch[w] # <<>>, GiveUp(w),
           UNCHANGED <<window, queue, tickets, ticket_actions>>,
           runs' \in [Events -> RunRow],
           logs' \in [Workers -> Seq(Seq(AuditLine))], \A v \in Workers : logs'[v] # <<>>,
           seqs' \in [Workers -> [Events -> Nat]], faults' \in Nat, crashes' \in Nat
    PROVE  Shape'
<1>1. NoOutcome \in Outcome
  BY DEF NoOutcome, Outcome
<1>2. /\ pc'[w] = "idle" /\ batch'[w] = Tail(batch[w])
      /\ \A v \in Workers \ {w} : pc'[v] = pc[v] /\ batch'[v] = batch[v]
  BY DEF GiveUp, Shape, TypeOK
<1>3. TypeOK'
  BY <1>1, TailShape, Zenon DEF GiveUp, Shape, TypeOK, WorkerPc, queue
<1>4. HandShape'
  <2>1. stream' = stream /\ delivered' = delivered
    BY DEF queue
  <2>2. StreamGrows
    BY <2>1, SameStream
  <2>3. delivered' \in Nat /\ delivered <= delivered' /\ delivered' <= Len(stream')
    BY <2>1 DEF Shape, TypeOK, HandShape
  <2>4. stream' \in Seq(Events \cup {Poison})
    BY <2>1 DEF Shape, TypeOK
  <2>5. \A i \in DOMAIN batch'[w] : batch'[w][i] \in 1 .. delivered'
    BY <1>2, <2>1, TailShape
  <2>6. pc'[w] \notin InHandle \cup {"ack"}
    BY <1>2 DEF InHandle
  <2> QED
    BY <1>2, <2>2, <2>3, <2>4, <2>5, <2>6, HandKept, Zenon
<1> QED
  BY <1>3, <1>4 DEF Shape

\* A step inside a worker that keeps its batch.
LEMMA HandMoves ==
    ASSUME Shape, NEW w \in Workers, NEW l \in WorkerPc,
           pc' = [pc EXCEPT ![w] = l],
           UNCHANGED <<stream, delivered, batch>>,
           \A v \in Workers : logs'[v] # <<>>,
           l \in InHandle \cup {"ack"} => batch[w] # <<>>,
           l \in InHandle => Run(w) \in Events
    PROVE  pc' \in [Workers -> WorkerPc] /\ HandShape'
<1>1. pc' \in [Workers -> WorkerPc] /\ pc'[w] = l /\ \A v \in Workers \ {w} : pc'[v] = pc[v]
  BY DEF Shape, TypeOK
<1>2. StreamGrows
  BY SameStream
<1>3. delivered' \in Nat /\ delivered <= delivered' /\ delivered' <= Len(stream')
  BY DEF Shape, TypeOK, HandShape
<1>4. stream' \in Seq(Events \cup {Poison})
  BY DEF Shape, TypeOK
<1>5. \A i \in DOMAIN batch'[w] : batch'[w][i] \in 1 .. delivered'
  BY DEF Shape, HandShape
<1>6. \A v \in Workers \ {w} : pc'[v] = pc[v] /\ batch'[v] = batch[v]
  BY <1>1
<1>7. pc'[w] \in InHandle \cup {"ack"} => batch'[w] = batch[w] /\ batch[w] # <<>>
  BY <1>1
<1>8. pc'[w] \in InHandle => Run(w) \in Events
  BY <1>1
<1> QED
  BY <1>1, <1>2, <1>3, <1>4, <1>5, <1>6, <1>7, <1>8, HandKept

\* A worker that drops its batch, or had none, and is not inside `handle`.
LEMMA HandEmpties ==
    ASSUME Shape, NEW w \in Workers, NEW l \in WorkerPc \ (InHandle \cup {"ack"}),
           NEW b \in Seq(Nat),
           pc' = [pc EXCEPT ![w] = l], batch' = [batch EXCEPT ![w] = b],
           delivered' \in Nat, delivered <= delivered', delivered' <= Len(stream),
           \A i \in DOMAIN b : b[i] \in 1 .. delivered',
           UNCHANGED <<stream, logs>>
    PROVE  pc' \in [Workers -> WorkerPc] /\ batch' \in [Workers -> Seq(Nat)] /\ HandShape'
<1>1. /\ pc' \in [Workers -> WorkerPc] /\ batch' \in [Workers -> Seq(Nat)]
      /\ pc'[w] = l /\ batch'[w] = b
      /\ \A v \in Workers \ {w} : pc'[v] = pc[v] /\ batch'[v] = batch[v]
  BY DEF Shape, TypeOK
<1>2. StreamGrows
  BY SameStream
<1>3. stream' \in Seq(Events \cup {Poison}) /\ delivered' <= Len(stream')
  BY DEF Shape, TypeOK
<1>4. \A v \in Workers : logs'[v] # <<>>
  BY DEF Shape, HandShape
<1>5. \A i \in DOMAIN batch'[w] : batch'[w][i] \in 1 .. delivered'
  BY <1>1
<1>6. pc'[w] \notin InHandle \cup {"ack"}
  BY <1>1
<1> QED
  BY <1>1, <1>2, <1>3, <1>4, <1>5, <1>6, HandKept

LEMMA ClosedRowTyped ==
    ASSUME NEW row \in TicketRow PROVE [row EXCEPT !.status = "closed"] \in TicketRow
BY DEF TicketRow

LEMMA EnvironmentKeepsShape ==
    ASSUME Shape, \/ \E e \in Events : Admit(e)
                  \/ \E m \in Events \cup {Poison} : Enqueue(m)
                  \/ \E fp \in Fingerprints : Recover(fp)
    PROVE  Shape'
<1>1. CASE \E e \in Events : Admit(e)
  BY <1>1 DEF Admit, Source!Admit, Shape, TypeOK, HandShape, Run, queue, tables, recorder, bounds
<1>2. ASSUME NEW m \in Events \cup {Poison}, Enqueue(m) PROVE Shape'
  <2> USE <1>2 DEF Enqueue, Source!Enqueue
  <2>1. /\ stream' = Append(stream, m) /\ stream \in Seq(Events \cup {Poison})
        /\ delivered' = delivered /\ delivered \in Nat /\ delivered <= Len(stream)
    BY DEF Shape, TypeOK, HandShape
  <2>2. stream' \in Seq(Events \cup {Poison}) /\ Len(stream') = Len(stream) + 1 /\ StreamGrows
    BY <2>1 DEF StreamGrows
  <2>3. TypeOK'
    BY <2>2 DEF Shape, TypeOK, tables, recorder, bounds
  <2>4. UNCHANGED <<batch, pc, logs, delivered>>
    BY DEF recorder
  <2>5. HandShape'
    <3>1. delivered' <= Len(stream')
      BY <2>1, <2>2
    <3>2. ASSUME NEW w \in Workers, pc[w] \in InHandle PROVE Run(w)' \in Events
      BY <2>2, <2>4, <3>2, RunKept DEF Shape, HandShape
    <3> QED
      BY <2>4, <3>1, <3>2 DEF Shape, HandShape
  <2> QED
    BY <2>3, <2>5 DEF Shape
<1>3. ASSUME NEW fp \in Fingerprints, Recover(fp) PROVE Shape'
  <2> USE <1>3 DEF Recover, Source!Recover
  <2>1. tickets' \in [TicketIds -> TicketRow]
    <3>1. \A t \in TicketIds : tickets[t] \in TicketRow
      BY DEF Shape, TypeOK
    <3>2. \A t \in TicketIds : [tickets[t] EXCEPT !.status = "closed"] \in TicketRow
      BY <3>1, ClosedRowTyped
    <3> QED
      BY <3>1, <3>2
  <2>2. window' \in [Events -> {"none", "open", "closed"}]
    BY DEF Shape, TypeOK
  <2>3. TypeOK'
    BY <2>1, <2>2 DEF Shape, TypeOK, queue, recorder, bounds
  <2>4. HandShape'
    BY DEF Shape, HandShape, Run, queue, recorder
  <2> QED
    BY <2>3, <2>4 DEF Shape
<1> QED
  BY <1>1, <1>2, <1>3

LEMMA EmptyBatch == <<>> \in Seq(Nat) /\ DOMAIN <<>> = {}
OBVIOUS

LEMMA QueueStepsKeepShape ==
    ASSUME Shape, NEW w \in Workers,
           \/ EnsureGroup(w) \/ EnsureGroupFails(w) \/ Read(w) \/ ReadLost(w)
           \/ SkipPoison(w) \/ Acknowledge(w) \/ AckFails(w) \/ Crash(w) \/ Restart(w)
    PROVE  Shape'
<1> USE WorkerAssumption
<1>0. /\ NoOutcome \in Outcome
      /\ delivered \in Nat /\ delivered <= Len(stream)
      /\ \A v \in Workers : logs[v] # <<>>
  BY DEF NoOutcome, Outcome, Shape, TypeOK, HandShape
<1>1. CASE EnsureGroup(w) \/ EnsureGroupFails(w) \/ SkipPoison(w)
  <2>1. PICK l \in WorkerPc : pc' = [pc EXCEPT ![w] = l] /\ l \in {"idle", "dead", "ack"}
    BY <1>1, ZenonT(30) DEF EnsureGroup, EnsureGroupFails, SkipPoison, GoTo, WorkerPc
  <2>2. SkipPoison(w) => batch[w] # <<>>
    BY DEF SkipPoison
  <2>3. ~SkipPoison(w) => l # "ack"
    BY <1>1, <2>1 DEF EnsureGroup, EnsureGroupFails, GoTo, Shape, TypeOK
  <2>4. UNCHANGED <<stream, delivered, batch>> /\ \A v \in Workers : logs'[v] # <<>>
    BY <1>0, <1>1 DEF EnsureGroup, EnsureGroupFails, SkipPoison, queue, recorder
  <2>5. l \notin InHandle
    BY <2>1 DEF InHandle
  <2>6. pc' \in [Workers -> WorkerPc] /\ HandShape'
    BY <2>1, <2>2, <2>3, <2>4, <2>5, HandMoves, Zenon
  <2>7. faults' \in Nat /\ crashes' \in Nat
    BY <1>1 DEF EnsureGroup, EnsureGroupFails, SkipPoison, Fault, bounds, Shape, TypeOK
  <2> QED
    BY <1>1, <2>6, <2>7, Zenon DEF EnsureGroup, EnsureGroupFails, SkipPoison, queue, tables, recorder, Shape, TypeOK
<1>2. CASE Read(w) \/ ReadLost(w)
  <2>1. PICK n \in 1 .. ReadCount : /\ Deliver(n)
                                   /\ batch' \in {batch, [batch EXCEPT ![w] = NextIds(n)]}
    BY <1>2 DEF Read, ReadLost
  <2>2. /\ batch[w] = <<>> /\ pc[w] = "idle" /\ UNCHANGED <<stream, logs, pc>>
        /\ faults' \in Nat /\ crashes' \in Nat
    <3>1. batch[w] = <<>> /\ pc[w] = "idle" /\ UNCHANGED <<stream, logs, pc>>
      BY <1>2, <2>1, Zenon DEF Read, ReadLost, Deliver, recorder
    <3>2. UNCHANGED bounds \/ Fault
      BY <1>2, Zenon DEF Read, ReadLost
    <3> QED
      BY <3>1, <3>2 DEF bounds, Fault, Shape, TypeOK
  <2>3. /\ n \in Nat /\ delivered' = delivered + n /\ delivered' <= Len(stream)
        /\ delivered' \in Nat /\ delivered <= delivered'
        /\ pel' = pel \cup (delivered + 1 .. delivered + n)
    <3>1. /\ n \in 1 .. ReadCount /\ delivered + n <= Len(stream) /\ delivered' = delivered + n
          /\ pel' = pel \cup (delivered + 1 .. delivered + n)
      BY <2>1, Zenon DEF Deliver
    <3> QED
      BY <1>0, <3>1
  <2>4. PICK b \in Seq(Nat) : /\ batch' = [batch EXCEPT ![w] = b]
                              /\ \A i \in DOMAIN b : b[i] \in 1 .. delivered'
    <3>1. CASE batch' = batch
      <4>1. batch' = [batch EXCEPT ![w] = <<>>]
        BY <2>2, <3>1 DEF Shape, TypeOK
      <4> QED
        BY <4>1, EmptyBatch, Zenon
    <3>2. CASE batch' = [batch EXCEPT ![w] = NextIds(n)]
      <4>1. NextIds(n) \in Seq(Nat) /\ \A i \in DOMAIN NextIds(n) : NextIds(n)[i] \in 1 .. delivered'
        BY <1>0, <2>3 DEF NextIds
      <4> QED
        BY <3>2, <4>1, Zenon
    <3> QED
      BY <2>1, <3>1, <3>2
  <2>5. "idle" \in WorkerPc \ (InHandle \cup {"ack"}) /\ pc' = [pc EXCEPT ![w] = "idle"]
    BY <2>2 DEF WorkerPc, InHandle, Shape, TypeOK
  <2>6. batch' \in [Workers -> Seq(Nat)] /\ HandShape'
    BY <2>2, <2>3, <2>4, <2>5, HandEmpties, Zenon
  <2>7. pel' \in SUBSET Nat
    BY <1>0, <2>3 DEF Shape, TypeOK
  <2> QED
    BY <1>2, <2>2, <2>3, <2>6, <2>7, ZenonT(30) DEF Read, ReadLost, tables, recorder, Shape, TypeOK
<1>3. CASE Acknowledge(w) \/ AckFails(w) \/ Crash(w)
  <2>1. /\ Acknowledge(w) \/ AckFails(w) => batch[w] # <<>>
        /\ UNCHANGED <<stream, delivered, logs>>
        /\ outcome' = [outcome EXCEPT ![w] = NoOutcome]
        /\ pel' \in SUBSET Nat
    BY <1>3, Zenon DEF Acknowledge, AckFails, Crash, GoTo, queue, recorder, Shape, TypeOK, HandShape
  <2>2. faults' \in Nat /\ crashes' \in Nat
    BY <1>3 DEF Acknowledge, AckFails, Crash, Fault, bounds, Shape, TypeOK
  <2>3. PICK b \in Seq(Nat) : /\ batch' = [batch EXCEPT ![w] = b]
                              /\ \A i \in DOMAIN b : b[i] \in 1 .. delivered
    <3>1. CASE Acknowledge(w)
      BY <2>1, <3>1, TailShape, Zenon DEF Acknowledge, Shape, TypeOK
    <3>2. CASE AckFails(w) \/ Crash(w)
      <4>1. batch' = [batch EXCEPT ![w] = <<>>]
        BY <3>2 DEF AckFails, Crash
      <4> QED
        BY <4>1, EmptyBatch, Zenon
    <3> QED
      BY <1>3, <3>1, <3>2
  <2>4. PICK l \in WorkerPc \ (InHandle \cup {"ack"}) : pc' = [pc EXCEPT ![w] = l]
    BY <1>3, ZenonT(30) DEF Acknowledge, AckFails, Crash, GoTo, WorkerPc, InHandle
  <2>5. pc' \in [Workers -> WorkerPc] /\ batch' \in [Workers -> Seq(Nat)] /\ HandShape'
    <3>1. /\ delivered' \in Nat /\ delivered <= delivered' /\ delivered' <= Len(stream)
          /\ \A i \in DOMAIN b : b[i] \in 1 .. delivered'
      BY <1>0, <2>1, <2>3
    <3> QED
      BY <2>1, <2>3, <2>4, <3>1, HandEmpties, Zenon
  <2>6. outcome' \in [Workers -> Outcome]
    BY <1>0, <2>1 DEF Shape, TypeOK
  <2> QED
    BY <1>3, <2>1, <2>2, <2>5, <2>6, Zenon DEF Acknowledge, AckFails, Crash, tables, recorder, queue, Shape, TypeOK
<1>4. CASE Restart(w)
  <2>1. logs' \in [Workers -> Seq(Seq(AuditLine))] /\ \A v \in Workers : logs'[v] # <<>>
    <3>1. <<>> \in Seq(AuditLine) /\ logs[w] \in Seq(Seq(AuditLine))
      BY DEF Shape, TypeOK
    <3>2. Append(logs[w], <<>>) \in Seq(Seq(AuditLine)) /\ Append(logs[w], <<>>) # <<>>
      BY <3>1
    <3> QED
      BY <1>0, <1>4, <3>2 DEF Restart, Shape, TypeOK
  <2>2. "start" \in WorkerPc \ (InHandle \cup {"ack"}) /\ pc' = [pc EXCEPT ![w] = "start"]
    BY <1>4 DEF Restart, GoTo, WorkerPc, InHandle
  <2>3. UNCHANGED <<stream, delivered, batch>>
    BY <1>4 DEF Restart, queue
  <2>4. pc' \in [Workers -> WorkerPc] /\ HandShape'
    BY <2>1, <2>2, <2>3, HandMoves, Zenon
  <2>5. seqs' \in [Workers -> [Events -> Nat]]
    BY <1>4 DEF Restart, Shape, TypeOK
  <2> QED
    BY <1>4, <2>1, <2>4, <2>5 DEF Restart, queue, tables, bounds, Shape, TypeOK
<1> QED
  BY <1>1, <1>2, <1>3, <1>4

-----------------------------------------------------------------------------
(* The steps of `handle` *)

\* The rows of `runs` that open_run and close_run write.
LEMMA RunRowsTyped ==
    ASSUME Shape, NEW w \in Workers, Run(w) \in Events
    PROVE  /\ [status |-> "running", file |-> File(w), start |-> Len(Log(w)), end |-> 0] \in RunRow
           /\ [runs EXCEPT ![Run(w)].status = "concluded", ![Run(w)].end = Len(Log(w))]
                 \in [Events -> RunRow]
<1> DEFINE n == Len(Log(w))
<1>1. logs[w] \in Seq(Seq(AuditLine)) /\ logs[w] # <<>>
  BY DEF Shape, TypeOK, HandShape
<1>2. n \in Nat /\ File(w) \in Workers \X Nat
  BY <1>1 DEF Log, File
<1>3. runs \in [Events -> RunRow]
  BY DEF Shape, TypeOK
<1> HIDE DEF n
<1>4. [[runs[Run(w)] EXCEPT !.status = "concluded"] EXCEPT !.end = n] \in RunRow
  BY <1>2, <1>3, Zenon DEF RunRow
<1>5. [runs EXCEPT ![Run(w)].status = "concluded", ![Run(w)].end = n] \in [Events -> RunRow]
  BY <1>3, <1>4
<1> QED
  BY <1>2, <1>5 DEF RunRow, n

LEMMA RunStepsKeepShape ==
    ASSUME Shape, NEW w \in Workers, OpenRun(w) \/ Record(w) \/ Conclude(w)
    PROVE  Shape'
<1>0. /\ batch[w] # <<>> /\ Run(w) \in Events
      /\ \A v \in Workers : logs[v] # <<>>
      /\ UNCHANGED <<stream, delivered, batch>>
  BY DEF OpenRun, Record, Conclude, CloseRun, GoTo, HasEvent, AfterRecord, InHandle, queue, Shape, HandShape
<1>1. PICK l \in WorkerPc : pc' = [pc EXCEPT ![w] = l]
  BY DEF OpenRun, Record, Conclude, GoTo, AfterRecord, WorkerPc
<1>2. /\ logs' \in [Workers -> Seq(Seq(AuditLine))] /\ \A v \in Workers : logs'[v] # <<>>
      /\ seqs' \in [Workers -> [Events -> Nat]]
  <2>1. CASE Record(w)
    <3>1. pc[w] \in {"event", "transition", "action", "torn"}
      BY <2>1 DEF Record, AfterRecord
    <3>2. Line(w, pc[w]) \in AuditLine /\ seqs' \in [Workers -> [Events -> Nat]]
      BY <1>0, <2>1, <3>1, LineTyped DEF Record, Number
    <3> QED
      BY <2>1, <3>2, WriteTyped DEF Record
  <2>2. CASE OpenRun(w) \/ Conclude(w)
    BY <1>0, <2>2 DEF OpenRun, Conclude, CloseRun, recorder, Shape, TypeOK
  <2> QED
    BY <2>1, <2>2
<1>3. runs' \in [Events -> RunRow]
  <2>1. CASE OpenRun(w)
    BY <1>0, <2>1, RunRowsTyped, Zenon DEF OpenRun, Shape, TypeOK
  <2>2. CASE Record(w)
    BY <2>2 DEF Record, tables, Shape, TypeOK
  <2>3. CASE Conclude(w)
    BY <1>0, <2>3, RunRowsTyped, Zenon DEF Conclude, CloseRun
  <2> QED
    BY <2>1, <2>2, <2>3
<1>4. pc' \in [Workers -> WorkerPc] /\ HandShape'
  BY <1>0, <1>1, <1>2, HandMoves, Zenon
<1>5. UNCHANGED <<window, pel, tickets, ticket_actions, outcome, faults, crashes>>
  BY DEF OpenRun, Record, Conclude, CloseRun, tables, queue, bounds
<1> QED
  BY <1>0, <1>2, <1>3, <1>4, <1>5 DEF Shape, TypeOK

\* What the steps of `apply` write into `outcome` and the two ticket tables.
LEMMA ApplyRowsTyped ==
    ASSUME Shape, NEW w \in Workers, Run(w) \in Events
    PROVE  /\ NoOutcome \in Outcome
           /\ [ticket |-> ticket_actions[Run(w)].ticket,
               created |-> ticket_actions[Run(w)].created,
               update_count |-> ticket_actions[Run(w)].update_count,
               replayed |-> TRUE] \in Outcome
           /\ \A t \in TicketIds :
                 /\ [ticket |-> t, created |-> TRUE, update_count |-> 0, replayed |-> FALSE] \in Outcome
                 /\ [ticket |-> t, created |-> FALSE,
                     update_count |-> tickets[t].update_count + 1, replayed |-> FALSE] \in Outcome
           /\ [status |-> "open", fp |-> FpOf[Run(w)], update_count |-> 0] \in TicketRow
           /\ [ticket |-> outcome[w].ticket, created |-> outcome[w].created,
               update_count |-> outcome[w].update_count] \in ActionRow
           /\ \A t \in TicketIds :
                 [tickets[t] EXCEPT !.update_count = outcome[w].update_count] \in TicketRow
<1>1. ticket_actions[Run(w)] \in ActionRow /\ outcome[w] \in Outcome /\ FpOf[Run(w)] \in Fingerprints
  BY WorkerAssumption DEF Shape, TypeOK
<1>2. \A t \in TicketIds : tickets[t] \in TicketRow
  BY DEF Shape, TypeOK
<1>3. \A t \in TicketIds : tickets[t].update_count + 1 \in Nat
  BY <1>2 DEF TicketRow
<1>4. outcome[w].update_count \in Nat
  BY <1>1 DEF Outcome
<1>5. ASSUME NEW t \in TicketIds
      PROVE  [tickets[t] EXCEPT !.update_count = outcome[w].update_count] \in TicketRow
  BY <1>2, <1>4 DEF TicketRow
<1>6. [ticket |-> outcome[w].ticket, created |-> outcome[w].created,
       update_count |-> outcome[w].update_count] \in ActionRow
  BY <1>1 DEF Outcome, ActionRow
<1>7. [ticket |-> ticket_actions[Run(w)].ticket, created |-> ticket_actions[Run(w)].created,
       update_count |-> ticket_actions[Run(w)].update_count, replayed |-> TRUE] \in Outcome
  BY <1>1 DEF Outcome, ActionRow
<1> QED
  BY <1>1, <1>3, <1>5, <1>6, <1>7 DEF NoOutcome, Outcome, TicketRow

LEMMA ApplyKeepsShape ==
    ASSUME Shape, NEW w \in Workers, Apply(w), ~UpdateMisses(w),
           pc[w] = "ledger" => outcome[w].ticket \in TicketIds
    PROVE  Shape'
<1>0. /\ batch[w] # <<>> /\ Run(w) \in Events
      /\ \A v \in Workers : logs'[v] # <<>>
      /\ UNCHANGED <<window, stream, delivered, pel, batch, runs, logs, seqs, faults, crashes>>
  BY DEF Apply, Replay, LockRun, InsertTicket, Conflict, UpdateTicket, Commit, GoTo, InHandle,
         queue, tables, recorder, bounds, Shape, HandShape
<1>1. PICK l \in WorkerPc : pc' = [pc EXCEPT ![w] = l]
  BY DEF Apply, Replay, LockRun, InsertTicket, Conflict, UpdateTicket, Commit, GoTo, WorkerPc
<1>2. pc' \in [Workers -> WorkerPc] /\ HandShape'
  BY <1>0, <1>1, HandMoves, Zenon
<1>3. outcome' \in [Workers -> Outcome]
  <2>1. PICK o \in Outcome : outcome' = [outcome EXCEPT ![w] = o]
    <3>1. CASE LockRun(w) \/ Conflict(w) \/ Commit(w)
      <4>1. outcome' = [outcome EXCEPT ![w] = outcome[w]] /\ outcome[w] \in Outcome
        BY <3>1 DEF LockRun, Conflict, Commit, Shape, TypeOK
      <4> QED
        BY <4>1, Zenon
    <3>2. CASE Replay(w)
      BY <1>0, <3>2, ApplyRowsTyped, Zenon DEF Replay
    <3>3. CASE InsertTicket(w)
      BY <1>0, <3>3, ApplyRowsTyped, Zenon DEF InsertTicket
    <3>4. CASE UpdateTicket(w)
      BY <1>0, <3>4, ApplyRowsTyped, Zenon DEF UpdateTicket, OpenTickets
    <3> QED
      BY <3>1, <3>2, <3>3, <3>4 DEF Apply
  <2> QED
    BY <2>1 DEF Shape, TypeOK
<1>4. tickets' \in [TicketIds -> TicketRow] /\ ticket_actions' \in [Events -> ActionRow]
  <2>1. CASE Commit(w)
    <3>1. outcome[w].ticket \in TicketIds
      BY <2>1 DEF Commit, GoTo
    <3> QED
      BY <1>0, <2>1, <3>1, ApplyRowsTyped, Zenon DEF Commit, Shape, TypeOK
  <2>2. CASE ~Commit(w)
    BY <2>2, Zenon DEF Apply, Replay, LockRun, InsertTicket, Conflict, UpdateTicket, tables, Shape, TypeOK
  <2> QED
    BY <2>1, <2>2
<1> QED
  BY <1>0, <1>2, <1>3, <1>4 DEF Shape, TypeOK

-----------------------------------------------------------------------------
(* What an uncommitted `apply` relies on: the row it locked or inserted is     *)
(* still as it found it, its run has not acted, and nobody else has either.    *)

Claims(w) ==
    /\ InApply(w) => ticket_actions[Run(w)] = NoAction
    /\ pc[w] = "ledger" =>
          LET o == outcome[w]
          IN  /\ o.ticket \in TicketIds
              /\ o.created => tickets[o.ticket].status = "absent" /\ o.update_count = 0
              /\ ~o.created => /\ tickets[o.ticket].status = "open"
                               /\ tickets[o.ticket].fp = FpOf[Run(w)]
                               /\ o.update_count = tickets[o.ticket].update_count + 1

Apart(v, w) ==
    /\ InApply(v) /\ InApply(w) => Run(v) # Run(w)
    /\ pc[v] = "ledger" /\ pc[w] = "ledger" => outcome[v].ticket # outcome[w].ticket

LedgerInv ==
    /\ \A w \in Workers : Claims(w)
    /\ \A v, w \in Workers : v # w => Apart(v, w)

\* The inductive invariant for OneOpenTicket.
TicketInv == Shape /\ LedgerInv /\ OneOpenTicket

\* The worker's part in `apply` is the same after the step.
ViewKept(v) ==
    /\ pc'[v] = pc[v] /\ outcome'[v] = outcome[v]
    /\ InApply(v) => Run(v)' = Run(v)

LEMMA FailedHandleKeepsShape ==
    ASSUME Shape, NEW w \in Workers,
           UpdateMisses(w) \/ CloseRefused(w) \/ HandleFails(w) \/ CloseReplyLost(w) \/ RecordFails(w)
    PROVE  Shape'
<1>1. batch[w] # <<>> /\ GiveUp(w) /\ (pc[w] # "idle" => Run(w) \in Events)
  BY Zenon DEF UpdateMisses, CloseRefused, HandleFails, CloseReplyLost, RecordFails, HasEvent, InApply, AfterRecord,
         InHandle, Shape, HandShape
<1>2. UNCHANGED <<window, queue, tickets, ticket_actions>>
  BY DEF UpdateMisses, CloseRefused, HandleFails, CloseReplyLost, RecordFails, CloseRun, tables
<1>3. faults' \in Nat /\ crashes' \in Nat
  BY DEF UpdateMisses, CloseRefused, HandleFails, CloseReplyLost, RecordFails, Fault, bounds, Shape, TypeOK
<1>4. runs' \in [Events -> RunRow]
  <2>1. CASE CloseReplyLost(w)
    BY <1>1, <2>1, RunRowsTyped, Zenon DEF CloseReplyLost, CloseRun
  <2>2. CASE ~CloseReplyLost(w)
    BY <2>2 DEF UpdateMisses, CloseRefused, HandleFails, RecordFails, tables, Shape, TypeOK
  <2> QED
    BY <2>1, <2>2
<1>5. /\ logs' \in [Workers -> Seq(Seq(AuditLine))] /\ \A v \in Workers : logs'[v] # <<>>
      /\ seqs' \in [Workers -> [Events -> Nat]]
  <2>0. logs \in [Workers -> Seq(Seq(AuditLine))] /\ \A v \in Workers : logs[v] # <<>>
    BY DEF Shape, TypeOK, HandShape
  <2>1. CASE RecordFails(w)
    <3>1. pc[w] \in {"event", "transition", "action", "torn"} /\ pc[w] # "idle"
      BY <2>1 DEF RecordFails, AfterRecord
    <3>2. seqs' \in [Workers -> [Events -> Nat]]
      BY <1>1, <2>1, <3>1, LineTyped DEF RecordFails, Number
    <3>3. CASE UNCHANGED logs
      BY <2>0, <3>2, <3>3
    <3>4. ASSUME NEW kind \in {"torn", pc[w]}, Write(w, Line(w, kind))
          PROVE  logs' \in [Workers -> Seq(Seq(AuditLine))] /\ \A v \in Workers : logs'[v] # <<>>
      <4>1. Line(w, kind) \in AuditLine
        BY <1>1, <3>1, LineTyped
      <4> QED
        BY <3>4, <4>1, WriteTyped
    <3> QED
      BY <2>1, <3>2, <3>3, <3>4 DEF RecordFails
  <2>2. CASE ~RecordFails(w)
    BY <2>0, <2>2 DEF UpdateMisses, CloseRefused, HandleFails, CloseReplyLost, CloseRun, recorder, Shape, TypeOK
  <2> QED
    BY <2>1, <2>2
<1> QED
  BY <1>1, <1>2, <1>3, <1>4, <1>5, GiveUpKeepsShape, Zenon

LEMMA ShapeKept ==
    ASSUME Shape, LedgerInv, [Next]_vars PROVE Shape'
<1>1. ASSUME NEW w \in Workers, Work(w) \/ Failure(w) \/ Crash(w) \/ Restart(w) PROVE Shape'
  <2>1. pc[w] = "ledger" => outcome[w].ticket \in TicketIds
    BY DEF LedgerInv, Claims
  <2>2. CASE Apply(w)
    BY <2>1, <2>2, ApplyKeepsShape, FailedHandleKeepsShape
  <2>3. CASE ~Apply(w)
    BY <1>1, <2>3, QueueStepsKeepShape, RunStepsKeepShape, FailedHandleKeepsShape DEF Work, Failure
  <2> QED
    BY <2>2, <2>3
<1>2. CASE UNCHANGED vars
  BY <1>2 DEF vars, queue, tables, recorder, bounds, Shape, TypeOK, HandShape, Run
<1> QED
  BY <1>1, <1>2, EnvironmentKeepsShape DEF Next, Asleep

-----------------------------------------------------------------------------
(* One open ticket for each fingerprint *)

LEMMA OthersSame ==
    ASSUME Shape, NEW w \in Workers, Work(w) \/ Failure(w) \/ Crash(w) \/ Restart(w)
    PROVE  /\ stream' = stream
           /\ \A v \in Workers \ {w} : pc'[v] = pc[v] /\ outcome'[v] = outcome[v] /\ batch'[v] = batch[v]
<1>1. stream' = stream
  BY Zenon DEF Work, Failure, Apply, EnsureGroup, Read, SkipPoison, Acknowledge, OpenRun, Record, Conclude,
         CloseRun, Replay, LockRun, InsertTicket, Conflict, UpdateTicket, UpdateMisses, CloseRefused, Commit,
         EnsureGroupFails, ReadLost, AckFails, HandleFails, CloseReplyLost, RecordFails, Crash, Restart,
         Deliver, queue
<1>2. \A v \in Workers \ {w} : pc'[v] = pc[v] /\ outcome'[v] = outcome[v] /\ batch'[v] = batch[v]
  BY Zenon DEF Work, Failure, Apply, EnsureGroup, Read, SkipPoison, Acknowledge, OpenRun, Record, Conclude,
         CloseRun, Replay, LockRun, InsertTicket, Conflict, UpdateTicket, UpdateMisses, CloseRefused, Commit,
         EnsureGroupFails, ReadLost, AckFails, HandleFails, CloseReplyLost, RecordFails, Crash, Restart,
         GoTo, GiveUp, Shape, TypeOK
<1> QED
  BY <1>1, <1>2

LEMMA OthersView ==
    ASSUME Shape, NEW w \in Workers, Work(w) \/ Failure(w) \/ Crash(w) \/ Restart(w)
    PROVE  \A v \in Workers \ {w} : ViewKept(v)
BY OthersSame DEF ViewKept, Run

\* Steps that leave the tables alone and after which the workers that moved are
\* outside `apply`.
LEMMA QuietKeeps ==
    ASSUME TicketInv, UNCHANGED <<tickets, ticket_actions>>,
           \A v \in Workers : ViewKept(v) \/ ~InApply(v)'
    PROVE  LedgerInv' /\ OneOpenTicket'
<1>1. \A v \in Workers : InApply(v)' => InApply(v) /\ ViewKept(v)
  BY DEF InApply, ViewKept
<1>2. \A v \in Workers : pc'[v] = "ledger" => pc[v] = "ledger" /\ InApply(v)'
  BY <1>1 DEF InApply, ViewKept
<1>3. \A w \in Workers : Claims(w)'
  BY <1>1, <1>2 DEF TicketInv, LedgerInv, Claims, ViewKept
<1>4. \A v, w \in Workers : v # w => Apart(v, w)'
  BY <1>1, <1>2 DEF TicketInv, LedgerInv, Apart, ViewKept
<1>5. \A v \in Workers, fp \in Fingerprints : Opening(v, fp)' => Opening(v, fp)
  BY <1>1, <1>2 DEF Opening, ViewKept
<1>6. \A fp \in Fingerprints : OpenTickets(fp)' = OpenTickets(fp)
  BY DEF OpenTickets
<1>7. OneOpenTicket'
  BY <1>5, <1>6 DEF TicketInv, OneOpenTicket
<1> QED
  BY <1>3, <1>4, <1>7 DEF LedgerInv

\* A statement of `apply` writes nothing that others can see.
LEMMA StatementKeeps ==
    ASSUME TicketInv, NEW w \in Workers,
           LockRun(w) \/ Conflict(w) \/ InsertTicket(w) \/ UpdateTicket(w)
    PROVE  LedgerInv' /\ OneOpenTicket'
<1>0. /\ UNCHANGED <<tickets, ticket_actions>> /\ Run(w)' = Run(w) /\ Run(w) \in Events
      /\ pc[w] \in {"apply", "insert", "update"} /\ pc'[w] \in {"insert", "update", "ledger"}
  BY DEF LockRun, Conflict, InsertTicket, UpdateTicket, GoTo, tables, queue, Run,
         TicketInv, Shape, TypeOK, HandShape, InHandle
<1>1. \A v \in Workers \ {w} : ViewKept(v)
  BY OthersView DEF Work, Apply, TicketInv
<1>2. \A v \in Workers \ {w} :
        /\ InApply(v)' = InApply(v) /\ (InApply(v) => Run(v)' = Run(v))
        /\ pc'[v] = pc[v] /\ outcome'[v] = outcome[v]
  BY <1>1 DEF ViewKept, InApply
<1>3. /\ ticket_actions[Run(w)] = NoAction
      /\ \A v \in Workers \ {w} : InApply(v) => Run(v) # Run(w)
  <2>1. CASE LockRun(w)
    BY <2>1 DEF LockRun, RunFree
  <2>2. CASE ~LockRun(w)
    <3>1. InApply(w)
      BY <2>2 DEF Conflict, InsertTicket, UpdateTicket, GoTo, InApply
    <3> QED
      BY <3>1 DEF TicketInv, LedgerInv, Claims, Apart
  <2> QED
    BY <2>1, <2>2
<1>4. ASSUME pc'[w] = "ledger"
      PROVE  /\ outcome'[w].ticket \in TicketIds /\ TicketFree(outcome'[w].ticket)
             /\ outcome'[w].created =>
                   /\ tickets[outcome'[w].ticket].status = "absent" /\ outcome'[w].update_count = 0
                   /\ OpenTickets(FpOf[Run(w)]) = {} /\ IndexFree(FpOf[Run(w)])
             /\ ~outcome'[w].created =>
                   /\ tickets[outcome'[w].ticket].status = "open"
                   /\ tickets[outcome'[w].ticket].fp = FpOf[Run(w)]
                   /\ outcome'[w].update_count = tickets[outcome'[w].ticket].update_count + 1
  <2>1. CASE InsertTicket(w)
    BY <2>1 DEF InsertTicket, TicketInv, Shape, TypeOK
  <2>2. CASE UpdateTicket(w)
    BY <2>2 DEF UpdateTicket, OpenTickets, TicketInv, Shape, TypeOK
  <2>3. CASE LockRun(w) \/ Conflict(w)
    BY <1>4, <2>3 DEF LockRun, Conflict, GoTo, TicketInv, Shape, TypeOK
  <2> QED
    BY <2>1, <2>2, <2>3
<1>5. Claims(w)'
  BY <1>0, <1>3, <1>4 DEF Claims
<1>6. ASSUME NEW v \in Workers \ {w} PROVE Claims(v)' /\ Apart(v, w)' /\ Apart(w, v)'
  <2>1. Claims(v)'
    <3>1. pc[v] = "ledger" => InApply(v)
      BY DEF InApply
    <3> QED
      BY <1>0, <1>2, <3>1 DEF Claims, TicketInv, LedgerInv
  <2>2. InApply(v)' => Run(v)' # Run(w)'
    BY <1>0, <1>2, <1>3
  <2>3. pc'[v] = "ledger" /\ pc'[w] = "ledger" => outcome'[v].ticket # outcome'[w].ticket
    BY <1>2, <1>4 DEF TicketFree
  <2> QED
    BY <2>1, <2>2, <2>3 DEF Apart
<1>7. \A v, u \in Workers \ {w} : v # u => Apart(v, u)'
  BY <1>2 DEF Apart, TicketInv, LedgerInv
<1>8. OneOpenTicket'
  <2> SUFFICES ASSUME NEW fp \in Fingerprints
               PROVE  /\ \A t, u \in OpenTickets(fp)' : t = u
                      /\ \A u, v \in Workers : Opening(u, fp)' /\ Opening(v, fp)' => u = v
                      /\ \A v \in Workers : Opening(v, fp)' => OpenTickets(fp)' = {}
    BY Zenon DEF OneOpenTicket
  <2>1. OpenTickets(fp)' = OpenTickets(fp)
    BY <1>0 DEF OpenTickets
  <2>2. \A v \in Workers \ {w} : Opening(v, fp)' => Opening(v, fp)
    BY <1>2 DEF Opening, InApply
  <2>3. Opening(w, fp)' => OpenTickets(fp) = {} /\ \A v \in Workers : ~Opening(v, fp)
    BY <1>0, <1>4 DEF Opening, IndexFree
  <2> QED
    BY <2>1, <2>2, <2>3 DEF TicketInv, OneOpenTicket
<1> QED
  BY <1>5, <1>6, <1>7 , <1>8 DEF LedgerInv

LEMMA CommitKeeps ==
    ASSUME TicketInv, NEW w \in Workers, Commit(w)
    PROVE  LedgerInv' /\ OneOpenTicket'
<1> DEFINE t == outcome[w].ticket
<1>0. /\ pc[w] = "ledger" /\ pc'[w] = "action" /\ t \in TicketIds /\ Run(w) \in Events
      /\ InApply(w) /\ Claims(w)
  BY DEF Commit, GoTo, TicketInv, LedgerInv, Claims, Shape, TypeOK, HandShape, InHandle, InApply
<1>1. \A v \in Workers \ {w} :
        /\ InApply(v)' = InApply(v) /\ (InApply(v) => Run(v)' = Run(v))
        /\ pc'[v] = pc[v] /\ outcome'[v] = outcome[v]
  BY OthersView DEF Work, Apply, TicketInv, ViewKept, InApply
<1>2. /\ \A u \in TicketIds \ {t} : tickets'[u] = tickets[u]
      /\ \A e \in Events \ {Run(w)} : ticket_actions'[e] = ticket_actions[e]
  BY DEF Commit, TicketInv, Shape, TypeOK
<1>3. tickets'[t].status = "open" /\ tickets'[t].fp = FpOf[Run(w)]
  <2>1. tickets[t] \in TicketRow
    BY <1>0 DEF TicketInv, Shape, TypeOK
  <2>2. CASE outcome[w].created
    BY <1>0, <2>2 DEF Commit, TicketInv, Shape, TypeOK
  <2>3. CASE ~outcome[w].created
    <3>1. tickets'[t] = [tickets[t] EXCEPT !.update_count = outcome[w].update_count]
      BY <1>0, <2>3, Zenon DEF Commit, TicketInv, Shape, TypeOK
    <3> QED
      BY <1>0, <2>1, <2>3, <3>1 DEF Claims, TicketRow
  <2> QED
    BY <2>2, <2>3
<1> HIDE DEF t
<1>4. ASSUME NEW v \in Workers PROVE Claims(v)'
  <2>1. CASE v = w
    BY <1>0, <2>1 DEF Claims, InApply
  <2>2. CASE v # w /\ InApply(v)
    <3>1. Run(v)' = Run(v) /\ Run(v) # Run(w) /\ Run(v) \in Events
      BY <1>0, <1>1, <2>2 DEF TicketInv, LedgerInv, Apart, Shape, HandShape, InApply, InHandle
    <3>2. pc[v] = "ledger" => outcome[v].ticket \in TicketIds \ {t}
      BY <1>0, <2>2 DEF TicketInv, LedgerInv, Apart, Claims, t
    <3> QED
      BY <1>1, <1>2, <2>2, <3>1, <3>2 DEF TicketInv, LedgerInv, Claims
  <2>3. CASE v # w /\ ~InApply(v)
    BY <1>1, <2>3 DEF Claims, InApply
  <2> QED
    BY <2>1, <2>2, <2>3
<1>5. \A v, u \in Workers : v # u => Apart(v, u)'
  <2>1. ~InApply(w)'
    BY <1>0 DEF InApply
  <2>2. pc'[w] # "ledger"
    BY <1>0
  <2> QED
    BY <1>1, <2>1, <2>2 DEF Apart, TicketInv, LedgerInv
<1>6. OneOpenTicket'
  <2> SUFFICES ASSUME NEW fp \in Fingerprints
               PROVE  /\ \A v, u \in OpenTickets(fp)' : v = u
                      /\ \A u, v \in Workers : Opening(u, fp)' /\ Opening(v, fp)' => u = v
                      /\ \A v \in Workers : Opening(v, fp)' => OpenTickets(fp)' = {}
    BY Zenon DEF OneOpenTicket
  <2>1. ~Opening(w, fp)' /\ \A v \in Workers \ {w} : Opening(v, fp)' => Opening(v, fp)
    BY <1>0, <1>1 DEF Opening, InApply
  <2>2. CASE fp # FpOf[Run(w)]
    <3>1. OpenTickets(fp)' \subseteq OpenTickets(fp)
      BY <1>2, <1>3, <2>2 DEF OpenTickets
    <3> QED
      BY <2>1, <3>1 DEF TicketInv, OneOpenTicket
  <2>3. CASE fp = FpOf[Run(w)] /\ outcome[w].created
    <3>1. Opening(w, fp) /\ OpenTickets(fp) = {}
      BY <1>0, <2>3 DEF Opening, TicketInv, OneOpenTicket
    <3>2. OpenTickets(fp)' \subseteq {t}
      BY <1>2, <3>1 DEF OpenTickets
    <3> QED
      BY <2>1, <3>1, <3>2 DEF TicketInv, OneOpenTicket
  <2>4. CASE fp = FpOf[Run(w)] /\ ~outcome[w].created
    <3>1. t \in OpenTickets(fp)
      BY <1>0, <2>4 DEF Claims, OpenTickets, t
    <3>2. OpenTickets(fp)' \subseteq OpenTickets(fp)
      BY <1>2, <3>1 DEF OpenTickets
    <3> QED
      BY <2>1, <3>1, <3>2 DEF TicketInv, OneOpenTicket
  <2> QED
    BY <2>2, <2>3, <2>4
<1> QED
  BY <1>4, <1>5, <1>6 DEF LedgerInv

LEMMA RecoverKeeps ==
    ASSUME TicketInv, NEW fp \in Fingerprints, Recover(fp)
    PROVE  LedgerInv' /\ OneOpenTicket'
<1>0. /\ UNCHANGED <<pc, outcome, ticket_actions>> /\ \A v \in Workers : Run(v)' = Run(v)
      /\ \A t \in OpenTickets(fp) : TicketFree(t)
  BY DEF Recover, Source!Recover, queue, Run
<1>1. \A v \in Workers : InApply(v)' = InApply(v) /\ \A f \in Fingerprints : Opening(v, f)' = Opening(v, f)
  BY <1>0 DEF InApply, Opening
<1>2. \A t \in TicketIds \ OpenTickets(fp) : tickets'[t] = tickets[t]
  BY DEF Recover
<1>3. \A t \in OpenTickets(fp) : tickets'[t].status = "closed"
  <2> SUFFICES ASSUME NEW t \in OpenTickets(fp) PROVE tickets'[t].status = "closed"
    OBVIOUS
  <2>1. t \in TicketIds /\ tickets[t] \in TicketRow
    BY DEF OpenTickets, TicketInv, Shape, TypeOK
  <2>2. tickets'[t] = [tickets[t] EXCEPT !.status = "closed"]
    BY <2>1, ZenonT(30) DEF Recover
  <2> QED
    BY <2>1, <2>2 DEF TicketRow
<1>4. \A w \in Workers : Claims(w)'
  <2> SUFFICES ASSUME NEW w \in Workers PROVE Claims(w)'
    OBVIOUS
  <2>1. Claims(w)
    BY DEF TicketInv, LedgerInv
  <2>2. pc[w] = "ledger" => outcome[w].ticket \in TicketIds \ OpenTickets(fp)
    BY <1>0, <2>1 DEF Claims, TicketFree
  <2> QED
    BY <1>0, <1>1, <1>2, <2>1, <2>2 DEF Claims
<1>5. \A v, w \in Workers : v # w => Apart(v, w)'
  BY <1>0, <1>1 DEF Apart, TicketInv, LedgerInv
<1>6. \A f \in Fingerprints : OpenTickets(f)' \subseteq OpenTickets(f)
  BY <1>2, <1>3 DEF OpenTickets
<1>7. OneOpenTicket'
  BY <1>1, <1>6 DEF OneOpenTicket, TicketInv
<1> QED
  BY <1>4, <1>5, <1>7 DEF LedgerInv

\* The other steps of a worker, which leave the two ticket tables alone.
QuietStep(w) ==
    \/ EnsureGroup(w) \/ Read(w) \/ SkipPoison(w) \/ Acknowledge(w) \/ OpenRun(w)
    \/ Record(w) \/ Conclude(w) \/ Replay(w) \/ UpdateMisses(w) \/ CloseRefused(w)
    \/ Failure(w) \/ Crash(w) \/ Restart(w)

LEMMA QuietStepKeeps ==
    ASSUME TicketInv, NEW w \in Workers, QuietStep(w)
    PROVE  LedgerInv' /\ OneOpenTicket'
<1>1. UNCHANGED <<tickets, ticket_actions>>
  BY ZenonT(30) DEF QuietStep, Failure, EnsureGroup, Read, SkipPoison, Acknowledge, OpenRun, Record, Conclude,
         CloseRun, Replay, UpdateMisses, CloseRefused, EnsureGroupFails, ReadLost, AckFails, HandleFails,
         CloseReplyLost, RecordFails, Crash, Restart, tables
<1>2. pc'[w] \notin {"insert", "update", "ledger"}
  <2>0. pc \in [Workers -> WorkerPc]
    BY DEF TicketInv, Shape, TypeOK
  <2>1. \/ pc' = pc /\ pc[w] = "idle"
        \/ pc[w] \in DOMAIN AfterRecord /\ pc' = [pc EXCEPT ![w] = AfterRecord[pc[w]]]
        \/ \E to \in {"idle", "ack", "dead", "event", "action", "down", "start"} : pc' = [pc EXCEPT ![w] = to]
    <3>1. CASE EnsureGroup(w) \/ Read(w) \/ SkipPoison(w)
      BY <3>1 DEF EnsureGroup, Read, SkipPoison, GoTo
    <3>2. CASE Acknowledge(w) \/ OpenRun(w) \/ Record(w)
      BY <3>2 DEF Acknowledge, OpenRun, Record, GoTo
    <3>3. CASE Conclude(w) \/ Replay(w) \/ UpdateMisses(w) \/ CloseRefused(w)
      BY <3>3 DEF Conclude, Replay, UpdateMisses, CloseRefused, GoTo, GiveUp
    <3>4. CASE EnsureGroupFails(w) \/ ReadLost(w) \/ AckFails(w)
      BY <3>4 DEF EnsureGroupFails, ReadLost, AckFails, GoTo
    <3>5. CASE HandleFails(w) \/ CloseReplyLost(w) \/ RecordFails(w)
      BY <3>5, Zenon DEF HandleFails, CloseReplyLost, RecordFails, GiveUp
    <3>6. CASE Crash(w) \/ Restart(w)
      BY <3>6 DEF Crash, Restart, GoTo
    <3> QED
      BY <3>1, <3>2, <3>3, <3>4, <3>5, <3>6 DEF QuietStep, Failure
  <2> QED
    BY <2>0, <2>1 DEF AfterRecord
<1>3. Work(w) \/ Failure(w) \/ Crash(w) \/ Restart(w)
  BY DEF QuietStep, Work, Apply
<1>4. \A v \in Workers : ViewKept(v) \/ ~InApply(v)'
  BY <1>2, <1>3, OthersView DEF InApply, TicketInv
<1> QED
  BY <1>1, <1>4, QuietKeeps, ZenonT(30)

LEMMA InitTicketInv == Init => TicketInv
<1> SUFFICES ASSUME Init PROVE TicketInv
  OBVIOUS
<1>1. \A w \in Workers : ~InApply(w) /\ pc[w] # "ledger" /\ \A fp \in Fingerprints : ~Opening(w, fp)
  BY DEF Init, InApply, Opening
<1>2. \A fp \in Fingerprints : OpenTickets(fp) = {}
  BY DEF Init, OpenTickets, NoSuchTicket
<1> QED
  BY <1>1, <1>2, InitShape DEF TicketInv, LedgerInv, Claims, Apart, OneOpenTicket

LEMMA TicketInvKept == TicketInv /\ [Next]_vars => TicketInv'
<1> SUFFICES ASSUME TicketInv, [Next]_vars PROVE TicketInv'
  OBVIOUS
<1>1. Shape'
  BY ShapeKept DEF TicketInv
<1>2. ASSUME NEW e \in Events, Admit(e) PROVE LedgerInv' /\ OneOpenTicket'
  <2>1. UNCHANGED <<tickets, ticket_actions>> /\ \A v \in Workers : ViewKept(v)
    BY <1>2 DEF Admit, Source!Admit, tables, queue, ViewKept, Run
  <2> QED
    BY <2>1, QuietKeeps
<1>3. ASSUME NEW m \in Events \cup {Poison}, Enqueue(m) PROVE LedgerInv' /\ OneOpenTicket'
  <2>1. StreamGrows
    BY <1>3 DEF Enqueue, Source!Enqueue, StreamGrows, TicketInv, Shape, TypeOK
  <2>2. UNCHANGED <<tickets, ticket_actions, pc, outcome, batch>>
    BY <1>3 DEF Enqueue, Source!Enqueue, tables
  <2>3. \A v \in Workers : InApply(v) => Run(v)' = Run(v)
    BY <2>1, <2>2, RunKept DEF TicketInv, Shape, HandShape, InApply, InHandle
  <2> QED
    BY <2>2, <2>3, QuietKeeps DEF ViewKept
<1>4. ASSUME NEW w \in Workers, Work(w) \/ Failure(w) \/ Crash(w) \/ Restart(w)
      PROVE  LedgerInv' /\ OneOpenTicket'
  BY <1>4, QuietStepKeeps, StatementKeeps, CommitKeeps DEF Work, Apply, QuietStep
<1>5. CASE UNCHANGED vars
  <2>1. UNCHANGED <<tickets, ticket_actions>> /\ \A v \in Workers : ViewKept(v)
    BY <1>5 DEF vars, tables, queue, ViewKept, Run
  <2> QED
    BY <1>1, <2>1, QuietKeeps DEF TicketInv
<1> QED
  BY <1>1, <1>2, <1>3, <1>4, <1>5, RecoverKeeps DEF Next, Asleep, TicketInv

\* The tables, the queue, the audit files and the workers keep their types, for
\* any number of workers and events (every step of worker.py, lifecycle.py,
\* recorder.py and actions/service.py).
THEOREM WorkerTypeCorrect == Spec => []TypeOK
<1>1. TicketInv => TypeOK
  BY DEF TicketInv, Shape
<1> QED
  BY <1>1, InitTicketInv, TicketInvKept, PTL DEF Spec

\* No fingerprint ever has two open tickets, committed or not, however many
\* workers race through the INSERT and the UPDATE of service.apply and however
\* recoveries and failures fall between them.
THEOREM NoDoubleTicket == Spec => []OneOpenTicket
<1>1. TicketInv => OneOpenTicket
  BY DEF TicketInv
<1> QED
  BY <1>1, InitTicketInv, TicketInvKept, PTL DEF Spec
=============================================================================
