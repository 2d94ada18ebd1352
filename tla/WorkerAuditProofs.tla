------------------------- MODULE WorkerAuditProofs --------------------------
(***************************************************************************)
(* One worker at a time: a concluded run is final, and the range of the    *)
(* audit file that it names holds exactly the attempt that concluded it.   *)
(* For any number of workers: what GET /runs answers is so in the tables,  *)
(* and stays so.                                                           *)
(***************************************************************************)
EXTENDS WorkerLedgerProofs, SequenceTheorems, Lookup

\* A leaf that names no prover is tried with Zenon, then with SMT.
USE ZenonT(5), SMTT(20)

\* There is never more than one worker.
Solo == \A v, w \in Workers : v = w

Kinds == <<"event", "transition", "action">>

\* How many lines of its attempt a worker has recorded.
Written(where) ==
    CASE where = "event" -> 0
      [] where = "transition" -> 1
      [] where = "close" -> 3
      [] OTHER -> 2

\* A worker in `handle` is alone at its run: the row points at this attempt, which
\* is the end of the worker's newest file.
Attempt(w) ==
    pc[w] \in InHandle =>
        LET run == runs[Run(w)]
            n == Written(pc[w])
        IN  /\ run.status = "running" /\ run.file = File(w)
            /\ Len(Log(w)) = run.start + n
            /\ \A i \in 1 .. n :
                  LET line == Log(w)[run.start + i]
                  IN  /\ line.run = Run(w) /\ line.kind = Kinds[i]
                      /\ line.seq + n = seqs[w][Run(w)] + i
            /\ pc[w] = "action" => outcome[w].ticket = ticket_actions[Run(w)].ticket
            /\ pc[w] = "close" => Log(w)[run.start + 3].ticket = ticket_actions[Run(w)].ticket

\* ConcludedIsAudited, line by line, and with the range inside its file.
Audited(e) ==
    runs[e].status = "concluded" =>
        LET run == runs[e]
            file == logs[run.file[1]][run.file[2]]
        IN  /\ run.file \in Workers \X Nat
            /\ run.file[2] \in 1 .. Len(logs[run.file[1]])
            /\ run.end = run.start + 3 /\ run.end <= Len(file)
            /\ \A i \in 1 .. 3 :
                  /\ file[run.start + i].run = e /\ file[run.start + i].kind = Kinds[i]
                  /\ file[run.start + i].seq + 1 = file[run.start + 1].seq + i
            /\ file[run.start + 3].ticket = ticket_actions[e].ticket

AuditInv ==
    /\ WorkerInv
    /\ \A w \in Workers : Attempt(w)
    /\ \A e \in Events : Audited(e)

-----------------------------------------------------------------------------
(* Files only grow *)

FileGrows(old, new) ==
    /\ Len(old) <= Len(new)
    /\ \A i \in 1 .. Len(old) : new[i] = old[i]

LogsGrow ==
    \A v \in Workers : \A k \in 1 .. Len(logs[v]) :
        k \in 1 .. Len(logs'[v]) /\ FileGrows(logs[v][k], logs'[v][k])

\* The three lines of an attempt are as they were in a file that has grown.
LEMMA RangeKept ==
    ASSUME NEW old, NEW new, NEW start \in Nat, FileGrows(old, new),
           Len(old) \in Nat, Len(new) \in Nat, start + 3 <= Len(old)
    PROVE  /\ start + 3 <= Len(new)
           /\ \A i \in 1 .. 3 : new[start + i] = old[start + i]
<1>1. \A i \in 1 .. 3 : start + i \in 1 .. Len(old)
  BY SMT
<1> QED
  BY <1>1, SMT DEF FileGrows

\* A line goes to the end of the newest file.
LEMMA WriteGrows ==
    ASSUME Shape, NEW w \in Workers, NEW line \in AuditLine, Write(w, line)
    PROVE  /\ LogsGrow
           /\ File(w)' = File(w)
           /\ Len(Log(w)) \in Nat /\ Len(Log(w)') = Len(Log(w)) + 1
           /\ \A i \in 1 .. Len(Log(w)) : Log(w)'[i] = Log(w)[i]
           /\ Log(w)'[Len(Log(w)) + 1] = line
<1> DEFINE n == Len(logs[w])
           old == logs[w][n]
           new == Append(old, line)
<1>1. logs[w] \in Seq(Seq(AuditLine)) /\ logs[w] # <<>> /\ logs \in [Workers -> Seq(Seq(AuditLine))]
  BY DEF Shape, TypeOK, HandShape
<1>2. n \in 1 .. Len(logs[w]) /\ old \in Seq(AuditLine)
  BY <1>1
<1>3. /\ Len(old) \in Nat /\ new \in Seq(AuditLine) /\ Len(new) = Len(old) + 1
      /\ \A i \in 1 .. Len(old) : new[i] = old[i]
      /\ new[Len(old) + 1] = line
  BY <1>2
<1> HIDE DEF new
<1>4. logs'[w] = [logs[w] EXCEPT ![n] = new] /\ \A v \in Workers \ {w} : logs'[v] = logs[v]
  BY <1>1 DEF Write, new
<1>5. Len(logs'[w]) = n /\ logs'[w][n] = new /\ \A k \in 1 .. n : k # n => logs'[w][k] = logs[w][k]
  <2>1. [logs[w] EXCEPT ![n] = new] \in Seq(Seq(AuditLine)) /\ Len([logs[w] EXCEPT ![n] = new]) = n
    BY <1>1, <1>2, <1>3, ExceptSeq
  <2>2. DOMAIN logs[w] = 1 .. n
    BY <1>1
  <2>3. Len(logs'[w]) = n
    BY <1>4, <2>1
  <2>4. logs'[w][n] = new /\ \A k \in 1 .. n : k # n => logs'[w][k] = logs[w][k]
    BY <1>2, <1>4, <2>2, Zenon
  <2> QED
    BY <2>3, <2>4
<1>6. LogsGrow
  <2>1. FileGrows(old, new)
    BY <1>3 DEF FileGrows
  <2>2. ASSUME NEW v \in Workers, NEW k \in 1 .. Len(logs[v])
        PROVE  FileGrows(logs[v][k], logs[v][k])
    BY <1>1, <2>2 DEF FileGrows
  <2>3. ASSUME NEW k \in 1 .. n
        PROVE  k \in 1 .. Len(logs'[w]) /\ FileGrows(logs[w][k], logs'[w][k])
    BY <1>5, <2>1, <2>2
  <2>4. ASSUME NEW v \in Workers \ {w}, NEW k \in 1 .. Len(logs[v])
        PROVE  k \in 1 .. Len(logs'[v]) /\ FileGrows(logs[v][k], logs'[v][k])
    BY <1>4, <2>2, <2>4, Zenon
  <2> QED
    BY <2>3, <2>4, Zenon DEF LogsGrow
<1> QED
  BY <1>3, <1>5, <1>6 DEF File, Log

LEMMA LogsAlwaysGrow ==
    ASSUME Shape, [Next]_vars PROVE LogsGrow
<1>0. logs \in [Workers -> Seq(Seq(AuditLine))]
  BY DEF Shape, TypeOK
<1>1. ASSUME NEW v \in Workers, NEW k \in 1 .. Len(logs[v])
      PROVE  FileGrows(logs[v][k], logs[v][k])
  BY <1>0 DEF FileGrows
<1>2. CASE UNCHANGED logs
  BY <1>2, <1>1, Zenon DEF LogsGrow
<1>3. ASSUME NEW w \in Workers, Record(w) \/ RecordFails(w), ~UNCHANGED logs PROVE LogsGrow
  <2>0. pc[w] \in {"event", "transition", "action"}
    BY <1>3 DEF Record, RecordFails, AfterRecord
  <2>1. PICK kind \in {"event", "transition", "action", "torn"} : Write(w, Line(w, kind))
    <3>1. \E kind \in {"torn", pc[w]} : Write(w, Line(w, kind))
      BY <1>3, Zenon DEF Record, RecordFails
    <3> QED
      BY <2>0, <3>1
  <2>2. Run(w) \in Events
    BY <2>0 DEF Shape, HandShape, InHandle
  <2>3. Line(w, kind) \in AuditLine
    BY <2>2, LineTyped
  <2> QED
    BY <2>1, <2>3, WriteGrows
<1>4. ASSUME NEW w \in Workers, Restart(w) PROVE LogsGrow
  <2>1. logs'[w] = Append(logs[w], <<>>) /\ \A v \in Workers \ {w} : logs'[v] = logs[v]
    BY <1>0, <1>4 DEF Restart
  <2>2. \A k \in 1 .. Len(logs[w]) : logs'[w][k] = logs[w][k] /\ k \in 1 .. Len(logs'[w])
    <3>1. logs[w] \in Seq(Seq(AuditLine))
      BY <1>0
    <3> QED
      BY <2>1, <3>1
  <2> QED
    BY <1>1, <2>1, <2>2, Zenon DEF LogsGrow
<1>5. UNCHANGED logs \/ \E w \in Workers : Record(w) \/ RecordFails(w) \/ Restart(w)
  BY ZenonT(30) DEF Next, Admit, Source!Admit, Enqueue, Source!Enqueue, Recover, Source!Recover,
    Asleep, vars, Work, Apply, Failure, EnsureGroup, Read, SkipPoison,
     Acknowledge, OpenRun, Conclude, CloseRun, Replay, LockRun, InsertTicket, Conflict, UpdateTicket,
     UpdateMisses, CloseRefused, Commit, EnsureGroupFails, ReadLost, AckFails, HandleFails, CloseReplyLost,
     Crash, recorder
<1> QED
  BY <1>2, <1>3, <1>4, <1>5

-----------------------------------------------------------------------------
(* What is audited stays audited *)

LEMMA LinesTyped ==
    ASSUME Shape, NEW w \in Workers, NEW i \in 1 .. Len(Log(w))
    PROVE  Log(w)[i].seq \in Nat
<1>1. logs[w] \in Seq(Seq(AuditLine)) /\ logs[w] # <<>>
  BY DEF Shape, TypeOK, HandShape
<1>2. Log(w) \in Seq(AuditLine)
  BY <1>1 DEF Log
<1>3. Log(w)[i] \in AuditLine
  BY <1>2
<1> QED
  BY <1>3 DEF AuditLine

LEMMA AuditedStays ==
    ASSUME Shape, Shape', LogsGrow, NEW e \in Events, Audited(e),
           runs'[e] = runs[e], ticket_actions'[e] = ticket_actions[e]
    PROVE  Audited(e)'
<1> SUFFICES ASSUME runs[e].status = "concluded" PROVE Audited(e)'
  BY DEF Audited
<1> DEFINE run == runs[e]
           old == logs[run.file[1]][run.file[2]]
           new == logs'[run.file[1]][run.file[2]]
<1>1. /\ run.file \in Workers \X Nat /\ run.file[2] \in 1 .. Len(logs[run.file[1]])
      /\ run.end = run.start + 3 /\ run.end <= Len(old)
      /\ \A i \in 1 .. 3 :
            /\ old[run.start + i].run = e /\ old[run.start + i].kind = Kinds[i]
            /\ old[run.start + i].seq + 1 = old[run.start + 1].seq + i
      /\ old[run.start + 3].ticket = ticket_actions[e].ticket
  BY DEF Audited
<1>2. run.start \in Nat
  BY DEF Shape, TypeOK, RunRow
<1>3. run.file[1] \in Workers /\ run.file[2] \in 1 .. Len(logs'[run.file[1]]) /\ FileGrows(old, new)
  BY <1>1 DEF LogsGrow
<1>4. Len(old) \in Nat /\ Len(new) \in Nat
  <2>1. logs[run.file[1]] \in Seq(Seq(AuditLine)) /\ logs'[run.file[1]] \in Seq(Seq(AuditLine))
    BY <1>3 DEF Shape, TypeOK
  <2> HIDE DEF run
  <2>2. old \in Seq(AuditLine) /\ new \in Seq(AuditLine)
    BY <1>1, <1>3, <2>1, ElementOfSeq, Zenon
  <2> HIDE DEF old, new
  <2> QED
    BY <2>2
<1>5. run.end <= Len(new) /\ \A i \in 1 .. 3 : new[run.start + i] = old[run.start + i]
  <2> HIDE DEF run, old, new
  <2>1. run.start + 3 <= Len(old) /\ FileGrows(old, new)
    BY <1>1, <1>3, Zenon
  <2>2. /\ run.start + 3 <= Len(new)
        /\ \A i \in 1 .. 3 : new[run.start + i] = old[run.start + i]
    BY <1>2, <1>4, <2>1, RangeKept, Zenon
  <2> QED
    BY <1>1, <2>2, Zenon
<1> HIDE DEF old
<1>6. /\ new[run.start + 3].ticket = ticket_actions[e].ticket
      /\ \A i \in 1 .. 3 :
            /\ new[run.start + i].run = e /\ new[run.start + i].kind = Kinds[i]
            /\ new[run.start + i].seq + 1 = new[run.start + 1].seq + i
  <2> HIDE DEF run, new
  <2>1. 1 \in 1 .. 3 /\ 3 \in 1 .. 3
    OBVIOUS
  <2> QED
    BY <1>1, <1>5, <2>1, Zenon
<1> QED
  BY <1>1, <1>3, <1>5, <1>6 DEF Audited

\* Another actor's step, or one of the worker's own that writes no line.
LEMMA AttemptStays ==
    ASSUME Shape, NEW w \in Workers, Attempt(w), pc[w] \in InHandle,
           Run(w)' = Run(w), UNCHANGED <<runs, logs, seqs>>,
           Written(pc[w])' = Written(pc[w]),
           pc'[w] = "action" => outcome'[w].ticket = ticket_actions'[Run(w)].ticket,
           pc'[w] = "close" => pc[w] = "close" /\ ticket_actions' = ticket_actions
    PROVE  Attempt(w)'
<1>1. File(w)' = File(w) /\ Log(w)' = Log(w)
  BY DEF File, Log
<1> QED
  BY <1>1 DEF Attempt

-----------------------------------------------------------------------------
(* The attempt *)

\* open_run points the row at the end of the newest file.
LEMMA AttemptOpens ==
    ASSUME Shape, NEW w \in Workers, OpenRun(w) PROVE Attempt(w)'
<1>0. Run(w)' = Run(w) /\ File(w)' = File(w) /\ Log(w)' = Log(w) /\ Run(w) \in Events
  BY DEF OpenRun, HasEvent, Run, File, Log, queue, recorder
<1>1. CASE runs[Run(w)].status = "concluded"
  <2>1. pc'[w] = "ack"
    BY <1>1 DEF OpenRun, Shape, TypeOK
  <2> QED
    BY <2>1 DEF Attempt, InHandle
<1>2. CASE runs[Run(w)].status # "concluded"
  <2>1. pc'[w] = "event"
    BY <1>2 DEF OpenRun, Shape, TypeOK
  <2>2. runs'[Run(w)] = [status |-> "running", file |-> File(w), start |-> Len(Log(w)), end |-> 0]
    BY <1>0, <1>2 DEF OpenRun, Shape, TypeOK
  <2>3. Len(Log(w)) \in Nat
    <3>1. logs[w] \in Seq(Seq(AuditLine)) /\ logs[w] # <<>>
      BY DEF Shape, TypeOK, HandShape
    <3>2. Log(w) \in Seq(AuditLine)
      BY <3>1 DEF Log
    <3> QED
      BY <3>2
  <2>4. Written(pc[w])' = 0
    BY <2>1 DEF Written
  <2> QED
    BY <1>0, <2>1, <2>2, <2>3, <2>4 DEF Attempt
<1> QED
  BY <1>1, <1>2

\* Recorder.append adds the next line of the attempt, with the next number.
LEMMA AttemptRecords ==
    ASSUME Shape, NEW w \in Workers, Attempt(w), Record(w) PROVE Attempt(w)'
<1> DEFINE e == Run(w)
           n == Written(pc[w])
           start == runs[e].start
           line == Line(w, pc[w])
           len == Len(Log(w))
<1>1. pc[w] \in {"event", "transition", "action"} /\ pc[w] \in InHandle /\ e \in Events
  BY DEF Record, AfterRecord, Shape, HandShape, InHandle
<1>2. e' = e /\ UNCHANGED <<runs, outcome, ticket_actions>>
  BY DEF Record, Run, queue, tables
<1>3. /\ pc'[w] = CASE pc[w] = "event" -> "transition"
                    [] pc[w] = "transition" -> "apply"
                    [] pc[w] = "action" -> "close"
  BY <1>1 DEF Record, AfterRecord, Shape, TypeOK
<1>4. n \in 0 .. 2 /\ n' = n + 1 /\ Kinds[n + 1] = pc[w] /\ (pc'[w] = "close" => n = 2)
  BY <1>1, <1>3 DEF Written, Kinds
<1>5. seqs[w][e] \in Nat /\ seqs'[w][e] = seqs[w][e] + 1
  BY <1>1 DEF Record, Number, Shape, TypeOK
<1>6. line.run = e /\ line.kind = pc[w] /\ line.seq = seqs[w][e] + 1 /\ line.ticket = outcome[w].ticket
  BY DEF Line
<1>7. /\ File(w)' = File(w) /\ len \in Nat /\ Len(Log(w)') = len + 1
      /\ \A i \in 1 .. len : Log(w)'[i] = Log(w)[i]
      /\ Log(w)'[len + 1] = line
  <2>1. line \in AuditLine
    BY <1>1, LineTyped
  <2>2. Write(w, line)
    BY DEF Record
  <2> HIDE DEF line
  <2> QED
    BY <2>1, <2>2, WriteGrows
<1>8. /\ runs[e].status = "running" /\ runs[e].file = File(w) /\ len = start + n
      /\ \A i \in 1 .. n : /\ Log(w)[start + i].run = e /\ Log(w)[start + i].kind = Kinds[i]
                           /\ Log(w)[start + i].seq + n = seqs[w][e] + i
      /\ pc[w] = "action" => outcome[w].ticket = ticket_actions[e].ticket
  BY <1>1 DEF Attempt
<1>9. start \in Nat
  BY <1>1 DEF Shape, TypeOK, RunRow
<1> HIDE DEF e, n, start, line, len
<1>10. ASSUME NEW i \in 1 .. n + 1
       PROVE  /\ Log(w)'[start + i].run = e /\ Log(w)'[start + i].kind = Kinds[i]
              /\ Log(w)'[start + i].seq + (n + 1) = seqs'[w][e] + i
  <2>1. CASE i \in 1 .. n
    <3>1. start + i \in 1 .. len
      BY <1>4, <1>8, <1>9, <2>1
    <3>2. Log(w)'[start + i] = Log(w)[start + i]
      BY <1>7, <3>1
    <3>3. Log(w)[start + i].seq \in Int
      BY <3>1, LinesTyped DEF len
    <3> QED
      BY <1>4, <1>5, <1>8, <2>1, <3>2, <3>3
  <2>2. CASE i = n + 1
    <3>1. start + i = len + 1
      BY <1>4, <1>8, <1>9, <2>2
    <3> QED
      BY <1>4, <1>5, <1>6, <1>7, <2>2, <3>1
  <2> QED
    BY <1>4, <2>1, <2>2
<1>11. pc'[w] = "close" => Log(w)'[start + 3].ticket = ticket_actions[e].ticket
  BY <1>1, <1>3, <1>4, <1>6, <1>7, <1>8, <1>9
<1>12. Len(Log(w)') = start + (n + 1)
  BY <1>4, <1>7, <1>8, <1>9
<1>13. pc'[w] # "action"
  BY <1>1, <1>3
<1> QED
  BY <1>2, <1>4, <1>7, <1>8, <1>10, <1>11, <1>12, <1>13 DEF Attempt, e, n, start

\* The statements of `apply` write no line and leave the run alone.
LEMMA AttemptApplies ==
    ASSUME TicketInv, NEW w \in Workers, Attempt(w), Apply(w), ~UpdateMisses(w)
    PROVE  Attempt(w)'
<1>0. Shape /\ pc \in [Workers -> WorkerPc] /\ outcome \in [Workers -> Outcome]
  BY DEF TicketInv, Shape, TypeOK
<1>1. /\ pc[w] \in {"apply", "insert", "update", "ledger"}
      /\ pc'[w] \in {"insert", "update", "ledger", "action"}
      /\ Run(w)' = Run(w) /\ UNCHANGED <<runs, logs, seqs>>
  BY <1>0 DEF Apply, Replay, LockRun, InsertTicket, Conflict, UpdateTicket, Commit, GoTo, Run,
     queue, tables, recorder
<1>2. pc[w] \in InHandle /\ Written(pc[w])' = Written(pc[w])
  BY <1>1 DEF InHandle, Written
<1>3. pc'[w] = "action" => outcome'[w].ticket = ticket_actions'[Run(w)].ticket
  <2>1. CASE Replay(w)
    <3>1. outcome'[w].ticket = ticket_actions[Run(w)].ticket /\ ticket_actions' = ticket_actions
      BY <1>0, <2>1 DEF Replay, tables
    <3> QED
      BY <3>1
  <2>2. CASE Commit(w)
    <3>1. /\ ticket_actions'[Run(w)].ticket = outcome[w].ticket
          /\ outcome' = outcome
      <4>1. Run(w) \in Events /\ DOMAIN ticket_actions = Events
        BY <1>0, <1>2 DEF Shape, HandShape, TypeOK
      <4> QED
        BY <2>2, <4>1 DEF Commit
    <3> QED
      BY <3>1
  <2>3. CASE ~Replay(w) /\ ~Commit(w)
    BY <1>0, <2>3 DEF Apply, LockRun, InsertTicket, Conflict, UpdateTicket, GoTo
  <2> QED
    BY <2>1, <2>2, <2>3
<1>4. pc'[w] # "close"
  BY <1>1
<1> QED
  BY <1>0, <1>1, <1>2, <1>3, <1>4, AttemptStays

LEMMA AttemptKept ==
    ASSUME Solo, AuditInv, [Next]_vars, NEW w \in Workers
    PROVE  Attempt(w)'
<1>0. TicketInv /\ Shape /\ Attempt(w) /\ pc \in [Workers -> WorkerPc]
  BY DEF AuditInv, WorkerInv, TicketInv, Shape, TypeOK
<1>1. ASSUME Work(w) \/ Failure(w) \/ Crash(w) \/ Restart(w) PROVE Attempt(w)'
  <2>1. CASE OpenRun(w) \/ Record(w) \/ (Apply(w) /\ ~UpdateMisses(w))
    BY <1>0, <2>1, AttemptOpens, AttemptRecords, AttemptApplies
  <2>2. CASE ~OpenRun(w) /\ ~Record(w) /\ (~Apply(w) \/ UpdateMisses(w))
    <3>1. pc'[w] \in {"start", "idle", "ack", "dead", "down"}
      BY <1>0, <1>1, <2>2, ZenonT(30) DEF Work, Failure, EnsureGroup, Read, SkipPoison, Acknowledge,
         Conclude, UpdateMisses, CloseRefused, EnsureGroupFails, ReadLost, AckFails, HandleFails, CloseReplyLost,
         RecordFails, Crash, Restart, GoTo, GiveUp
    <3> QED
      BY <3>1 DEF Attempt, InHandle
  <2> QED
    BY <2>1, <2>2
<1>2. ASSUME UNCHANGED <<runs, logs, seqs, ticket_actions, pc, batch, outcome>>, StreamGrows
      PROVE  Attempt(w)'
  <2>1. CASE pc[w] \in InHandle
    <3>1. Run(w)' = Run(w)
      BY <1>0, <1>2, <2>1, RunKept DEF Shape, HandShape
    <3>2. Written(pc[w])' = Written(pc[w])
      BY <1>2 DEF Written
    <3>3. pc'[w] = "action" => outcome'[w].ticket = ticket_actions'[Run(w)].ticket
      BY <1>0, <1>2, <2>1 DEF Attempt
    <3> QED
      BY <1>0, <1>2, <2>1, <3>1, <3>2, <3>3, AttemptStays
  <2>2. CASE pc[w] \notin InHandle
    BY <1>2, <2>2 DEF Attempt
  <2> QED
    BY <2>1, <2>2
<1>3. ASSUME NEW m \in Events \cup {Poison}, Enqueue(m)
      PROVE  StreamGrows /\ UNCHANGED <<runs, logs, seqs, ticket_actions, pc, batch, outcome>>
  BY <1>0, <1>3 DEF Enqueue, Source!Enqueue, StreamGrows, Shape, TypeOK, tables, recorder
<1>4. ASSUME stream' = stream PROVE StreamGrows
  BY <1>0, <1>4, SameStream
<1>5. \/ \E v \in Workers : Work(v) \/ Failure(v) \/ Crash(v) \/ Restart(v)
      \/ \E m \in Events \cup {Poison} : Enqueue(m)
      \/ UNCHANGED <<runs, logs, seqs, ticket_actions, pc, batch, outcome, stream>>
  BY DEF Next, Admit, Source!Admit, Recover, Source!Recover, Asleep, vars, queue, tables, recorder
<1> QED
  BY <1>1, <1>2, <1>3, <1>4, <1>5 DEF Solo

-----------------------------------------------------------------------------
(* The runs *)

\* A row of `runs` changes when it is opened and not concluded, or when the one
\* worker closes the run that it is at.
LEMMA RunChanges ==
    ASSUME Shape, [Next]_vars, NEW e \in Events
    PROVE  \/ runs'[e] = runs[e]
           \/ runs[e].status # "concluded" /\ runs'[e].status # "concluded"
           \/ \E w \in Workers : pc[w] = "close" /\ CloseRun(w) /\ Run(w) = e
<1>0. runs \in [Events -> RunRow]
  BY DEF Shape, TypeOK
<1>1. ASSUME NEW w \in Workers, OpenRun(w), runs'[e] # runs[e]
      PROVE  runs[e].status # "concluded" /\ runs'[e].status # "concluded"
  <2>1. runs[Run(w)].status # "concluded" /\ Run(w) \in Events
    BY <1>1 DEF OpenRun, HasEvent
  <2>2. runs' = [runs EXCEPT ![Run(w)] = [status |-> "running", file |-> File(w),
                                          start |-> Len(Log(w)), end |-> 0]]
    BY <1>1, <2>1 DEF OpenRun
  <2>3. e = Run(w)
    BY <1>0, <1>1, <2>2, Zenon
  <2> QED
    BY <1>0, <2>1, <2>2, <2>3
<1>2. ASSUME NEW w \in Workers, CloseRun(w), Run(w) # e
      PROVE  runs'[e] = runs[e]
  BY <1>0, <1>2, ZenonT(30) DEF CloseRun
<1>3. \/ runs' = runs
      \/ \E w \in Workers : OpenRun(w) \/ (pc[w] = "close" /\ CloseRun(w))
  BY ZenonT(30) DEF Next, Admit, Source!Admit, Enqueue, Source!Enqueue, Recover, Source!Recover,
    Asleep, vars, Work, Apply, Failure, EnsureGroup, Read,
     SkipPoison, Acknowledge, Record, Conclude, Replay, LockRun, InsertTicket, Conflict, UpdateTicket,
     UpdateMisses, CloseRefused, Commit, EnsureGroupFails, ReadLost, AckFails, HandleFails, CloseReplyLost,
     RecordFails, Crash, Restart, tables, GoTo
<1> QED
  BY <1>1, <1>2, <1>3

\* close_run stores the range of the attempt.
LEMMA CloseAudits ==
    ASSUME Shape, NEW w \in Workers, Attempt(w), pc[w] = "close", CloseRun(w),
           NEW e \in Events, Run(w) = e
    PROVE  Audited(e)'
<1> DEFINE n == Len(logs[w])
           start == runs[e].start
<1>0. runs[e] \in RunRow /\ start \in Nat /\ runs \in [Events -> RunRow]
  BY DEF Shape, TypeOK, HandShape, InHandle, RunRow
<1>1. logs[w] \in Seq(Seq(AuditLine)) /\ n \in 1 .. Len(logs[w]) /\ n \in Nat
  BY DEF Shape, TypeOK, HandShape
<1>2. /\ Len(Log(w)) = start + 3 /\ runs[e].file = <<w, n>>
      /\ \A i \in 1 .. 3 : /\ Log(w)[start + i].run = e /\ Log(w)[start + i].kind = Kinds[i]
                           /\ Log(w)[start + i].seq + 3 = seqs[w][e] + i
      /\ Log(w)[start + 3].ticket = ticket_actions[e].ticket
  <2>1. Written(pc[w]) = 3 /\ pc[w] \in InHandle
    BY DEF Written, InHandle
  <2> QED
    BY <2>1 DEF Attempt, File
<1>3. \A i \in 1 .. 3 : Log(w)[start + i].seq + 1 = Log(w)[start + 1].seq + i
  <2>1. \A i \in 1 .. 3 : start + i \in 1 .. Len(Log(w))
    BY <1>0, <1>2
  <2>2. \A i \in 1 .. 3 : Log(w)[start + i].seq \in Nat
    BY <2>1, LinesTyped
  <2>3. seqs[w][e] \in Nat
    BY <1>0 DEF Shape, TypeOK
  <2>4. Log(w)[start + 1].seq + 3 = seqs[w][e] + 1 /\ Log(w)[start + 1].seq \in Nat
    BY <1>2, <2>2
  <2> HIDE DEF start
  <2>5. ASSUME NEW i \in 1 .. 3 PROVE Log(w)[start + i].seq + 1 = Log(w)[start + 1].seq + i
    <3> DEFINE x == Log(w)[start + i].seq
               y == Log(w)[start + 1].seq
               s == seqs[w][e]
    <3>1. x + 3 = s + i /\ y + 3 = s + 1 /\ x \in Nat /\ y \in Nat /\ s \in Nat
      BY <1>2, <2>2, <2>3, <2>4, Zenon
    <3> HIDE DEF x, y, s
    <3>2. x + 1 = y + i
      BY <3>1
    <3> QED
      BY <3>2 DEF x, y
  <2> QED
    BY <2>5
<1>4. UNCHANGED <<logs, ticket_actions, stream>>
  BY DEF CloseRun, recorder, queue
<1>5. runs'[e] = [[runs[e] EXCEPT !.status = "concluded"] EXCEPT !.end = Len(Log(w))]
  BY <1>0 DEF CloseRun
<1>6. runs'[e].start = start /\ runs'[e].file = <<w, n>> /\ runs'[e].end = start + 3
  BY <1>0, <1>2, <1>5 DEF RunRow
<1>7. logs'[w][n] = Log(w)
  BY <1>4 DEF Log
<1>8. start + 3 <= Len(logs'[w][n]) /\ <<w, n>> \in Workers \X Nat /\ n \in 1 .. Len(logs'[w])
  BY <1>0, <1>1, <1>2, <1>4, <1>7
<1> HIDE DEF n, start
<1> QED
  BY <1>2, <1>3, <1>4, <1>6, <1>7, <1>8 DEF Audited

LEMMA AuditedKept ==
    ASSUME AuditInv, Shape', [Next]_vars, NEW e \in Events
    PROVE  Audited(e)'
<1>0. Shape /\ TicketInv /\ LogsGrow /\ Audited(e)
  BY LogsAlwaysGrow DEF AuditInv, WorkerInv, TicketInv
<1>1. CASE runs'[e] = runs[e]
  <2>1. CASE runs[e].status = "concluded"
    <3>1. ticket_actions[e] # NoAction
      BY <2>1 DEF AuditInv, WorkerInv, AckInv, AckedIsConcluded
    <3>2. ticket_actions'[e] = ticket_actions[e]
      <4>1. ASSUME NEW w \in Workers, Commit(w) PROVE ticket_actions'[e] = ticket_actions[e]
        BY <1>0, <3>1, <4>1, CommitEffect, ZenonT(30) DEF Shape, TypeOK
      <4> QED
        BY <4>1, TablesChange DEF Recover
    <3> QED
      BY <1>0, <1>1, <3>2, AuditedStays
  <2>2. CASE runs[e].status # "concluded"
    BY <1>1, <2>2 DEF Audited
  <2> QED
    BY <2>1, <2>2
<1>2. CASE runs'[e].status # "concluded"
  BY <1>2 DEF Audited
<1>3. ASSUME NEW w \in Workers, pc[w] = "close", CloseRun(w), Run(w) = e
      PROVE  Audited(e)'
  BY <1>0, <1>3, CloseAudits DEF AuditInv
<1> QED
  BY <1>0, <1>1, <1>2, <1>3, RunChanges

LEMMA AuditInvariant ==
    ASSUME Solo PROVE Spec => []AuditInv
<1>1. Init => AuditInv
  <2> SUFFICES ASSUME Init PROVE AuditInv
    OBVIOUS
  <2>1. \A w \in Workers : Attempt(w)
    BY DEF Init, Attempt, InHandle
  <2>2. \A e \in Events : Audited(e)
    BY DEF Init, Audited, NoRun
  <2> QED
    BY <2>1, <2>2, InitWorkerInv DEF AuditInv
<1>2. AuditInv /\ [Next]_vars => AuditInv'
  <2> SUFFICES ASSUME AuditInv, [Next]_vars PROVE AuditInv'
    OBVIOUS
  <2>1. WorkerInv' /\ Shape'
    BY WorkerInvKept DEF AuditInv, WorkerInv, TicketInv
  <2>2. \A w \in Workers : Attempt(w)'
    BY AttemptKept
  <2>3. \A e \in Events : Audited(e)'
    BY <2>1, AuditedKept
  <2> QED
    BY <2>1, <2>2, <2>3 DEF AuditInv
<1> QED
  BY <1>1, <1>2, PTL DEF Spec

\* With one worker, the range of the audit file that a concluded run names holds
\* one complete attempt and nothing else, whatever was torn, lost, retried or cut
\* off by a crash before it (open_run's offset, Recorder.append, close_run).
THEOREM AuditIsExact ==
    ASSUME Solo PROVE Spec => []ConcludedIsAudited
<1>1. AuditInv => ConcludedIsAudited
  <2> SUFFICES ASSUME AuditInv, NEW e \in Events, runs[e].status = "concluded"
               PROVE  LET range == AuditRange(runs[e])
                      IN  /\ [i \in DOMAIN range |-> range[i].kind] = Kinds
                          /\ \A i \in DOMAIN range :
                                range[i].run = e /\ range[i].seq = range[1].seq + (i - 1)
                          /\ range[3].ticket = ticket_actions[e].ticket
    BY DEF ConcludedIsAudited, Kinds
  <2> DEFINE run == runs[e]
             file == logs[run.file[1]][run.file[2]]
             range == AuditRange(run)
  <2>1. /\ run.file \in Workers \X Nat /\ run.file[2] \in 1 .. Len(logs[run.file[1]])
        /\ run.end = run.start + 3 /\ run.end <= Len(file)
        /\ \A i \in 1 .. 3 :
              /\ file[run.start + i].run = e /\ file[run.start + i].kind = Kinds[i]
              /\ file[run.start + i].seq + 1 = file[run.start + 1].seq + i
        /\ file[run.start + 3].ticket = ticket_actions[e].ticket
    BY DEF AuditInv, Audited
  <2>2. run.start \in Nat /\ logs[run.file[1]] \in Seq(Seq(AuditLine))
    BY <2>1 DEF AuditInv, WorkerInv, TicketInv, Shape, TypeOK, RunRow
  <2>3. range = SubSeq(file, run.start + 1, run.end)
    BY DEF AuditRange
  <2> HIDE DEF run, range
  <2>4. file \in Seq(AuditLine)
    BY <2>1, <2>2, ElementOfSeq, Zenon
  <2> HIDE DEF file
  <2>5. \A i \in 1 .. 3 : file[run.start + i] \in AuditLine /\ file[run.start + i].seq \in Nat
    <3> SUFFICES ASSUME NEW i \in 1 .. 3
                 PROVE  file[run.start + i] \in AuditLine /\ file[run.start + i].seq \in Nat
      OBVIOUS
    <3> DEFINE n == run.start
               l == Len(file)
               j == run.start + i
    <3>1. n \in Nat /\ l \in Nat /\ n + 3 <= l /\ j = n + i
      <4>1. run.end = run.start + 3 /\ run.end <= Len(file)
        BY <2>1
      <4>2. Len(file) \in Nat
        BY <2>4, LenProperties
      <4> QED
        BY <2>2, <4>1, <4>2
    <3> HIDE DEF n, l, j
    <3>2. j \in 1 .. l
      BY <3>1
    <3>3. file[j] \in AuditLine
      BY <2>4, <3>2, ElementOfSeq DEF l
    <3>4. file[j].seq \in Nat
      BY <3>3 DEF AuditLine
    <3> QED
      BY <3>3, <3>4 DEF j
  <2>6. DOMAIN range = 1 .. 3 /\ \A i \in 1 .. 3 : range[i] = file[run.start + i]
    <3> DEFINE n == run.start
    <3>1. n \in Nat /\ range = SubSeq(file, n + 1, n + 3)
      BY <2>1, <2>2, <2>3
    <3>2. \A i \in (n + 1) .. (n + 3) : file[i] \in AuditLine
      <4>1. \A i \in 1 .. 3 : file[n + i] \in AuditLine
        BY <2>5
      <4> HIDE DEF n
      <4> SUFFICES ASSUME NEW i \in (n + 1) .. (n + 3) PROVE file[i] \in AuditLine
        OBVIOUS
      <4>2. i - n \in 1 .. 3 /\ n + (i - n) = i
        BY <3>1
      <4> QED
        BY <4>1, <4>2
    <3> HIDE DEF n
    <3>3. /\ range \in Seq(AuditLine) /\ Len(range) = 3
          /\ \A i \in 1 .. 3 : range[i] = file[(n + 1) + i - 1]
      <4>1. n + 1 \in Int /\ n + 3 \in Int /\ n + 1 <= n + 3 /\ (n + 3) - (n + 1) = 2
        BY <3>1
      <4>2. /\ SubSeq(file, n + 1, n + 3) \in Seq(AuditLine)
            /\ Len(SubSeq(file, n + 1, n + 3)) = (n + 3) - (n + 1) + 1
            /\ \A i \in 1 .. ((n + 3) - (n + 1) + 1) :
                  SubSeq(file, n + 1, n + 3)[i] = file[(n + 1) + i - 1]
        BY <3>2, <4>1, SubSeqProperties
      <4> QED
        BY <3>1, <4>1, <4>2
    <3>4. \A i \in 1 .. 3 : (n + 1) + i - 1 = n + i
      BY <3>1
    <3>5. DOMAIN range = 1 .. 3
      BY <3>3, LenProperties
    <3> QED
      BY <3>3, <3>4, <3>5 DEF n
  <2>7. [i \in DOMAIN range |-> range[i].kind] = Kinds
    <3>1. \A i \in 1 .. 3 : range[i].kind = Kinds[i]
      BY <2>1, <2>6
    <3>2. DOMAIN Kinds = 1 .. 3 /\ Kinds = [i \in 1 .. 3 |-> Kinds[i]]
      BY DEF Kinds
    <3> QED
      BY <2>6, <3>1, <3>2, Zenon
  <2>8. ASSUME NEW i \in 1 .. 3
        PROVE  range[i].run = e /\ range[i].seq = range[1].seq + (i - 1)
    <3> DEFINE x == range[i].seq
               y == range[1].seq
    <3>1. x + 1 = y + i /\ x \in Nat /\ y \in Nat /\ range[i].run = e
      <4>1. range[i] = file[run.start + i] /\ range[1] = file[run.start + 1]
        BY <2>6
      <4>2. file[run.start + i].seq \in Nat /\ file[run.start + 1].seq \in Nat
        BY <2>5
      <4>3. file[run.start + i].seq + 1 = file[run.start + 1].seq + i /\ file[run.start + i].run = e
        BY <2>1
      <4> QED
        BY <4>1, <4>2, <4>3
    <3> HIDE DEF x, y
    <3>2. x = y + (i - 1)
      BY <3>1
    <3> QED
      BY <3>1, <3>2 DEF x, y
  <2>9. range[3].ticket = ticket_actions[e].ticket
    BY <2>1, <2>6
  <2> QED
    BY <2>6, <2>7, <2>8, <2>9 DEF range, run
<1> QED
  BY <1>1, AuditInvariant, PTL

\* With one worker, nothing that is redelivered reopens, repoints or closes again
\* a run that has concluded (the status test of open_run).
THEOREM ConclusionIsFinal ==
    ASSUME Solo PROVE Spec => ConcludedIsFinal
<1>1. AuditInv /\ [Next]_vars => \A e \in Events : runs[e].status = "concluded" => runs'[e] = runs[e]
  <2> SUFFICES ASSUME AuditInv, [Next]_vars, NEW e \in Events, runs[e].status = "concluded"
               PROVE  runs'[e] = runs[e]
    OBVIOUS
  <2>1. ASSUME NEW w \in Workers, pc[w] = "close", Run(w) = e PROVE FALSE
    BY <2>1 DEF AuditInv, Attempt, InHandle
  <2>2. Shape
    BY DEF AuditInv, WorkerInv, TicketInv
  <2> QED
    BY <2>1, <2>2, RunChanges
<1>2. AuditInv /\ [Next]_vars =>
          [\A e \in Events : runs[e].status = "concluded" => runs'[e] = runs[e]]_runs
  BY <1>1
<1> QED
  BY <1>2, AuditInvariant, PTL DEF Spec, ConcludedIsFinal

-----------------------------------------------------------------------------
(* What GET /runs/{fingerprint} says, for any number of workers *)

\* The ledger's row of a run that has acted names a ticket of its incident that
\* counts the action.
LedgerRow(e) ==
    ticket_actions[e] # NoAction =>
        LET t == ticket_actions[e].ticket
        IN  /\ t \in TicketIds /\ tickets[t].status # "absent" /\ tickets[t].fp = FpOf[e]
            /\ tickets[t].update_count >= ticket_actions[e].update_count

AnswerInv == WorkerInv /\ \A e \in Events : LedgerRow(e)

LEMMA TicketGrows ==
    ASSUME TicketInv, [Next]_vars, NEW t \in TicketIds, tickets[t].status # "absent"
    PROVE  /\ tickets'[t].status # "absent" /\ tickets'[t].fp = tickets[t].fp
           /\ tickets'[t].update_count >= tickets[t].update_count
<1>0. /\ tickets \in [TicketIds -> TicketRow] /\ tickets[t] \in TicketRow
      /\ tickets[t].update_count \in Nat
  BY DEF TicketInv, Shape, TypeOK, TicketRow
<1>1. CASE tickets' = tickets
  BY <1>0, <1>1
<1>2. ASSUME NEW fp \in Fingerprints, Recover(fp)
      PROVE  tickets'[t] \in {tickets[t], [tickets[t] EXCEPT !.status = "closed"]}
  BY <1>2 DEF Recover
<1>3. ASSUME NEW w \in Workers, Commit(w), tickets'[t] # tickets[t]
      PROVE  tickets'[t] = [tickets[t] EXCEPT !.update_count = tickets[t].update_count + 1]
  <2> DEFINE u == outcome[w].ticket
             n == outcome[w].update_count
  <2>1. /\ u \in TicketIds /\ outcome[w].created \in BOOLEAN
        /\ outcome[w].created => /\ tickets[u].status = "absent"
              /\ tickets' = [tickets EXCEPT ![u] = [status |-> "open", fp |-> FpOf[Run(w)], update_count |-> 0]]
        /\ ~outcome[w].created => /\ n = tickets[u].update_count + 1
              /\ tickets' = [tickets EXCEPT ![u] = [@ EXCEPT !.update_count = n]]
    BY <1>3, CommitEffect, ZenonT(30)
  <2>2. u = t
    BY <1>0, <1>3, <2>1, ZenonT(30)
  <2>3. ~outcome[w].created
    BY <2>1, <2>2
  <2> QED
    BY <1>0, <2>1, <2>2, <2>3
<1>4. ASSUME tickets'[t] \in {tickets[t], [tickets[t] EXCEPT !.status = "closed"],
                              [tickets[t] EXCEPT !.update_count = tickets[t].update_count + 1]}
      PROVE  /\ tickets'[t].status # "absent" /\ tickets'[t].fp = tickets[t].fp
             /\ tickets'[t].update_count >= tickets[t].update_count
  BY <1>0, <1>4 DEF TicketRow
<1> QED
  BY <1>1, <1>2, <1>3, <1>4, TablesChange

\* What the ledger says of a run is never changed.
LEMMA LedgerFixed ==
    ASSUME TicketInv, [Next]_vars, NEW e \in Events, ticket_actions[e] # NoAction
    PROVE  ticket_actions'[e] = ticket_actions[e]
<1>1. ASSUME NEW w \in Workers, Commit(w) PROVE ticket_actions'[e] = ticket_actions[e]
  BY <1>1, CommitEffect, ZenonT(30) DEF TicketInv, Shape, TypeOK
<1> QED
  BY <1>1, TablesChange DEF Recover

LEMMA LedgerRowKept ==
    ASSUME TicketInv, [Next]_vars, NEW e \in Events, LedgerRow(e)
    PROVE  LedgerRow(e)'
<1>1. CASE ticket_actions[e] # NoAction
  <2> DEFINE a == ticket_actions[e]
             t == a.ticket
  <2>1. /\ t \in TicketIds /\ tickets[t].status # "absent" /\ tickets[t].fp = FpOf[e]
        /\ tickets[t].update_count >= a.update_count
    BY <1>1 DEF LedgerRow
  <2>2. /\ tickets'[t].status # "absent" /\ tickets'[t].fp = tickets[t].fp
        /\ tickets'[t].update_count >= tickets[t].update_count
    BY <2>1, TicketGrows
  <2>3. ticket_actions'[e] = a
    BY <1>1, LedgerFixed
  <2>4. a.update_count \in Nat /\ tickets[t].update_count \in Nat
    BY <2>1 DEF TicketInv, Shape, TypeOK, TicketRow, ActionRow
  <2>5. tickets'[t].update_count \in Nat
    <3>1. Shape'
      BY TicketInvKept DEF TicketInv
    <3> QED
      BY <2>1, <3>1 DEF Shape, TypeOK, TicketRow
  <2>6. tickets'[t].update_count >= a.update_count
    BY <2>1, <2>2, <2>4, <2>5
  <2> QED
    BY <2>1, <2>2, <2>3, <2>6, Zenon DEF LedgerRow
<1>2. CASE ticket_actions[e] = NoAction /\ ticket_actions'[e] # NoAction
  <2>1. PICK w \in Workers : Commit(w)
    BY <1>2, TablesChange DEF Recover
  <2> DEFINE t == outcome[w].ticket
             n == outcome[w].update_count
             c == outcome[w].created
  <2>2. /\ t \in TicketIds /\ c \in BOOLEAN /\ n \in Nat /\ Run(w) \in Events
        /\ ticket_actions' = [ticket_actions EXCEPT ![Run(w)] =
              [ticket |-> t, created |-> c, update_count |-> n]]
        /\ c => n = 0 /\ tickets' = [tickets EXCEPT ![t] =
                    [status |-> "open", fp |-> FpOf[Run(w)], update_count |-> 0]]
        /\ ~c => t \in OpenTickets(FpOf[Run(w)]) /\ tickets' = [tickets EXCEPT ![t] = [@ EXCEPT !.update_count = n]]
    BY <2>1, CommitEffect, ZenonT(30)
  <2>3. ticket_actions \in [Events -> ActionRow] /\ tickets \in [TicketIds -> TicketRow]
    BY DEF TicketInv, Shape, TypeOK
  <2>4. e = Run(w)
    BY <1>2, <2>2, <2>3, ZenonT(30)
  <2>5. ticket_actions'[e].ticket = t /\ ticket_actions'[e].update_count = n
    BY <2>2, <2>3, <2>4
  <2>6. tickets'[t].status # "absent" /\ tickets'[t].fp = FpOf[e] /\ tickets'[t].update_count = n
    <3>1. CASE c
      BY <2>2, <2>3, <2>4, <3>1
    <3>2. CASE ~c
      <4>1. /\ tickets[t] \in TicketRow /\ tickets[t].status = "open" /\ tickets[t].fp = FpOf[e]
            /\ tickets'[t] = [tickets[t] EXCEPT !.update_count = n]
        BY <2>2, <2>3, <2>4, <3>2 DEF OpenTickets
      <4> QED
        BY <4>1 DEF TicketRow
    <3> QED
      BY <2>2, <3>1, <3>2
  <2> HIDE DEF t, n
  <2>7. tickets'[t].update_count >= n
    BY <2>2, <2>6
  <2> QED
    BY <2>2, <2>5, <2>6, <2>7, Zenon DEF LedgerRow
<1> QED
  BY <1>1, <1>2 DEF LedgerRow

LEMMA AnswerInvariant == Spec => []AnswerInv
<1>1. Init => AnswerInv
  BY InitWorkerInv DEF AnswerInv, Init, LedgerRow
<1>2. AnswerInv /\ [Next]_vars => AnswerInv'
  BY WorkerInvKept, LedgerRowKept DEF AnswerInv, WorkerInv
<1> QED
  BY <1>1, <1>2, PTL DEF Spec

\* What Joined and Answer give for a run that has concluded, and for any other.
LEMMA AnswersOf ==
    ASSUME AnswerInv, NEW fp \in Fingerprints, NEW a \in run_for(fp)
    PROVE  /\ \E e \in Started(fp) : \E t \in Joined(e) : a = Answer(e, t)
           /\ a.run \in Started(fp) /\ a.status = runs[a.run].status
           /\ a.file = runs[a.run].file /\ a.start = runs[a.run].start
           /\ a.joined # NoTicket => a.ticket = fp
           /\ a.status = "concluded" =>
                 LET act == ticket_actions[a.run]
                 IN  /\ act # NoAction /\ act.ticket \in TicketIds /\ a.joined = act.ticket
                     /\ a.ticket = tickets[act.ticket].fp
                     /\ a.ticket_updates = tickets[act.ticket].update_count
<1>0. PICK e \in Started(fp) : \E t \in Joined(e) : a = Answer(e, t)
  BY Zenon DEF run_for
<1>1. PICK t \in Joined(e) : a = Answer(e, t)
  BY <1>0
<1>2. e \in Events /\ FpOf[e] = fp
  BY DEF Started
<1>3. /\ a.run = e /\ a.status = runs[e].status /\ a.joined = t
      /\ a.file = runs[e].file /\ a.start = runs[e].start
      /\ t # NoTicket => a.ticket = tickets[t].fp /\ a.ticket_updates = tickets[t].update_count
  BY <1>1 DEF Answer
<1>4. t # NoTicket => tickets[t].fp = fp
  <2>1. CASE ticket_actions[e] # NoAction
    BY <1>2, <2>1 DEF Joined, AnswerInv, LedgerRow
  <2>2. CASE ticket_actions[e] = NoAction
    BY <1>2, <2>2 DEF Joined, TicketsOf
  <2> QED
    BY <2>1, <2>2
<1>5. ASSUME a.status = "concluded"
      PROVE  ticket_actions[e] # NoAction /\ ticket_actions[e].ticket \in TicketIds /\ t = ticket_actions[e].ticket
  <2>1. ticket_actions[e] # NoAction
    <3>1. AckedIsConcluded
      BY DEF AnswerInv, WorkerInv, AckInv
    <3> QED
      BY <1>2, <1>3, <1>5, <3>1, Zenon DEF AckedIsConcluded
  <2> QED
    BY <1>2, <2>1 DEF Joined, AnswerInv, LedgerRow
<1>6. NoTicket \notin TicketIds
  BY WorkerAssumption
<1> QED
  BY <1>1, <1>3, <1>4, <1>5, <1>6, Zenon

\* With any number of workers, an answer of run_for shows no other incident's
\* ticket, and one that says "concluded" shows the ticket that this run acted on,
\* with its action counted.
THEOREM AnswersAreTruthful == Spec => []AnswerTruthful
<1>1. AnswerInv => AnswerTruthful
  <2> SUFFICES ASSUME AnswerInv, NEW fp \in Fingerprints, NEW a \in run_for(fp)
               PROVE  /\ a.joined # NoTicket => a.ticket = fp
                      /\ a.status = "concluded" =>
                            /\ a.joined # NoTicket
                            /\ a.joined = ticket_actions[a.run].ticket
                            /\ a.ticket_updates >= ticket_actions[a.run].update_count
    BY DEF AnswerTruthful
  <2>1. a.joined # NoTicket => a.ticket = fp
    BY AnswersOf
  <2>2. ASSUME a.status = "concluded"
        PROVE  /\ a.joined # NoTicket /\ a.joined = ticket_actions[a.run].ticket
               /\ a.ticket_updates >= ticket_actions[a.run].update_count
    <3>1. /\ a.run \in Started(fp) /\ ticket_actions[a.run] # NoAction
          /\ ticket_actions[a.run].ticket \in TicketIds /\ a.joined = ticket_actions[a.run].ticket
          /\ a.ticket_updates = tickets[ticket_actions[a.run].ticket].update_count
      BY <2>2, AnswersOf, Zenon
    <3>2. LedgerRow(a.run)
      BY <3>1 DEF AnswerInv, Started
    <3>3. NoTicket \notin TicketIds
      BY WorkerAssumption
    <3> QED
      BY <3>1, <3>2, <3>3 DEF LedgerRow
  <2> QED
    BY <2>1, <2>2
<1> QED
  BY <1>1, AnswerInvariant, PTL

LEMMA AnswerListed ==
    ASSUME NEW fp, NEW e, NEW t, e \in Started(fp)', t \in Joined(e)'
    PROVE  Answer(e, t)' \in run_for(fp)'
<1>1. Answer(e, t)' \in {Answer(e, u)' : u \in Joined(e)'}
  OBVIOUS
<1>2. {Answer(e, u)' : u \in Joined(e)'} \in {{Answer(f, u)' : u \in Joined(f)'} : f \in Started(fp)'}
  BY Zenon
<1> QED
  BY <1>1, <1>2, Zenon DEF run_for

\* A concluded row keeps its status and the place its audit range starts.
LEMMA ConcludedStays ==
    ASSUME Shape, [Next]_vars, NEW e \in Events, runs[e].status = "concluded"
    PROVE  /\ runs'[e].status = "concluded" /\ runs'[e].file = runs[e].file
           /\ runs'[e].start = runs[e].start
<1>0. runs \in [Events -> RunRow] /\ runs[e] \in RunRow
  BY DEF Shape, TypeOK
<1>1. ASSUME NEW w \in Workers, CloseRun(w), Run(w) = e
      PROVE  /\ runs'[e].status = "concluded" /\ runs'[e].file = runs[e].file
             /\ runs'[e].start = runs[e].start
  <2>1. runs'[e] = [[runs[e] EXCEPT !.status = "concluded"] EXCEPT !.end = Len(Log(w))]
    BY <1>0, <1>1 DEF CloseRun
  <2> QED
    BY <1>0, <2>1 DEF RunRow
<1> QED
  BY <1>1, RunChanges

\* With any number of workers, what run_for said of a concluded run stays true:
\* no redelivery reopens the run, points it at another attempt or gives it
\* another ticket (open_run's status test, apply's ledger).
THEOREM AnswersStand == Spec => AnswerStands
<1>1. AnswerInv /\ AnswerInv' /\ [Next]_vars =>
        \A fp \in Fingerprints : \A a \in run_for(fp) :
            a.status = "concluded" => \E b \in run_for(fp)' : Upholds(b, a)
  <2> SUFFICES ASSUME AnswerInv, AnswerInv', [Next]_vars, NEW fp \in Fingerprints,
                      NEW a \in run_for(fp), a.status = "concluded"
               PROVE  \E b \in run_for(fp)' : Upholds(b, a)
    OBVIOUS
  <2> DEFINE e == a.run
             t == ticket_actions[e].ticket
  <2>0. TicketInv /\ Shape
    BY DEF AnswerInv, WorkerInv, TicketInv
  <2>1. /\ e \in Started(fp) /\ a.status = runs[e].status
        /\ a.file = runs[e].file /\ a.start = runs[e].start
        /\ ticket_actions[e] # NoAction /\ t \in TicketIds /\ a.joined = t
        /\ a.ticket = tickets[t].fp /\ a.ticket_updates = tickets[t].update_count
    BY AnswersOf, Zenon
  <2>2. e \in Events /\ FpOf[e] = fp /\ runs[e].status = "concluded"
    BY <2>1 DEF Started
  <2> HIDE DEF e
  <2>3. /\ runs'[e].status = "concluded" /\ runs'[e].file = runs[e].file
        /\ runs'[e].start = runs[e].start
    BY <2>0, <2>2, ConcludedStays
  <2>4. ticket_actions'[e] = ticket_actions[e]
    BY <2>0, <2>1, <2>2, LedgerFixed
  <2>5. tickets'[t].fp = tickets[t].fp /\ tickets'[t].update_count >= tickets[t].update_count
    <3>1. LedgerRow(e)
      BY <2>2 DEF AnswerInv
    <3>2. tickets[t].status # "absent"
      BY <2>1, <3>1 DEF LedgerRow
    <3> QED
      BY <2>0, <2>1, <3>2, TicketGrows
  <2>6. PICK c \in run_for(fp)' :
          /\ c.run = e /\ c.status = runs'[e].status /\ c.joined = t
          /\ c.ticket = tickets'[t].fp /\ c.ticket_updates = tickets'[t].update_count
          /\ c.file = runs'[e].file /\ c.start = runs'[e].start
    <3> DEFINE r == [run |-> e, status |-> runs'[e].status, joined |-> t,
                     ticket |-> tickets'[t].fp, ticket_updates |-> tickets'[t].update_count,
                     file |-> runs'[e].file, start |-> runs'[e].start, end |-> runs'[e].end]
    <3>1. e \in Started(fp)'
      BY <2>2, <2>3 DEF Started
    <3>a. PICK u : u = t
      OBVIOUS
    <3>2. u \in Joined(e)'
      BY <2>1, <2>4, <3>a DEF Joined
    <3>3. Answer(e, u)' = r
      BY <2>1, <3>a, WorkerAssumption DEF Answer
    <3> HIDE DEF r
    <3>4. r \in run_for(fp)'
      BY <3>1, <3>2, <3>3, AnswerListed, Zenon
    <3> QED
      BY <3>4, Zenon DEF r
  <2>7. Upholds(c, a)
    BY <2>1, <2>2, <2>3, <2>5, <2>6 DEF Upholds, e
  <2> QED
    BY <2>6, <2>7, Zenon
<1>2. AnswerInv /\ AnswerInv' /\ [Next]_vars =>
        [\A fp \in Fingerprints : \A a \in run_for(fp) :
            a.status = "concluded" => \E b \in run_for(fp)' : Upholds(b, a)]_vars
  BY <1>1
<1> QED
  BY <1>2, AnswerInvariant, PTL DEF Spec, AnswerStands
=============================================================================
