------------------------ MODULE ReceiverAnswerProofs ------------------------
(***************************************************************************)
(* What the Receiver tells the outside: the messages that it gives to the  *)
(* stream, its answers to the senders, and the alerts that a row counts.   *)
(***************************************************************************)
EXTENDS ReceiverProofs, FiniteSetTheorems

\* A leaf that names no prover is tried with Zenon, then with SMT.
USE ZenonT(5), SMTT(20)

-----------------------------------------------------------------------------
(* Repeats.  Each copy of an event beyond the faults and crashes so far is    *)
(* accounted for: it has its receipt, or the one holder of the row lock has   *)
(* the reply in hand.                                                         *)

Copies(e) == {m \in DOMAIN stream : stream[m] = e}

\* FOR UPDATE lets one process at a time near a row.
RowExclusive ==
    \A p, q \in Processes : RowHeld(p) /\ RowHeld(q) /\ target[p] = target[q] => p = q

\* The row that a process holds was pending when it was locked, and still is.
HeldPending == \A p \in Processes : RowHeld(p) => events[target[p]].queue_message_id = 0

Accounted(e) ==
    \/ events[e].queue_message_id # 0
    \/ \E p \in Processes : pc[p] = "mark" /\ target[p] = e

CopiesBounded ==
    \A e \in EventIds :
        Cardinality(Copies(e)) <= (IF Accounted(e) THEN 1 ELSE 0) + faults + crashes

RepeatInv ==
    /\ RowExclusive /\ HeldPending /\ CopiesBounded
    /\ \A e \in EventIds : events[e].queue_message_id # 0 => Admitted(e)

\* The copies of an event are finitely many, and XADD adds one of its target.
LEMMA CopiesFinite ==
    ASSUME Shape, NEW e
    PROVE  IsFiniteSet(Copies(e)) /\ Cardinality(Copies(e)) \in Nat
<1>1. Len(stream) \in Nat /\ DOMAIN stream = 1 .. Len(stream)
  BY DEF Shape, TypeOK
<1>2. IsFiniteSet(1 .. Len(stream))
  BY <1>1, FS_Interval
<1>3. Copies(e) \in SUBSET (1 .. Len(stream))
  BY <1>1 DEF Copies
<1>4. IsFiniteSet(Copies(e))
  BY <1>2, <1>3, FS_Subset
<1> QED
  BY <1>4, FS_CardinalityType

LEMMA CopiesAppend ==
    ASSUME Shape, NEW t \in EventIds, stream' = Append(stream, t), NEW e
    PROVE  Cardinality(Copies(e))' = Cardinality(Copies(e)) + (IF e = t THEN 1 ELSE 0)
<1>1. /\ Len(stream) \in Nat /\ DOMAIN stream = 1 .. Len(stream)
      /\ DOMAIN stream' = 1 .. (Len(stream) + 1)
      /\ stream'[Len(stream) + 1] = t
      /\ \A m \in 1 .. Len(stream) : stream'[m] = stream[m]
  BY DEF Shape, TypeOK
<1>2. CASE e = t
  <2>1. Copies(e)' = Copies(e) \cup {Len(stream) + 1}
    BY <1>1, <1>2 DEF Copies
  <2>2. Len(stream) + 1 \notin Copies(e)
    BY <1>1 DEF Copies
  <2> QED
    BY <1>2, <2>1, <2>2, CopiesFinite, FS_AddElement
<1>3. CASE e # t
  <2>1. Copies(e)' = Copies(e)
    BY <1>1, <1>3 DEF Copies
  <2> QED
    BY <1>3, <2>1, CopiesFinite
<1> QED
  BY <1>2, <1>3

\* Leaving dispatch_event concerns nobody else.
LEMMA LeaveEffect ==
    ASSUME Shape, NEW p \in Processes, (\E m : Return(p, m)) \/ Abort(p)
    PROVE  /\ pc'[p] \notin {"dispatch", "xadd", "mark"}
           /\ \A q \in Processes \ {p} : pc'[q] = pc[q] /\ target'[q] = target[q]
BY DEF Return, Abort, Shape, TypeOK

\* A step without an XADD, a row lock, a receipt or a failure.
LEMMA RepeatQuiet ==
    ASSUME Shape, RepeatInv, RowsKept, ReceiptsKept,
           stream' = stream, faults' = faults, crashes' = crashes,
           \A q \in Processes : RowHeld(q)' => RowHeld(q) /\ target'[q] = target[q],
           \A q \in Processes : pc[q] = "mark" => pc'[q] = "mark" /\ target'[q] = target[q]
    PROVE  RepeatInv'
<1>1. RowExclusive'
  BY DEF RepeatInv, RowExclusive
<1>2. \A e \in EventIds : events'[e].queue_message_id # 0 =>
          events[e].queue_message_id # 0 /\ Admitted(e)'
  BY DEF ReceiptsKept, RepeatInv, RowsKept, RowKept, Admitted
<1>3. \A p \in Processes : RowHeld(p) => target[p] \in EventIds
  BY DEF RowHeld, Shape, TargetShape
<1>4. HeldPending'
  BY <1>2, <1>3 DEF RepeatInv, HeldPending
<1>5. ASSUME NEW e \in EventIds, Accounted(e) PROVE Accounted(e)'
  <2>1. events[e].queue_message_id # 0 => events'[e].queue_message_id # 0
    BY DEF RepeatInv, RowsKept, RowKept, Admitted
  <2> QED
    BY <1>5, <2>1 DEF Accounted
<1>6. CopiesBounded'
  <2> SUFFICES ASSUME NEW e \in EventIds
               PROVE  Cardinality(Copies(e))' <= (IF Accounted(e)' THEN 1 ELSE 0) + faults' + crashes'
    BY DEF CopiesBounded
  <2>1. Copies(e)' = Copies(e)
    BY DEF Copies
  <2>2. Cardinality(Copies(e)) <= (IF Accounted(e) THEN 1 ELSE 0) + faults + crashes
    BY DEF RepeatInv, CopiesBounded
  <2>3. faults \in Nat /\ crashes \in Nat /\ Cardinality(Copies(e)) \in Nat
    BY CopiesFinite DEF Shape, TypeOK
  <2> QED
    BY <1>5, <2>1, <2>2, <2>3
<1> QED
  BY <1>1, <1>2, <1>4, <1>6 DEF RepeatInv

LEMMA HandlerKeepsRepeats ==
    ASSUME Shape, RepeatInv, RowsKept, NEW r \in Requests, Handler(r) PROVE RepeatInv'
<1>1. stream' = stream /\ faults' = faults /\ crashes' = crashes
  BY DEF Handler, RejectUnverified, ReceiveMalformed, ReceiveValid, Quarantine, CloseWindow, Lock,
         CountDuplicate, MissWindow, InsertEvent, Respond, HandlerFails
<1>2. /\ \A q \in Processes \ {r} : pc'[q] = pc[q] /\ target'[q] = target[q]
      /\ pc'[r] \notin {"xadd", "mark"} /\ pc[r] # "mark"
  BY DEF Handler, RejectUnverified, ReceiveMalformed, ReceiveValid, Quarantine, CloseWindow, Lock,
         CountDuplicate, MissWindow, InsertEvent, Respond, HandlerFails, GoTo, Shape, TypeOK, Processes
<1> QED
  BY <1>1, <1>2, HandlerStoresNone, RepeatQuiet DEF RowHeld, Processes

\* One process leaves the places where it could hold a row, with or without a
\* copy more in the stream; a fault or a receipt makes up for what it held.
LEMMA RowHolderLeaves ==
    ASSUME Shape, RepeatInv, NEW p \in Processes, RowHeld(p),
           \A q \in Processes \ {p} : pc'[q] = pc[q] /\ target'[q] = target[q],
           events' = events, ~RowHeld(p)', crashes' = crashes, faults' = faults + 1,
           \/ stream' = stream
           \/ pc[p] = "xadd" /\ stream' = Append(stream, target[p])
    PROVE  RepeatInv'
<1> DEFINE t == target[p]
<1>1. t \in EventIds
  BY DEF RowHeld, Shape, TargetShape
<1>2. RowExclusive' /\ HeldPending'
  BY DEF RepeatInv, RowExclusive, HeldPending, RowHeld
<1>3. CopiesBounded'
  <2> SUFFICES ASSUME NEW e \in EventIds
               PROVE  Cardinality(Copies(e))' <= (IF Accounted(e)' THEN 1 ELSE 0) + faults' + crashes'
    BY DEF CopiesBounded
  <2>1. faults \in Nat /\ crashes \in Nat /\ Cardinality(Copies(e)) \in Nat
    BY CopiesFinite DEF Shape, TypeOK
  <2>2. Cardinality(Copies(e)) <= (IF Accounted(e) THEN 1 ELSE 0) + faults + crashes
    BY DEF RepeatInv, CopiesBounded
  <2>3. CASE e # t
    <3>1. Accounted(e) => Accounted(e)'
      BY <2>3 DEF Accounted
    <3>2. Cardinality(Copies(e))' = Cardinality(Copies(e))
      <4>1. CASE stream' = stream
        BY <4>1 DEF Copies
      <4>2. CASE stream' = Append(stream, t)
        BY <1>1, <2>1, <2>3, <4>2, CopiesAppend
      <4> QED
        BY <4>1, <4>2
    <3> QED
      BY <2>1, <2>2, <3>1, <3>2
  <2>4. CASE e = t /\ stream' = stream
    <3>1. Cardinality(Copies(e))' = Cardinality(Copies(e))
      BY <2>4 DEF Copies
    <3> QED
      BY <2>1, <2>2, <3>1
  <2>5. CASE e = t /\ pc[p] = "xadd" /\ stream' = Append(stream, t)
    <3>1. ~Accounted(e)
      BY <2>5 DEF RepeatInv, RowExclusive, HeldPending, RowHeld, Accounted
    <3>2. Cardinality(Copies(e))' = Cardinality(Copies(e)) + 1
      BY <1>1, <2>5, CopiesAppend
    <3> QED
      BY <2>1, <2>2, <3>1, <3>2
  <2> QED
    BY <2>3, <2>4, <2>5
<1> QED
  BY <1>2, <1>3 DEF RepeatInv, Admitted

LEMMA PublishKeepsRepeats ==
    ASSUME Shape, RepeatInv, NEW p \in Processes, Publish(p) PROVE RepeatInv'
<1> DEFINE t == target[p]
<1>1. /\ t \in EventIds /\ RowHeld(p) /\ pc[p] = "xadd" /\ pc'[p] = "mark"
      /\ \A q \in Processes \ {p} : pc'[q] = pc[q]
      /\ target' = target /\ events' = events /\ stream' = Append(stream, t)
      /\ faults' = faults /\ crashes' = crashes
  BY DEF Publish, GoTo, RowHeld, Shape, TypeOK, TargetShape
<1>2. \A q \in Processes : RowHeld(q)' <=> RowHeld(q)
  BY <1>1 DEF RowHeld
<1>3. RowExclusive' /\ HeldPending'
  BY <1>1, <1>2 DEF RepeatInv, RowExclusive, HeldPending
<1>4. ASSUME NEW e \in EventIds
      PROVE  Cardinality(Copies(e))' <= (IF Accounted(e)' THEN 1 ELSE 0) + faults' + crashes'
  <2>1. faults \in Nat /\ crashes \in Nat /\ Cardinality(Copies(e)) \in Nat
    BY CopiesFinite DEF Shape, TypeOK
  <2>2. Cardinality(Copies(e)) <= (IF Accounted(e) THEN 1 ELSE 0) + faults + crashes
    BY DEF RepeatInv, CopiesBounded
  <2>3. Cardinality(Copies(e))' = Cardinality(Copies(e)) + (IF e = t THEN 1 ELSE 0)
    BY <1>1, CopiesAppend
  <2>4. Accounted(e) => Accounted(e)'
    BY <1>1 DEF Accounted
  <2>5. e = t => ~Accounted(e) /\ Accounted(e)'
    BY <1>1 DEF RepeatInv, RowExclusive, HeldPending, RowHeld, Accounted
  <2> QED
    BY <1>1, <2>1, <2>2, <2>3, <2>4, <2>5
<1> QED
  BY <1>1, <1>3, <1>4 DEF RepeatInv, CopiesBounded, Admitted

LEMMA MarkKeepsRepeats ==
    ASSUME Shape, RepeatInv, ReceiptInv, NEW p \in Processes, MarkQueued(p) PROVE RepeatInv'
<1> DEFINE t == target[p]
<1>1. /\ t \in EventIds /\ Admitted(t) /\ pc[p] = "mark" /\ stream' = stream
      /\ faults' = faults /\ crashes' = crashes
      /\ events[t].queue_message_id = 0
  BY DEF MarkQueued, Shape, TargetShape, RepeatInv, HeldPending, RowHeld
<1>2. /\ pc'[p] \notin {"dispatch", "xadd", "mark"}
      /\ \A q \in Processes \ {p} : pc'[q] = pc[q] /\ target'[q] = target[q]
  BY LeaveEffect DEF MarkQueued
<1>3. message_id[p] # 0
  BY <1>1 DEF ReceiptInv, HeldReceipts, Shape, TypeOK
<1>4. \A e \in EventIds : /\ events'[e].status = events[e].status
                          /\ events'[e].queue_message_id =
                                IF e = t THEN message_id[p] ELSE events[e].queue_message_id
  <2>1. events' = [events EXCEPT ![t] = [events[t] EXCEPT !.queue_message_id = message_id[p]]]
    BY <1>1 DEF MarkQueued
  <2>2. events[t] \in Row
    BY <1>1 DEF Shape, TypeOK
  <2>3. /\ [events[t] EXCEPT !.queue_message_id = message_id[p]].status = events[t].status
        /\ [events[t] EXCEPT !.queue_message_id = message_id[p]].queue_message_id = message_id[p]
    BY <2>2 DEF Row
  <2> QED
    BY <1>1, <2>1, <2>3 DEF Shape, TypeOK
<1>5. RowExclusive' /\ HeldPending'
  BY <1>1, <1>2, <1>4 DEF RepeatInv, RowExclusive, HeldPending, RowHeld, Shape, TargetShape
<1>6. ASSUME NEW e \in EventIds
      PROVE  Cardinality(Copies(e))' <= (IF Accounted(e)' THEN 1 ELSE 0) + faults' + crashes'
  <2>1. faults \in Nat /\ crashes \in Nat /\ Cardinality(Copies(e)) \in Nat
    BY CopiesFinite DEF Shape, TypeOK
  <2>2. Cardinality(Copies(e)) <= (IF Accounted(e) THEN 1 ELSE 0) + faults + crashes
    BY DEF RepeatInv, CopiesBounded
  <2>3. Cardinality(Copies(e))' = Cardinality(Copies(e))
    BY <1>1 DEF Copies
  <2>4. Accounted(e) => Accounted(e)'
    BY <1>2, <1>3, <1>4 DEF Accounted
  <2> QED
    BY <1>1, <2>1, <2>2, <2>3, <2>4
<1> QED
  BY <1>1, <1>4, <1>5, <1>6 DEF RepeatInv, CopiesBounded, Admitted

LEMMA DispatchKeepsRepeats ==
    ASSUME Shape, RepeatInv, ReceiptInv, NEW p \in Processes, Dispatch(p) PROVE RepeatInv'
<1>1. ASSUME AlreadyQueued(p) \/ (DispatchFails(p) /\ events' = events) PROVE RepeatInv'
  <2>1. /\ stream' = stream /\ faults' = faults /\ crashes' = crashes /\ events' = events
        /\ pc[p] # "mark" /\ ((\E m : Return(p, m)) \/ Abort(p))
    BY <1>1 DEF AlreadyQueued, DispatchFails
  <2>2. RowsKept /\ ReceiptsKept
    BY <2>1 DEF RowsKept, RowKept, ReceiptsKept, Shape, TypeOK, Row
  <2>3. /\ ~RowHeld(p)'
        /\ \A q \in Processes \ {p} : pc'[q] = pc[q] /\ target'[q] = target[q]
    BY <2>1, LeaveEffect DEF RowHeld
  <2> QED
    BY <2>1, <2>2, <2>3, RepeatQuiet DEF RowHeld
<1>2. CASE LockRow(p)
  <2>1. /\ target' = target /\ events' = events /\ stream' = stream
        /\ faults' = faults /\ crashes' = crashes
        /\ \A q \in Processes \ {p} : pc'[q] = pc[q]
        /\ pc[p] = "dispatch" /\ pc'[p] = "xadd"
    BY <1>2 DEF LockRow, GoTo, Shape, TypeOK
  <2>2. RowExclusive' /\ HeldPending'
    BY <1>2, <2>1 DEF LockRow, RowFree, RepeatInv, RowExclusive, HeldPending, RowHeld
  <2>3. ASSUME NEW e \in EventIds
        PROVE  Accounted(e)' <=> Accounted(e)
    BY <2>1 DEF Accounted
  <2>4. CopiesBounded'
    BY <2>1, <2>3 DEF RepeatInv, CopiesBounded, Copies
  <2> QED
    BY <2>1, <2>2, <2>4 DEF RepeatInv, Admitted
<1>3. CASE Publish(p)
  BY <1>3, PublishKeepsRepeats
<1>4. CASE MarkQueued(p)
  BY <1>4, MarkKeepsRepeats
<1>5. CASE ReplyLost(p) \/ ReceiptLost(p)
  <2>1. /\ RowHeld(p) /\ Abort(p) /\ events' = events
        /\ crashes' = crashes /\ faults' = faults + 1
        /\ \/ stream' = stream
           \/ pc[p] = "xadd" /\ stream' = Append(stream, target[p])
    BY <1>5 DEF ReplyLost, ReceiptLost, RowHeld
  <2>2. /\ ~RowHeld(p)'
        /\ \A q \in Processes \ {p} : pc'[q] = pc[q] /\ target'[q] = target[q]
    BY <2>1, LeaveEffect DEF RowHeld
  <2> QED
    BY <2>1, <2>2, RowHolderLeaves
<1> QED
  BY <1>1, <1>2, <1>3, <1>4, <1>5 DEF Dispatch, DispatchFails

\* A crash drops every lock and every reply at once.
LEMMA CrashKeepsRepeats ==
    ASSUME Shape, RepeatInv, Crash PROVE RepeatInv'
<1>1. /\ events' = events /\ stream' = stream /\ faults' = faults /\ crashes' = crashes + 1
      /\ \A p \in Processes : ~RowHeld(p)'
  BY DEF Crash, RowHeld
<1>2. RowExclusive' /\ HeldPending'
  BY <1>1 DEF RowExclusive, HeldPending
<1>3. ASSUME NEW e \in EventIds
      PROVE  Cardinality(Copies(e))' <= (IF Accounted(e)' THEN 1 ELSE 0) + faults' + crashes'
  <2>1. faults \in Nat /\ crashes \in Nat /\ Cardinality(Copies(e)) \in Nat
    BY CopiesFinite DEF Shape, TypeOK
  <2>2. Cardinality(Copies(e)) <= (IF Accounted(e) THEN 1 ELSE 0) + faults + crashes
    BY DEF RepeatInv, CopiesBounded
  <2>3. Cardinality(Copies(e))' = Cardinality(Copies(e))
    BY <1>1 DEF Copies
  <2> QED
    BY <1>1, <2>1, <2>2, <2>3
<1> QED
  BY <1>1, <1>2, <1>3 DEF RepeatInv, CopiesBounded, Admitted

LEMMA NextKeepsRepeats == Shape /\ ReceiptInv /\ RepeatInv /\ [Next]_vars => RepeatInv'
<1> SUFFICES ASSUME Shape, ReceiptInv, RepeatInv, [Next]_vars PROVE RepeatInv'
  OBVIOUS
<1>1. RowsKept
  BY StepKeepsRows DEF RowsKept, RowKept, Shape, TypeOK, Row
<1>2. CASE \E r \in Requests : Handler(r)
  BY <1>1, <1>2, HandlerKeepsRepeats
<1>3. CASE \E p \in Processes : Dispatch(p)
  BY <1>3, DispatchKeepsRepeats
<1>4. CASE Crash
  BY <1>4, CrashKeepsRepeats
<1>5. CASE Scan \/ Visit \/ EndPass \/ Tick \/ Restart \/ Asleep \/ UNCHANGED vars
  <2>1. events' = events /\ stream' = stream /\ faults' = faults /\ crashes' = crashes
    BY <1>5 DEF Scan, Visit, EndPass, Tick, Restart, Asleep, vars
  <2>2. \A q \in Processes : /\ RowHeld(q)' => RowHeld(q) /\ target'[q] = target[q]
                             /\ pc[q] = "mark" => pc'[q] = "mark" /\ target'[q] = target[q]
    BY <1>5 DEF Scan, Visit, EndPass, Tick, Restart, Asleep, vars, GoTo, RowHeld, Shape, TypeOK
  <2>3. ReceiptsKept
    BY <2>1 DEF ReceiptsKept
  <2> QED
    BY <1>1, <2>1, <2>2, <2>3, RepeatQuiet
<1> QED
  BY <1>2, <1>3, <1>4, <1>5 DEF Next

\* An event has at most one message for every XADD reply, receipt or process
\* lost, and one: for any number of handlers beside the outbox, the row lock of
\* dispatch_event leaves no other way to publish an event again.
THEOREM NoRepeatWithoutFault == Spec => []RepeatsNeedFaults
<1>1. Init => ReceiptInv /\ RepeatInv
  <2> SUFFICES ASSUME Init PROVE ReceiptInv /\ RepeatInv
    OBVIOUS
  <2>1. ASSUME NEW e PROVE Cardinality(Copies(e)) = 0
    <3>1. Copies(e) = {}
      BY DEF Init, Copies
    <3> QED
      BY <3>1, FS_EmptySet
  <2>2. CopiesBounded
    <3>1. faults = 0 /\ crashes = 0
      BY DEF Init
    <3> QED
      BY <2>1, <3>1 DEF CopiesBounded
  <2>3. \A p \in Processes : pc[p] \notin {"xadd", "mark"}
    BY DEF Init
  <2>4. \A e \in EventIds : events[e].queue_message_id = 0
    BY DEF Init, NoRow
  <2>5. RowExclusive /\ HeldPending
    BY <2>3 DEF RowExclusive, HeldPending, RowHeld
  <2>6. ReceiptInv
    BY <2>3, <2>4 DEF ReceiptInv, ReceiptNamesEvent, HeldReceipts
  <2> QED
    BY <2>2, <2>4, <2>5, <2>6 DEF RepeatInv
<1>2. Shape /\ RepeatInv => RepeatsNeedFaults
  <2> SUFFICES ASSUME Shape, RepeatInv, NEW e \in EventIds
               PROVE  Cardinality(Copies(e)) <= 1 + faults + crashes
    BY DEF RepeatsNeedFaults, Copies
  <2>1. faults \in Nat /\ crashes \in Nat /\ Cardinality(Copies(e)) \in Nat
    BY CopiesFinite DEF Shape, TypeOK
  <2> QED
    BY <2>1 DEF RepeatInv, CopiesBounded
<1> QED
  BY <1>1, <1>2, ShapeAlways, NextKeepsReceipts, NextKeepsRepeats, PTL DEF Spec

-----------------------------------------------------------------------------
(* Answers.  What a handler will answer is true from the moment that admit    *)
(* commits: its row stays admitted under the fingerprint, and nobody else     *)
(* holds or has given a "new" answer for that row.                            *)

Dispatching(p) == pc[p] \in {"dispatch", "xadd", "mark"}

\* The part of ResponsesTruthful that is about one answer.
Truthful(r, a) ==
    /\ Admitted(a.event_id)
    /\ events[a.event_id].fp = a.fp
    /\ received_at[r] < events[a.event_id].received_at + Window
    /\ a.message_id # 0 => a.message_id \in DOMAIN stream /\ stream[a.message_id] = a.event_id

EachTruthful == \A r \in Requests : \A i \in DOMAIN results[r] : Truthful(r, results[r][i])

NewOnce ==
    \A r, q \in Requests : \A i \in DOMAIN results[r], j \in DOMAIN results[q] :
        /\ results[q][j].event_id = results[r][i].event_id
        /\ ~results[r][i].is_duplicate /\ ~results[q][j].is_duplicate
        => q = r /\ i = j

\* The row that admit returned fits the alert.
DispatchSound ==
    \A r \in Requests : Dispatching(r) =>
        /\ events[target[r]].fp = Fp(r)
        /\ received_at[r] < events[target[r]].received_at + Window

\* The handler that inserted a row is alone in calling it new.
NewPending ==
    \A r \in Requests : Dispatching(r) /\ ~is_duplicate[r] =>
        /\ \A q \in Requests : \A j \in DOMAIN results[q] :
              results[q][j].event_id = target[r] => results[q][j].is_duplicate
        /\ \A q \in Requests :
              Dispatching(q) /\ target[q] = target[r] /\ ~is_duplicate[q] => q = r

IdleUnanswered == \A r \in Requests : pc[r] = "idle" => results[r] = <<>>

AnswerInv == EachTruthful /\ NewOnce /\ DispatchSound /\ NewPending /\ IdleUnanswered

LEMMA AnswersAreTruthful == AnswerInv => ResponsesTruthful
BY DEF AnswerInv, EachTruthful, NewOnce, Truthful, ResponsesTruthful

\* An answer names a row of the table.
LEMMA AnswerTyped ==
    ASSUME Shape, NEW r \in Requests, NEW i \in DOMAIN results[r]
    PROVE  results[r][i] \in Result
<1>1. results[r] \in Seq(Result)
  BY DEF Shape, TypeOK
<1> QED
  BY <1>1

\* An answer once true stays true.
LEMMA TruthfulStays ==
    ASSUME Shape, RowsKept, StreamGrows, NEW r \in Requests, NEW a \in Result, Truthful(r, a),
           received_at'[r] = received_at[r]
    PROVE  Truthful(r, a)'
<1>1. a.event_id \in EventIds
  BY DEF Result
<1>2. RowKept(events[a.event_id], events'[a.event_id])
  BY <1>1 DEF RowsKept
<1>3. /\ events'[a.event_id].status = events[a.event_id].status
      /\ events'[a.event_id].fp = events[a.event_id].fp
      /\ events'[a.event_id].received_at = events[a.event_id].received_at
  BY <1>2 DEF RowKept, Truthful, Admitted
<1> QED
  BY <1>3 DEF Truthful, Admitted, StreamGrows

\* A step that begins no dispatch and gives no answer.
LEMMA AnswerQuiet ==
    ASSUME Shape, AnswerInv, RowsKept, StreamGrows, results' = results,
           \A r \in Requests : received_at'[r] = received_at[r] \/ results[r] = <<>>,
           \A r \in Requests : pc'[r] = "idle" => pc[r] = "idle",
           \A r \in Requests : Dispatching(r)' =>
              /\ Dispatching(r) /\ target'[r] = target[r] /\ todo'[r] = todo[r]
              /\ received_at'[r] = received_at[r] /\ is_duplicate'[r] = is_duplicate[r]
    PROVE  AnswerInv'
<1>1. EachTruthful'
  <2> SUFFICES ASSUME NEW r \in Requests, NEW i \in DOMAIN results[r]
               PROVE  Truthful(r, results[r][i])'
    BY DEF EachTruthful
  <2>1. received_at'[r] = received_at[r]
    OBVIOUS
  <2>2. Truthful(r, results[r][i])
    BY DEF AnswerInv, EachTruthful
  <2> QED
    BY <2>1, <2>2, AnswerTyped, TruthfulStays
<1>2. NewOnce' /\ IdleUnanswered'
  BY DEF AnswerInv, NewOnce, IdleUnanswered
<1>3. DispatchSound'
  <2> SUFFICES ASSUME NEW r \in Requests, Dispatching(r)'
               PROVE  /\ events'[target'[r]].fp = Fp(r)'
                      /\ received_at'[r] < events'[target'[r]].received_at + Window
    BY DEF DispatchSound
  <2>1. target[r] \in EventIds /\ Admitted(target[r])
    BY DEF Dispatching, Shape, TargetShape, Processes
  <2>2. /\ events'[target[r]].fp = events[target[r]].fp
        /\ events'[target[r]].received_at = events[target[r]].received_at
    BY <2>1 DEF RowsKept, RowKept, Admitted
  <2> QED
    BY <2>2 DEF AnswerInv, DispatchSound, Fp
<1>4. NewPending'
  BY DEF AnswerInv, NewPending
<1> QED
  BY <1>1, <1>2, <1>3, <1>4 DEF AnswerInv

\* What Return appends, and where.
NewAnswer(p, m) ==
    [event_id |-> target[p], fp |-> Fp(p), is_duplicate |-> is_duplicate[p], message_id |-> m]

NewPlace(p) == Len(results[p]) + 1

LEMMA ReturnAppends ==
    ASSUME Shape, NEW p \in Requests, NEW m, Return(p, m)
    PROVE  /\ \A q \in Requests : DOMAIN results'[q] =
                 IF q = p THEN DOMAIN results[p] \cup {NewPlace(p)} ELSE DOMAIN results[q]
           /\ \A q \in Requests : \A j \in DOMAIN results[q] : results'[q][j] = results[q][j]
           /\ results'[p][NewPlace(p)] = NewAnswer(p, m)
           /\ NewPlace(p) \notin DOMAIN results[p]
<1> DEFINE a == NewAnswer(p, m)
<1>1. p # Outbox
  BY ConstantsAssumption
<1>2. results' = [results EXCEPT ![p] = Append(results[p], a)]
  BY <1>1 DEF Return, NewAnswer
<1>3. results[p] \in Seq(Result) /\ results \in [Requests -> Seq(Result)]
  BY DEF Shape, TypeOK
<1>4. results'[p] = Append(results[p], a)
  BY <1>2, <1>3
<1>5. /\ DOMAIN Append(results[p], a) = DOMAIN results[p] \cup {NewPlace(p)}
      /\ \A j \in DOMAIN results[p] : Append(results[p], a)[j] = results[p][j]
      /\ Append(results[p], a)[NewPlace(p)] = a
      /\ NewPlace(p) \notin DOMAIN results[p]
  BY <1>3 DEF NewPlace
<1>6. \A q \in Requests \ {p} : results'[q] = results[q]
  BY <1>2, <1>3
<1> QED
  BY <1>4, <1>5, <1>6

\* A handler answers: its answer is as true as its admission was.
LEMMA ReturnKeepsAnswers ==
    ASSUME Shape, AnswerInv, RowsKept, StreamGrows, NEW p \in Requests, NEW m,
           Dispatching(p), Return(p, m), m # 0 => m \in DOMAIN stream' /\ stream'[m] = target[p],
           received_at' = received_at, is_duplicate' = is_duplicate
    PROVE  AnswerInv'
<1> DEFINE a == NewAnswer(p, m)
           n == NewPlace(p)
<1>1. /\ \A q \in Requests : \A j \in DOMAIN results[q] : results'[q][j] = results[q][j]
      /\ results'[p][n] = a
      /\ n \notin DOMAIN results[p]
      /\ \A q \in Requests : \A j \in DOMAIN results'[q] :
            j \in DOMAIN results[q] \/ (q = p /\ j = n)
  <2>1. /\ \A q \in Requests : DOMAIN results'[q] =
              IF q = p THEN DOMAIN results[p] \cup {NewPlace(p)} ELSE DOMAIN results[q]
        /\ \A q \in Requests : \A j \in DOMAIN results[q] : results'[q][j] = results[q][j]
        /\ results'[p][NewPlace(p)] = NewAnswer(p, m)
        /\ NewPlace(p) \notin DOMAIN results[p]
    BY ReturnAppends
  <2> QED
    BY <2>1
<1>2. /\ pc'[p] = "next"
      /\ \A q \in Requests \ {p} : pc'[q] = pc[q] /\ target'[q] = target[q] /\ todo'[q] = todo[q]
  BY ConstantsAssumption DEF Return, Shape, TypeOK, Processes
<1>3. target[p] \in EventIds /\ Admitted(target[p])
  BY DEF Dispatching, Shape, TargetShape, Processes
<1>4. ASSUME NEW e \in EventIds, Admitted(e)
      PROVE  /\ Admitted(e)' /\ events'[e].fp = events[e].fp
             /\ events'[e].received_at = events[e].received_at
  BY <1>4 DEF RowsKept, RowKept, Admitted
<1>5. /\ a.event_id = target[p] /\ a.fp = Fp(p) /\ a.is_duplicate = is_duplicate[p]
      /\ a.message_id = m
  BY DEF NewAnswer
<1> HIDE DEF a, n
<1>6. EachTruthful'
  <2> SUFFICES ASSUME NEW q \in Requests, NEW j \in DOMAIN results'[q]
               PROVE  Truthful(q, results[q][j])'
    BY DEF EachTruthful
  <2>1. CASE j \in DOMAIN results[q]
    <3> DEFINE b == results[q][j]
    <3>1. b \in Result /\ Truthful(q, b)
      BY <2>1, AnswerTyped DEF AnswerInv, EachTruthful
    <3>2. b.event_id \in EventIds
      BY <3>1 DEF Result
    <3>3. results'[q][j] = b
      BY <1>1, <2>1
    <3> HIDE DEF b
    <3> QED
      BY <1>4, <3>1, <3>2, <3>3 DEF Truthful, Admitted, StreamGrows
  <2>2. CASE q = p /\ j = n
    <3>1. /\ events[target[p]].fp = Fp(p)
          /\ received_at[p] < events[target[p]].received_at + Window
      BY DEF AnswerInv, DispatchSound
    <3> QED
      BY <1>1, <1>3, <1>4, <1>5, <2>2, <3>1 DEF Truthful, Admitted
  <2> QED
    BY <1>1, <2>1, <2>2
<1>7. NewOnce'
  <2> SUFFICES ASSUME NEW r \in Requests, NEW q \in Requests,
                      NEW i \in DOMAIN results'[r], NEW j \in DOMAIN results'[q],
                      results'[q][j].event_id = results'[r][i].event_id,
                      ~results'[r][i].is_duplicate, ~results'[q][j].is_duplicate
               PROVE  q = r /\ i = j
    BY DEF NewOnce
  <2>1. CASE i \in DOMAIN results[r] /\ j \in DOMAIN results[q]
    BY <1>1, <2>1 DEF AnswerInv, NewOnce
  <2>2. CASE i \in DOMAIN results[r] /\ q = p /\ j = n
    BY <1>1, <1>5, <2>2 DEF AnswerInv, NewPending
  <2>3. CASE r = p /\ i = n /\ j \in DOMAIN results[q]
    BY <1>1, <1>5, <2>3 DEF AnswerInv, NewPending
  <2> QED
    BY <1>1, <2>1, <2>2, <2>3
<1>8. DispatchSound'
  <2> SUFFICES ASSUME NEW r \in Requests, Dispatching(r)'
               PROVE  /\ events'[target'[r]].fp = Fp(r)'
                      /\ received_at'[r] < events'[target'[r]].received_at + Window
    BY DEF DispatchSound
  <2>1. r # p /\ Dispatching(r)
    BY <1>2 DEF Dispatching
  <2>2. target[r] \in EventIds /\ Admitted(target[r])
    BY <2>1 DEF Dispatching, Shape, TargetShape, Processes
  <2> QED
    BY <1>2, <1>4, <2>1, <2>2 DEF AnswerInv, DispatchSound, Fp
<1>9. NewPending'
  <2> SUFFICES ASSUME NEW r \in Requests, Dispatching(r)', ~is_duplicate[r]
               PROVE  /\ \A q \in Requests : \A j \in DOMAIN results'[q] :
                            results'[q][j].event_id = target'[r] => results'[q][j].is_duplicate
                      /\ \A q \in Requests :
                            Dispatching(q)' /\ target'[q] = target'[r] /\ ~is_duplicate[q] => q = r
    BY DEF NewPending
  <2>1. r # p /\ Dispatching(r) /\ target'[r] = target[r]
    BY <1>2 DEF Dispatching
  <2>2. \A q \in Requests : Dispatching(q)' => Dispatching(q) /\ target'[q] = target[q]
    BY <1>2 DEF Dispatching
  <2>3. target[p] = target[r] => is_duplicate[p]
    BY <2>1 DEF AnswerInv, NewPending
  <2>4. \A q \in Requests : \A j \in DOMAIN results'[q] :
            results'[q][j].event_id = target[r] => results'[q][j].is_duplicate
    BY <1>1, <1>5, <2>1, <2>3 DEF AnswerInv, NewPending
  <2> QED
    BY <2>1, <2>2, <2>4 DEF AnswerInv, NewPending
<1>10. IdleUnanswered'
  <2>1. \A q \in Requests \ {p} : results'[q] = results[q]
    BY ConstantsAssumption DEF Return, Shape, TypeOK
  <2> QED
    BY <1>2, <2>1 DEF AnswerInv, IdleUnanswered
<1> QED
  BY <1>6, <1>7, <1>8, <1>9, <1>10 DEF AnswerInv

\* admit commits for r: the row it chose fits, and a row called new has not
\* been heard of before.
LEMMA AdmitKeepsAnswers ==
    ASSUME Shape, AnswerInv, RowsKept, stream' = stream, results' = results,
           received_at' = received_at, todo' = todo, NEW r \in Requests, NEW e \in EventIds,
           ~Dispatching(r), pc'[r] = "dispatch", target'[r] = e,
           \A q \in Requests \ {r} : /\ pc'[q] = pc[q] /\ target'[q] = target[q]
                                     /\ is_duplicate'[q] = is_duplicate[q],
           events'[e].fp = Fp(r), received_at[r] < events'[e].received_at + Window,
           is_duplicate'[r] \/ events[e].status = "absent"
    PROVE  AnswerInv'
<1>1. EachTruthful'
  <2> SUFFICES ASSUME NEW q \in Requests, NEW i \in DOMAIN results[q]
               PROVE  Truthful(q, results[q][i])'
    BY DEF EachTruthful
  <2>1. Truthful(q, results[q][i])
    BY DEF AnswerInv, EachTruthful
  <2> QED
    BY <2>1, AnswerTyped, TruthfulStays, SameStreamGrows
<1>2. NewOnce' /\ IdleUnanswered'
  BY DEF AnswerInv, NewOnce, IdleUnanswered
<1>3. DispatchSound'
  <2> SUFFICES ASSUME NEW q \in Requests, q # r, Dispatching(q)'
               PROVE  /\ events'[target'[q]].fp = Fp(q)'
                      /\ received_at'[q] < events'[target'[q]].received_at + Window
    BY DEF DispatchSound, Fp
  <2>1. Dispatching(q) /\ target'[q] = target[q]
    BY DEF Dispatching
  <2>2. target[q] \in EventIds /\ Admitted(target[q])
    BY <2>1 DEF Dispatching, Shape, TargetShape, Processes
  <2>3. /\ events'[target[q]].fp = events[target[q]].fp
        /\ events'[target[q]].received_at = events[target[q]].received_at
    BY <2>2 DEF RowsKept, RowKept, Admitted
  <2> QED
    BY <2>1, <2>3 DEF AnswerInv, DispatchSound, Fp
<1>4. ASSUME ~is_duplicate'[r]
      PROVE  /\ \A q \in Requests : \A j \in DOMAIN results[q] : results[q][j].event_id # e
             /\ \A q \in Requests : Dispatching(q) => target[q] # e
  <2>1. ~Admitted(e)
    BY <1>4 DEF Admitted
  <2> QED
    BY <2>1 DEF AnswerInv, EachTruthful, Truthful, Shape, TargetShape, Dispatching, Processes
<1>5. NewPending'
  <2> SUFFICES ASSUME NEW q \in Requests, Dispatching(q)', ~is_duplicate'[q]
               PROVE  /\ \A s \in Requests : \A j \in DOMAIN results[s] :
                            results[s][j].event_id = target'[q] => results[s][j].is_duplicate
                      /\ \A s \in Requests :
                            Dispatching(s)' /\ target'[s] = target'[q] /\ ~is_duplicate'[s] => s = q
    BY DEF NewPending
  <2>1. CASE q = r
    BY <1>4, <2>1 DEF Dispatching
  <2>2. CASE q # r
    <3>1. Dispatching(q) /\ target'[q] = target[q] /\ ~is_duplicate[q]
      BY <2>2 DEF Dispatching
    <3>2. ASSUME NEW s \in Requests, Dispatching(s)', target'[s] = target'[q], ~is_duplicate'[s]
          PROVE  s = q
      <4>1. s # r
        BY <1>4, <3>1, <3>2
      <4>2. Dispatching(s) /\ target'[s] = target[s] /\ ~is_duplicate[s]
        BY <3>2, <4>1 DEF Dispatching
      <4> QED
        BY <3>1, <3>2, <4>2 DEF AnswerInv, NewPending
    <3> QED
      BY <3>1, <3>2 DEF AnswerInv, NewPending
  <2> QED
    BY <2>1, <2>2
<1> QED
  BY <1>1, <1>2, <1>3, <1>5 DEF AnswerInv

LEMMA HandlerKeepsAnswers ==
    ASSUME Shape, AnswerInv, RowsKept, NEW r \in Requests, Handler(r) PROVE AnswerInv'
<1>1. /\ stream' = stream /\ results' = results
      /\ \A q \in Requests \ {r} :
            /\ pc'[q] = pc[q] /\ target'[q] = target[q] /\ todo'[q] = todo[q]
            /\ received_at'[q] = received_at[q] /\ is_duplicate'[q] = is_duplicate[q]
      /\ ~Dispatching(r) /\ pc'[r] # "idle"
  BY DEF Handler, RejectUnverified, ReceiveMalformed, ReceiveValid, Quarantine, CloseWindow, Lock,
         CountDuplicate, MissWindow, InsertEvent, Respond, HandlerFails, GoTo, handlerVars,
         Dispatching, Shape, TypeOK, Processes
<1>2. CASE CountDuplicate(r)
  <2>1. PICK e \in Oldest(Matches(Fp(r), received_at[r])) :
            /\ events' = [events EXCEPT ![e].dedupe_count = @ + 1]
            /\ target' = [target EXCEPT ![r] = e]
    BY <1>2 DEF CountDuplicate
  <2>2. e \in EventIds /\ Admitted(e) /\ events[e].fp = Fp(r) /\ InWindow(e, received_at[r])
    BY <2>1 DEF Oldest, Matches, Open
  <2>3. events'[e].fp = events[e].fp /\ events'[e].received_at = events[e].received_at
    BY <2>2 DEF RowsKept, RowKept, Admitted
  <2>4. received_at[r] \in Nat /\ events[e].received_at \in Nat /\ Window \in Nat
    BY <2>2, ConstantsAssumption DEF Shape, TypeOK, Row
  <2>5. received_at[r] < events'[e].received_at + Window
    BY <2>2, <2>3, <2>4 DEF InWindow
  <2>6. /\ pc'[r] = "dispatch" /\ target'[r] = e /\ is_duplicate'[r]
        /\ received_at' = received_at /\ todo' = todo
    BY <1>2, <2>1 DEF CountDuplicate, GoTo, Shape, TypeOK, Processes
  <2> QED
    BY <1>1, <2>2, <2>3, <2>5, <2>6, AdmitKeepsAnswers
<1>3. CASE InsertEvent(r)
  <2>1. PICK e \in EventIds :
            /\ events[e].status = "absent"
            /\ events' = [events EXCEPT ![e] =
                  [NoRow EXCEPT !.status = "admitted", !.fp = Fp(r),
                                !.received_at = received_at[r], !.dedupe_count = 1]]
            /\ target' = [target EXCEPT ![r] = e]
    BY <1>3 DEF InsertEvent
  <2>2. events'[e].fp = Fp(r) /\ events'[e].received_at = received_at[r]
    BY <2>1 DEF NoRow, Shape, TypeOK
  <2>3. received_at[r] < events'[e].received_at + Window
    BY <2>2, ConstantsAssumption DEF Shape, TypeOK
  <2>4. pc'[r] = "dispatch" /\ target'[r] = e /\ received_at' = received_at /\ todo' = todo
    BY <1>3, <2>1 DEF InsertEvent, GoTo, Shape, TypeOK, Processes
  <2> QED
    BY <1>1, <2>1, <2>2, <2>3, <2>4, AdmitKeepsAnswers
<1>4. CASE ~CountDuplicate(r) /\ ~InsertEvent(r)
  <2>1. ~Dispatching(r)'
    BY <1>4 DEF Handler, RejectUnverified, ReceiveMalformed, ReceiveValid, Quarantine, CloseWindow,
           Lock, MissWindow, Respond, HandlerFails, GoTo, Dispatching, Shape, TypeOK, Processes
  <2>2. received_at'[r] = received_at[r] \/ results[r] = <<>>
    <3>1. CASE pc[r] = "idle"
      BY <3>1 DEF AnswerInv, IdleUnanswered
    <3>2. CASE pc[r] # "idle"
      BY <1>4, <3>2 DEF Handler, RejectUnverified, ReceiveMalformed, ReceiveValid, Quarantine,
             CloseWindow, Lock, MissWindow, Respond, HandlerFails, GoTo, handlerVars
    <3> QED
      BY <3>1, <3>2
  <2>3. \A q \in Requests : Dispatching(q)' => q # r /\ Dispatching(q)
    BY <1>1, <2>1 DEF Dispatching
  <2> QED
    BY <1>1, <2>2, <2>3, SameStreamGrows, AnswerQuiet
<1> QED
  BY <1>2, <1>3, <1>4

\* The outbox answers nobody.
LEMMA OutboxLeaves ==
    ASSUME Shape, (\E m : Return(Outbox, m)) \/ Abort(Outbox)
    PROVE  /\ results' = results /\ todo' = todo
           /\ \A r \in Requests : pc'[r] = pc[r] /\ target'[r] = target[r]
BY ConstantsAssumption DEF Return, Abort, Shape, TypeOK, Processes

LEMMA DispatchKeepsAnswers ==
    ASSUME Shape, ReceiptInv, AnswerInv, RowsKept, NEW p \in Processes, Dispatch(p)
    PROVE  AnswerInv'
<1>1. received_at' = received_at /\ is_duplicate' = is_duplicate /\ Dispatching(p)
  BY DEF Dispatch, AlreadyQueued, LockRow, Publish, MarkQueued, DispatchFails, ReplyLost,
         ReceiptLost, GoTo, handlerVars, Dispatching
<1>2. target[p] \in EventIds /\ stream \in Seq(EventIds)
  BY <1>1 DEF Dispatching, Shape, TypeOK, TargetShape
<1>3. StreamGrows
  <2>1. stream' = stream \/ stream' = Append(stream, target[p])
    BY DEF Dispatch, AlreadyQueued, LockRow, Publish, MarkQueued, DispatchFails, ReplyLost, ReceiptLost
  <2> QED
    BY <1>2, <2>1, AppendGrows, SameStreamGrows
<1>4. CASE LockRow(p) \/ Publish(p)
  <2>1. results' = results /\ todo' = todo /\ target' = target
    BY <1>4 DEF LockRow, Publish, handlerVars
  <2>2. \A r \in Requests : /\ Dispatching(r)' => Dispatching(r)
                            /\ pc'[r] = "idle" => pc[r] = "idle"
    BY <1>4 DEF LockRow, Publish, GoTo, Dispatching, Shape, TypeOK, Processes
  <2> QED
    BY <1>1, <1>3, <2>1, <2>2, AnswerQuiet
<1>5. CASE p = Outbox /\ ((\E m : Return(p, m)) \/ Abort(p))
  <2>1. /\ results' = results /\ todo' = todo
        /\ \A r \in Requests : pc'[r] = pc[r] /\ target'[r] = target[r]
    BY <1>5, OutboxLeaves
  <2>2. \A r \in Requests : Dispatching(r)' => Dispatching(r)
    BY <2>1 DEF Dispatching
  <2> QED
    BY <1>1, <1>3, <2>1, <2>2, AnswerQuiet
<1>6. ASSUME p \in Requests, NEW m, Return(p, m), m # 0 => m \in DOMAIN stream /\ stream[m] = target[p]
      PROVE  AnswerInv'
  BY <1>1, <1>3, <1>6, ReturnKeepsAnswers DEF StreamGrows
<1>7. CASE AlreadyQueued(p)
  <2> DEFINE m == events[target[p]].queue_message_id
  <2>1. Return(p, m)
    BY <1>7 DEF AlreadyQueued
  <2>2. m # 0 => m \in DOMAIN stream /\ stream[m] = target[p]
    BY <1>2 DEF ReceiptInv, ReceiptNamesEvent
  <2> QED
    BY <1>5, <1>6, <2>1, <2>2 DEF Processes
<1>8. CASE MarkQueued(p)
  <2>1. Return(p, message_id[p])
    BY <1>8 DEF MarkQueued
  <2>2. message_id[p] \in DOMAIN stream /\ stream[message_id[p]] = target[p]
    BY <1>8 DEF MarkQueued, ReceiptInv, HeldReceipts
  <2> QED
    BY <1>5, <1>6, <2>1, <2>2 DEF Processes
<1>9. CASE DispatchFails(p) \/ ReplyLost(p) \/ ReceiptLost(p)
  <2>1. Abort(p)
    BY <1>9 DEF DispatchFails, ReplyLost, ReceiptLost
  <2>2. p # Outbox => p \in Requests /\ Return(p, 0)
    BY <2>1 DEF Abort, Processes
  <2> QED
    BY <1>5, <1>6, <2>1, <2>2
<1> QED
  BY <1>4, <1>7, <1>8, <1>9 DEF Dispatch

LEMMA NextKeepsAnswers == Shape /\ ReceiptInv /\ AnswerInv /\ [Next]_vars => AnswerInv'
<1> SUFFICES ASSUME Shape, ReceiptInv, AnswerInv, [Next]_vars PROVE AnswerInv'
  OBVIOUS
<1>1. RowsKept
  BY StepKeepsRows DEF RowsKept, RowKept, Shape, TypeOK, Row
<1>2. CASE \E r \in Requests : Handler(r)
  BY <1>1, <1>2, HandlerKeepsAnswers
<1>3. CASE \E p \in Processes : Dispatch(p)
  BY <1>1, <1>3, DispatchKeepsAnswers
<1>4. CASE Scan \/ Visit \/ EndPass \/ Tick \/ Crash \/ Restart \/ Asleep \/ UNCHANGED vars
  <2>1. /\ stream' = stream /\ results' = results /\ todo' = todo
        /\ received_at' = received_at /\ is_duplicate' = is_duplicate
    BY <1>4 DEF Scan, Visit, EndPass, Tick, Crash, Restart, Asleep, vars, handlerVars
  <2>2. \A r \in Requests : /\ pc'[r] \in {pc[r], "failed"}
                            /\ target'[r] = target[r]
    BY <1>4, ConstantsAssumption DEF Scan, Visit, EndPass, Tick, Crash, Restart, Asleep, vars, GoTo,
                                     Shape, TypeOK, Processes
  <2>3. \A r \in Requests : /\ Dispatching(r)' => Dispatching(r)
                            /\ pc'[r] = "idle" => pc[r] = "idle"
    BY <2>2 DEF Dispatching
  <2> QED
    BY <1>1, <2>1, <2>2, <2>3, SameStreamGrows, AnswerQuiet
<1> QED
  BY <1>2, <1>3, <1>4 DEF Next

LEMMA InitAnswers == Init => ReceiptInv /\ AnswerInv
<1> SUFFICES ASSUME Init PROVE ReceiptInv /\ AnswerInv
  OBVIOUS
<1>1. /\ \A p \in Processes : ~Dispatching(p)
      /\ \A r \in Requests : results[r] = <<>>
  BY DEF Init, Dispatching, Processes
<1>2. AnswerInv
  BY <1>1 DEF AnswerInv, EachTruthful, NewOnce, DispatchSound, NewPending, IdleUnanswered, Processes
<1>3. ReceiptInv
  BY DEF Init, ReceiptInv, ReceiptNamesEvent, HeldReceipts, NoRow, Processes
<1> QED
  BY <1>2, <1>3

\* Every answer of every handler is and stays true, whatever other deliveries,
\* the outbox, lost replies and crashes do meanwhile: the row it names holds
\* its alert, the message it names carries that row's event, and no two alerts
\* are told that they opened the same row.
THEOREM AnswersCorrect == Spec => []ResponsesTruthful
BY InitAnswers, AnswersAreTruthful, ShapeAlways, NextKeepsReceipts, NextKeepsAnswers, PTL DEF Spec

-----------------------------------------------------------------------------
(* Counting.  An admission counts its alert in the row and makes the row the  *)
(* handler's target in one transaction; the answer takes the place of the     *)
(* target.  A handler that crashes while it dispatches keeps its target, so   *)
(* its alert, which nobody answers, is not forgotten.                         *)

Targets(e) == {r \in Requests : target[r] = e}

CountInv ==
    /\ DedupeCountExact
    /\ \A e \in EventIds : IsFiniteSet(Answers(e)) /\ IsFiniteSet(Targets(e))
    /\ \A r \in Requests : target[r] # NoEvent =>
          /\ target[r] \in EventIds /\ Admitted(target[r])
          /\ Dispatching(r) \/ pc[r] = "failed"

LEMMA AnswersMember ==
    ASSUME NEW e, NEW x
    PROVE  x \in Answers(e) <=>
              \E r \in Requests : \E i \in DOMAIN results[r] :
                  results[r][i].event_id = e /\ x = <<r, i>>
BY DEF Answers

\* Neither a count nor the two sets that it counts change.
LEMMA CountQuiet ==
    ASSUME Shape, CountInv, RowsKept, results' = results,
           \A e \in EventIds : Admitted(e)' =>
              Admitted(e) /\ events'[e].dedupe_count = events[e].dedupe_count,
           \A r \in Requests : target'[r] = target[r],
           \A r \in Requests : Dispatching(r) \/ pc[r] = "failed" => Dispatching(r)' \/ pc'[r] = "failed"
    PROVE  CountInv'
<1>1. ASSUME NEW e \in EventIds PROVE Answers(e)' = Answers(e) /\ Targets(e)' = Targets(e)
  BY DEF Answers, Targets
<1>2. DedupeCountExact'
  <2> SUFFICES ASSUME NEW e \in EventIds, Admitted(e)'
               PROVE  events'[e].dedupe_count = Cardinality(Answers(e))' + Cardinality(Targets(e))'
    BY DEF DedupeCountExact, Targets
  <2>1. events[e].dedupe_count = Cardinality(Answers(e)) + Cardinality(Targets(e))
    BY DEF CountInv, DedupeCountExact, Targets
  <2> QED
    BY <1>1, <2>1
<1>3. \A e \in EventIds : Admitted(e) => Admitted(e)'
  BY DEF RowsKept, RowKept, Admitted
<1> QED
  BY <1>1, <1>2, <1>3 DEF CountInv

\* One alert more in the count of e, and its handler dispatches e.
LEMMA AdmitKeepsCount ==
    ASSUME Shape, CountInv, RowsKept, results' = results, NEW r \in Requests, NEW e \in EventIds,
           ~Dispatching(r), pc[r] # "failed", pc'[r] = "dispatch", target'[r] = e,
           \A q \in Requests \ {r} : pc'[q] = pc[q] /\ target'[q] = target[q],
           \A f \in EventIds \ {e} : events'[f] = events[f],
           Admitted(e)',
           events'[e].dedupe_count = Cardinality(Answers(e)) + Cardinality(Targets(e)) + 1
    PROVE  CountInv'
<1>1. target[r] = NoEvent
  BY DEF CountInv
<1>2. \A f \in EventIds : Answers(f)' = Answers(f)
  BY DEF Answers
<1>3. Targets(e)' = Targets(e) \cup {r} /\ r \notin Targets(e)
  BY <1>1, ConstantsAssumption DEF Targets
<1>4. \A f \in EventIds \ {e} : Targets(f)' = Targets(f)
  BY <1>1, ConstantsAssumption DEF Targets
<1>5. IsFiniteSet(Targets(e)) /\ IsFiniteSet(Answers(e))
  BY DEF CountInv
<1>6. /\ IsFiniteSet(Targets(e)') /\ Cardinality(Targets(e)') = Cardinality(Targets(e)) + 1
      /\ Cardinality(Targets(e)) \in Nat /\ Cardinality(Answers(e)) \in Nat
  BY <1>3, <1>5, FS_AddElement, FS_CardinalityType
<1>7. DedupeCountExact'
  <2> SUFFICES ASSUME NEW f \in EventIds, Admitted(f)'
               PROVE  events'[f].dedupe_count = Cardinality(Answers(f)') + Cardinality(Targets(f)')
    BY DEF DedupeCountExact, Targets
  <2>1. CASE f = e
    BY <1>2, <1>6, <2>1
  <2>2. CASE f # e
    <3>1. Admitted(f)
      BY <2>2 DEF Admitted
    <3>2. events[f].dedupe_count = Cardinality(Answers(f)) + Cardinality(Targets(f))
      BY <3>1 DEF CountInv, DedupeCountExact, Targets
    <3> QED
      BY <1>2, <1>4, <2>2, <3>2
  <2> QED
    BY <2>1, <2>2
<1>8. \A f \in EventIds : IsFiniteSet(Answers(f)') /\ IsFiniteSet(Targets(f)')
  BY <1>2, <1>4, <1>6 DEF CountInv
<1>9. \A f \in EventIds : Admitted(f) => Admitted(f)'
  BY DEF RowsKept, RowKept, Admitted
<1>10. \A q \in Requests : target'[q] # NoEvent =>
          /\ target'[q] \in EventIds /\ Admitted(target[q])'
          /\ Dispatching(q)' \/ pc'[q] = "failed"
  BY <1>9 DEF CountInv, Dispatching
<1> QED
  BY <1>7, <1>8, <1>10 DEF CountInv

\* The answer takes the place of the target.
LEMMA ReturnKeepsCount ==
    ASSUME Shape, CountInv, RowsKept, NEW p \in Requests, NEW m, Dispatching(p), Return(p, m),
           \A e \in EventIds : Admitted(e)' =>
              Admitted(e) /\ events'[e].dedupe_count = events[e].dedupe_count
    PROVE  CountInv'
<1>0. PICK t \in EventIds : t = target[p]
  BY DEF Dispatching, Shape, TargetShape, Processes
<1>x. PICK x : x = <<p, NewPlace(p)>>
  OBVIOUS
<1>1. Admitted(t) /\ p # Outbox
  BY <1>0, ConstantsAssumption DEF Dispatching, Shape, TargetShape, Processes
<1>2. /\ target'[p] = NoEvent
      /\ \A q \in Requests \ {p} : pc'[q] = pc[q] /\ target'[q] = target[q]
  BY <1>1 DEF Return, Shape, TypeOK, Processes
<1>3. /\ \A q \in Requests : DOMAIN results'[q] =
            IF q = p THEN DOMAIN results[p] \cup {NewPlace(p)} ELSE DOMAIN results[q]
      /\ \A q \in Requests : \A j \in DOMAIN results[q] : results'[q][j] = results[q][j]
      /\ results'[p][NewPlace(p)] = NewAnswer(p, m)
      /\ NewPlace(p) \notin DOMAIN results[p]
  BY ReturnAppends
<1>4. NewAnswer(p, m).event_id = t
  BY <1>0 DEF NewAnswer
<1>5. ASSUME NEW e \in EventIds
      PROVE  Answers(e)' = IF e = t THEN Answers(e) \cup {x} ELSE Answers(e)
  <2>1. ASSUME NEW y
        PROVE  y \in Answers(e)' <=> \E r \in Requests : \E i \in DOMAIN results'[r] :
                  results'[r][i].event_id = e /\ y = <<r, i>>
    BY DEF Answers
  <2>2. ASSUME NEW y
        PROVE  y \in Answers(e)' <=> y \in Answers(e) \/ (e = t /\ y = x)
    BY <1>x, <1>3, <1>4, <2>1, AnswersMember
  <2> QED
    BY <2>2
<1>6. x \notin Answers(t)
  BY <1>x, <1>3, AnswersMember
<1>7. Targets(t)' = Targets(t) \ {p} /\ p \in Targets(t)
  BY <1>0, <1>2, ConstantsAssumption DEF Targets
<1>8. \A e \in EventIds \ {t} : Targets(e)' = Targets(e)
  BY <1>0, <1>2, ConstantsAssumption DEF Targets
<1>9. \A e \in EventIds : IsFiniteSet(Answers(e)) /\ IsFiniteSet(Targets(e))
  BY DEF CountInv
<1>10. /\ IsFiniteSet(Answers(t)') /\ Cardinality(Answers(t)') = Cardinality(Answers(t)) + 1
       /\ IsFiniteSet(Targets(t)') /\ Cardinality(Targets(t)') = Cardinality(Targets(t)) - 1
       /\ Cardinality(Targets(t)) \in Nat /\ Cardinality(Answers(t)) \in Nat
  BY <1>1, <1>5, <1>6, <1>7, <1>9, FS_AddElement, FS_RemoveElement, FS_CardinalityType
<1>11. DedupeCountExact'
  <2> SUFFICES ASSUME NEW e \in EventIds, Admitted(e)'
               PROVE  events'[e].dedupe_count = Cardinality(Answers(e)') + Cardinality(Targets(e)')
    BY DEF DedupeCountExact, Targets
  <2>1. events[e].dedupe_count = Cardinality(Answers(e)) + Cardinality(Targets(e))
    BY DEF CountInv, DedupeCountExact, Targets
  <2>2. CASE e = t
    BY <1>10, <2>1, <2>2
  <2>3. CASE e # t
    BY <1>5, <1>8, <2>1, <2>3
  <2> QED
    BY <2>2, <2>3
<1>12. \A e \in EventIds : IsFiniteSet(Answers(e)') /\ IsFiniteSet(Targets(e)')
  BY <1>5, <1>8, <1>9, <1>10
<1>13. \A e \in EventIds : Admitted(e) => Admitted(e)'
  BY DEF RowsKept, RowKept, Admitted
<1>14. \A q \in Requests : target'[q] # NoEvent =>
          /\ target'[q] \in EventIds /\ Admitted(target[q])'
          /\ Dispatching(q)' \/ pc'[q] = "failed"
  BY <1>2, <1>13 DEF CountInv, Dispatching
<1> QED
  BY <1>11, <1>12, <1>14 DEF CountInv

\* Only admit changes the count of an admitted row, or admits one.
CountsKept ==
    \A e \in EventIds : Admitted(e)' =>
        Admitted(e) /\ events'[e].dedupe_count = events[e].dedupe_count

LEMMA HandlerKeepsCounts ==
    ASSUME Shape, NEW r \in Requests, Handler(r), ~CountDuplicate(r), ~InsertEvent(r)
    PROVE  CountsKept
<1>1. CASE Quarantine(r)
  <2>1. PICK e \in EventIds : events' = [events EXCEPT ![e] =
                [NoRow EXCEPT !.status = "quarantined", !.received_at = received_at[r],
                              !.dedupe_count = 1]]
    BY <1>1 DEF Quarantine
  <2>2. events'[e].status = "quarantined" /\ \A f \in EventIds \ {e} : events'[f] = events[f]
    BY <2>1 DEF NoRow, Shape, TypeOK
  <2> QED
    BY <2>2 DEF CountsKept, Admitted
<1>2. CASE CloseWindow(r)
  <2> SUFFICES ASSUME NEW e \in EventIds
               PROVE  /\ events'[e].status = events[e].status
                      /\ events'[e].dedupe_count = events[e].dedupe_count
    BY DEF CountsKept, Admitted
  <2>1. events[e] \in Row
    BY DEF Shape, TypeOK
  <2>2. /\ [events[e] EXCEPT !.window_closed_at = received_at[r]].status = events[e].status
        /\ [events[e] EXCEPT !.window_closed_at = received_at[r]].dedupe_count = events[e].dedupe_count
    BY <2>1 DEF Row
  <2>3. events'[e] \in {events[e], [events[e] EXCEPT !.window_closed_at = received_at[r]]}
    BY <1>2 DEF CloseWindow
  <2> QED
    BY <2>2, <2>3
<1>3. CASE ~Quarantine(r) /\ ~CloseWindow(r)
  <2>1. events' = events
    BY <1>3 DEF Handler, RejectUnverified, ReceiveMalformed, ReceiveValid, Lock, MissWindow,
                Respond, HandlerFails
  <2> QED
    BY <2>1 DEF CountsKept, Admitted
<1> QED
  BY <1>1, <1>2, <1>3

LEMMA HandlerKeepsCount ==
    ASSUME Shape, AnswerInv, CountInv, RowsKept, NEW r \in Requests, Handler(r) PROVE CountInv'
<1>1. /\ results' = results
      /\ \A q \in Requests \ {r} : pc'[q] = pc[q] /\ target'[q] = target[q]
      /\ ~Dispatching(r) /\ pc[r] # "failed"
  BY DEF Handler, RejectUnverified, ReceiveMalformed, ReceiveValid, Quarantine, CloseWindow, Lock,
         CountDuplicate, MissWindow, InsertEvent, Respond, HandlerFails, GoTo, handlerVars,
         Dispatching, Shape, TypeOK, Processes
<1>2. CASE CountDuplicate(r)
  <2>1. PICK e \in Oldest(Matches(Fp(r), received_at[r])) :
            /\ events' = [events EXCEPT ![e].dedupe_count = @ + 1]
            /\ target' = [target EXCEPT ![r] = e]
    BY <1>2 DEF CountDuplicate
  <2>2. e \in EventIds /\ Admitted(e)
    BY <2>1 DEF Oldest, Matches, Open
  <2>3. events[e].dedupe_count = Cardinality(Answers(e)) + Cardinality(Targets(e))
    BY <2>2 DEF CountInv, DedupeCountExact, Targets
  <2>4. /\ events'[e].dedupe_count = events[e].dedupe_count + 1
        /\ \A f \in EventIds \ {e} : events'[f] = events[f]
    BY <2>1, <2>2 DEF Shape, TypeOK, Row
  <2>5. Admitted(e)'
    BY <2>2 DEF RowsKept, RowKept, Admitted
  <2>6. pc'[r] = "dispatch" /\ target'[r] = e
    BY <1>2, <2>1 DEF CountDuplicate, GoTo, Shape, TypeOK, Processes
  <2> QED
    BY <1>1, <2>2, <2>3, <2>4, <2>5, <2>6, AdmitKeepsCount
<1>3. CASE InsertEvent(r)
  <2>1. PICK e \in EventIds :
            /\ events[e].status = "absent"
            /\ events' = [events EXCEPT ![e] =
                  [NoRow EXCEPT !.status = "admitted", !.fp = Fp(r),
                                !.received_at = received_at[r], !.dedupe_count = 1]]
            /\ target' = [target EXCEPT ![r] = e]
    BY <1>3 DEF InsertEvent
  <2>2. /\ Admitted(e)' /\ events'[e].dedupe_count = 1
        /\ \A f \in EventIds \ {e} : events'[f] = events[f]
    BY <2>1 DEF NoRow, Shape, TypeOK, Admitted
  <2>3. ~Admitted(e)
    BY <2>1 DEF Admitted
  <2>4. Answers(e) = {}
    BY <2>3, AnswersMember DEF AnswerInv, EachTruthful, Truthful
  <2>5. Targets(e) = {}
    BY <2>3, ConstantsAssumption DEF CountInv, Targets
  <2>6. Cardinality(Answers(e)) + Cardinality(Targets(e)) + 1 = 1
    BY <2>4, <2>5, FS_EmptySet
  <2>7. pc'[r] = "dispatch" /\ target'[r] = e
    BY <1>3, <2>1 DEF InsertEvent, GoTo, Shape, TypeOK, Processes
  <2> QED
    BY <1>1, <2>2, <2>6, <2>7, AdmitKeepsCount
<1>4. CASE ~CountDuplicate(r) /\ ~InsertEvent(r)
  <2>1. CountsKept
    BY <1>4, HandlerKeepsCounts
  <2>2. target' = target
    BY <1>4 DEF Handler, RejectUnverified, ReceiveMalformed, ReceiveValid, Quarantine, CloseWindow,
                Lock, MissWindow, Respond, HandlerFails
  <2>3. \A q \in Requests : Dispatching(q) \/ pc[q] = "failed" => Dispatching(q)' \/ pc'[q] = "failed"
    BY <1>1 DEF Dispatching
  <2> QED
    BY <1>1, <2>1, <2>2, <2>3, CountQuiet DEF CountsKept
<1> QED
  BY <1>2, <1>3, <1>4

LEMMA DispatchKeepsCount ==
    ASSUME Shape, CountInv, RowsKept, NEW p \in Processes, Dispatch(p) PROVE CountInv'
<1>1. Dispatching(p)
  BY DEF Dispatch, AlreadyQueued, LockRow, Publish, MarkQueued, DispatchFails, ReplyLost,
         ReceiptLost, GoTo, Dispatching
<1>2. CountsKept
  <2> SUFFICES ASSUME NEW e \in EventIds
               PROVE  /\ events'[e].status = events[e].status
                      /\ events'[e].dedupe_count = events[e].dedupe_count
    BY DEF CountsKept, Admitted
  <2>1. target[p] \in EventIds /\ events[e] \in Row
    BY <1>1 DEF Dispatching, Shape, TypeOK, TargetShape
  <2>2. events'[e] = events[e]
          \/ events'[e] = [events[e] EXCEPT !.queue_message_id = message_id[p]]
    <3>1. CASE MarkQueued(p)
      BY <2>1, <3>1 DEF MarkQueued, Shape, TypeOK
    <3>2. CASE ~MarkQueued(p)
      BY <3>2 DEF Dispatch, AlreadyQueued, LockRow, Publish, DispatchFails, ReplyLost, ReceiptLost
    <3> QED
      BY <3>1, <3>2
  <2>3. /\ [events[e] EXCEPT !.queue_message_id = message_id[p]].status = events[e].status
        /\ [events[e] EXCEPT !.queue_message_id = message_id[p]].dedupe_count = events[e].dedupe_count
    BY <2>1 DEF Row
  <2> QED
    BY <2>2, <2>3
<1>3. CASE p \in Requests /\ \E m : Return(p, m)
  BY <1>1, <1>2, <1>3, ReturnKeepsCount DEF CountsKept
<1>4. CASE p = Outbox /\ ((\E m : Return(p, m)) \/ Abort(p))
  <2>1. results' = results /\ \A r \in Requests : pc'[r] = pc[r] /\ target'[r] = target[r]
    BY <1>4, OutboxLeaves
  <2> QED
    BY <1>2, <2>1, CountQuiet DEF CountsKept, Dispatching
<1>5. CASE LockRow(p) \/ Publish(p)
  <2>1. results' = results /\ target' = target
    BY <1>5 DEF LockRow, Publish, handlerVars
  <2>2. \A q \in Requests : Dispatching(q) \/ pc[q] = "failed" => Dispatching(q)' \/ pc'[q] = "failed"
    BY <1>5 DEF LockRow, Publish, GoTo, Dispatching, Shape, TypeOK, Processes
  <2> QED
    BY <1>2, <2>1, <2>2, CountQuiet DEF CountsKept
<1>6. \/ LockRow(p) \/ Publish(p)
      \/ \E m : Return(p, m)
      \/ p = Outbox /\ Abort(p)
  BY DEF Dispatch, AlreadyQueued, MarkQueued, DispatchFails, ReplyLost, ReceiptLost, Abort
<1> QED
  BY <1>3, <1>4, <1>5, <1>6 DEF Processes

LEMMA NextKeepsCount == Shape /\ AnswerInv /\ CountInv /\ [Next]_vars => CountInv'
<1> SUFFICES ASSUME Shape, AnswerInv, CountInv, [Next]_vars PROVE CountInv'
  OBVIOUS
<1>1. RowsKept
  BY StepKeepsRows DEF RowsKept, RowKept, Shape, TypeOK, Row
<1>2. CASE \E r \in Requests : Handler(r)
  BY <1>1, <1>2, HandlerKeepsCount
<1>3. CASE \E p \in Processes : Dispatch(p)
  BY <1>1, <1>3, DispatchKeepsCount
<1>4. CASE Scan \/ Visit \/ EndPass \/ Tick \/ Crash \/ Restart \/ Asleep \/ UNCHANGED vars
  <2>1. events' = events /\ results' = results
    BY <1>4 DEF Scan, Visit, EndPass, Tick, Crash, Restart, Asleep, vars, handlerVars
  <2>2. \A r \in Requests : /\ pc'[r] = pc[r] \/ (pc[r] # "idle" /\ pc'[r] = "failed")
                            /\ target'[r] = target[r]
    BY <1>4, ConstantsAssumption DEF Scan, Visit, EndPass, Tick, Crash, Restart, Asleep, vars, GoTo,
                                     Shape, TypeOK, Processes
  <2>3. \A q \in Requests : Dispatching(q) \/ pc[q] = "failed" => Dispatching(q)' \/ pc'[q] = "failed"
    BY <2>2 DEF Dispatching
  <2> QED
    BY <1>1, <2>1, <2>2, <2>3, CountQuiet DEF Admitted
<1> QED
  BY <1>2, <1>3, <1>4 DEF Next

\* A row's dedupe_count is the number of alerts answered with the row and of
\* those whose handlers are dispatching it or died there, for any number of
\* deliveries with any payloads: racing admissions lose and double no alert.
THEOREM CountsExact == Spec => []DedupeCountExact
<1>1. Init => CountInv
  <2> SUFFICES ASSUME Init PROVE CountInv
    OBVIOUS
  <2>1. /\ \A r \in Requests : target[r] = NoEvent /\ results[r] = <<>>
        /\ \A e \in EventIds : ~Admitted(e)
    BY DEF Init, Processes, Admitted, NoRow
  <2>2. ASSUME NEW e \in EventIds PROVE IsFiniteSet(Answers(e)) /\ IsFiniteSet(Targets(e))
    <3>1. Answers(e) = {} /\ Targets(e) = {}
      BY <2>1, AnswersMember, ConstantsAssumption DEF Targets
    <3> QED
      BY <3>1, FS_EmptySet
  <2> QED
    BY <2>1, <2>2 DEF CountInv, DedupeCountExact
<1>2. CountInv => DedupeCountExact
  BY DEF CountInv
<1> QED
  BY <1>1, <1>2, InitAnswers, ShapeAlways, NextKeepsReceipts, NextKeepsAnswers, NextKeepsCount,
     PTL DEF Spec
=============================================================================
