--------------------------- MODULE ReceiverProofs ---------------------------
(***************************************************************************)
(* Proofs about the Receiver, for every set of deliveries, event ids and   *)
(* fingerprints, every hash, window and bound.                             *)
(***************************************************************************)
EXTENDS Receiver, TLAPS

\* A leaf that names no prover is tried with Zenon, then with SMT.
USE ZenonT(5), SMTT(20)

\* What a handler knows at each of its statements.
HandlerShape ==
    \A r \in Requests :
        /\ pc[r] \in {"lookup", "insert", "dispatch", "xadd", "mark"} => todo[r] # <<>>
        /\ pc[r] \notin {"idle", "done", "failed"} => received_at[r] \in 1 .. MaxTime

\* A process that dispatches has an admitted row for target; so has the outbox
\* for each id of its pass.
TargetShape ==
    /\ \A p \in Processes : pc[p] \in {"dispatch", "xadd", "mark"} =>
          target[p] \in EventIds /\ Admitted(target[p])
    /\ \A e \in snapshot : Admitted(e)

Shape == TypeOK /\ now <= MaxTime /\ HandlerShape /\ TargetShape

-----------------------------------------------------------------------------
(* The type invariant *)

\* The column updates of admit, close_window and mark_queued keep a row a row.
LEMMA RowUpdates ==
    ASSUME NEW row \in Row, NEW n \in Nat
    PROVE  /\ [row EXCEPT !.dedupe_count = n] \in Row
           /\ [row EXCEPT !.window_closed_at = n] \in Row
           /\ [row EXCEPT !.queue_message_id = n] \in Row
BY DEF Row

\* An update of the count or of the receipt leaves the columns that decide
\* whether a window is open, and since when, as they are.
LEMMA WindowColumnsKept ==
    ASSUME Shape, NEW e \in EventIds, NEW n \in Nat,
           \/ events' = [events EXCEPT ![e] = [events[e] EXCEPT !.dedupe_count = n]]
           \/ events' = [events EXCEPT ![e] = [events[e] EXCEPT !.queue_message_id = n]]
    PROVE  \A f \in EventIds : /\ events'[f].status = events[f].status
                               /\ events'[f].fp = events[f].fp
                               /\ events'[f].received_at = events[f].received_at
                               /\ events'[f].window_closed_at = events[f].window_closed_at
<1> DEFINE row == events[e]
<1>1. row \in Row
  BY DEF Shape, TypeOK
<1>2. \A g \in {[row EXCEPT !.dedupe_count = n], [row EXCEPT !.queue_message_id = n]} :
        /\ g.status = row.status /\ g.fp = row.fp
        /\ g.received_at = row.received_at /\ g.window_closed_at = row.window_closed_at
  BY <1>1 DEF Row
<1>3. events'[e] \in {[row EXCEPT !.dedupe_count = n], [row EXCEPT !.queue_message_id = n]}
  BY DEF Shape, TypeOK
<1>4. \A f \in EventIds \ {e} : events'[f] = events[f]
  BY DEF Shape, TypeOK
<1> QED
  BY <1>2, <1>3, <1>4, ZenonT(30)

LEMMA InitShape == Init => Shape
<1> SUFFICES ASSUME Init PROVE Shape
  OBVIOUS
<1> USE ConstantsAssumption DEF Init, Processes
<1>1. TypeOK
  BY DEF TypeOK, Row, NoRow, HandlerPc, OutboxPc
<1>2. HandlerShape /\ TargetShape
  BY DEF HandlerShape, TargetShape
<1> QED
  BY <1>1, <1>2 DEF Shape

\* A handler past `Lock` works on an alert with a fingerprint.
LEMMA HeadHasFp ==
    ASSUME Shape, NEW r \in Requests,
           pc[r] \in {"lookup", "insert", "dispatch", "xadd", "mark"}
    PROVE  Fp(r) \in Fingerprints
<1>1. todo[r] \in Seq(Alert) /\ todo[r] # <<>>
  BY DEF Shape, TypeOK, HandlerShape
<1>2. Head(todo[r]) \in Alert
  BY <1>1
<1> QED
  BY <1>2 DEF Fp, Alert

\* The statements of a handler outside dispatch_event keep the shape.
LEMMA HandlerKeepsShape ==
    ASSUME Shape, NEW r \in Requests, Handler(r) PROVE Shape'
<1> USE ConstantsAssumption DEF Shape, Processes
<1>1. CASE RejectUnverified(r)
  BY <1>1 DEF RejectUnverified, GoTo, handlerVars, TypeOK, HandlerPc, HandlerShape, TargetShape, Admitted
<1>2. CASE ReceiveMalformed(r)
  BY <1>2 DEF ReceiveMalformed, GoTo, TypeOK, HandlerPc, HandlerShape, TargetShape, Admitted
<1>3. CASE ReceiveValid(r)
  BY <1>3 DEF ReceiveValid, GoTo, TypeOK, HandlerPc, HandlerShape, TargetShape, Admitted
<1>4. CASE Quarantine(r)
  <2>1. PICK e \in EventIds :
          /\ events[e].status = "absent"
          /\ events' = [events EXCEPT ![e] =
                [NoRow EXCEPT !.status = "quarantined", !.received_at = received_at[r],
                              !.dedupe_count = 1]]
    BY <1>4, ZenonT(30) DEF Quarantine
  <2>2. events' \in [EventIds -> Row]
    BY <2>1, ZenonT(30) DEF TypeOK, Row, NoRow
  <2>3. \A f \in EventIds : Admitted(f) => Admitted(f)'
    BY <2>1 DEF TypeOK, Admitted
  <2>4. TypeOK' /\ HandlerShape'
    BY <1>4, <2>2 DEF Quarantine, GoTo, handlerVars, TypeOK, HandlerPc, HandlerShape
  <2>5. TargetShape'
    BY <1>4, <2>3 DEF Quarantine, GoTo, TypeOK, HandlerPc, TargetShape
  <2> QED
    BY <1>4, <2>4, <2>5 DEF Quarantine
<1>5. CASE CloseWindow(r)
  <2>1. events' \in [EventIds -> Row]
    BY <1>5, RowUpdates, ZenonT(30) DEF CloseWindow, TypeOK
  <2>2. \A f \in EventIds : Admitted(f) => Admitted(f)'
    BY <1>5 DEF CloseWindow, TypeOK, Row, Admitted
  <2>3. todo' \in [Requests -> Seq(Alert)]
    BY <1>5 DEF CloseWindow, TypeOK
  <2>4. TypeOK' /\ HandlerShape'
    BY <1>5, <2>1, <2>3, ZenonT(30) DEF CloseWindow, TypeOK, HandlerShape
  <2>5. TargetShape'
    BY <1>5, <2>2 DEF CloseWindow, TypeOK, TargetShape
  <2> QED
    BY <1>5, <2>4, <2>5 DEF CloseWindow
<1>6. CASE Lock(r)
  BY <1>6, ZenonT(30) DEF Lock, GoTo, handlerVars, TypeOK, HandlerPc, HandlerShape, TargetShape, Admitted
<1>7. CASE CountDuplicate(r)
  <2>1. PICK e \in EventIds :
          /\ Admitted(e)
          /\ events' = [events EXCEPT ![e].dedupe_count = @ + 1]
          /\ target' = [target EXCEPT ![r] = e]
    BY <1>7, ZenonT(30) DEF CountDuplicate, Oldest, Matches, Open
  <2>2. events' \in [EventIds -> Row]
    <3>1. events' = [events EXCEPT ![e] = [events[e] EXCEPT !.dedupe_count = events[e].dedupe_count + 1]]
      BY <2>1
    <3>2. events[e].dedupe_count + 1 \in Nat
      BY DEF TypeOK, Row
    <3> QED
      BY <3>1, <3>2, RowUpdates, ZenonT(30) DEF TypeOK
  <2>3. \A f \in EventIds : Admitted(f) => Admitted(f)'
    BY <2>1 DEF TypeOK, Row, Admitted
  <2>4. TypeOK' /\ HandlerShape'
    BY <1>7, <2>1, <2>2, ZenonT(30) DEF CountDuplicate, GoTo, TypeOK, HandlerPc, HandlerShape
  <2>5. TargetShape'
    BY <1>7, <2>1, <2>3 DEF CountDuplicate, GoTo, TypeOK, HandlerPc, TargetShape
  <2> QED
    BY <1>7, <2>4, <2>5 DEF CountDuplicate
<1>8. CASE MissWindow(r)
  BY <1>8 DEF MissWindow, GoTo, handlerVars, TypeOK, HandlerPc, HandlerShape, TargetShape, Admitted
<1>9. CASE InsertEvent(r)
  <2>1. PICK e \in EventIds :
          /\ events[e].status = "absent"
          /\ events' = [events EXCEPT ![e] =
                [NoRow EXCEPT !.status = "admitted", !.fp = Fp(r),
                              !.received_at = received_at[r], !.dedupe_count = 1]]
          /\ target' = [target EXCEPT ![r] = e]
    BY <1>9, ZenonT(30) DEF InsertEvent
  <2>2. Fp(r) \in Fingerprints
    BY <1>9, HeadHasFp DEF InsertEvent, GoTo
  <2>3. events' \in [EventIds -> Row]
    BY <2>1, <2>2, ZenonT(30) DEF TypeOK, Row, NoRow
  <2>4. Admitted(e)' /\ \A f \in EventIds : Admitted(f) => Admitted(f)'
    BY <2>1 DEF TypeOK, Row, NoRow, Admitted
  <2>5. TypeOK' /\ HandlerShape'
    BY <1>9, <2>1, <2>3, ZenonT(30) DEF InsertEvent, GoTo, TypeOK, HandlerPc, HandlerShape
  <2>6. TargetShape'
    BY <1>9, <2>1, <2>4 DEF InsertEvent, GoTo, TypeOK, HandlerPc, TargetShape
  <2> QED
    BY <1>9, <2>5, <2>6 DEF InsertEvent
<1>10. CASE Respond(r)
  BY <1>10 DEF Respond, GoTo, handlerVars, TypeOK, HandlerPc, HandlerShape, TargetShape, Admitted
<1>11. CASE HandlerFails(r)
  BY <1>11 DEF HandlerFails, handlerVars, TypeOK, HandlerPc, HandlerShape, TargetShape, Admitted
<1> QED
  BY <1>1, <1>2, <1>3, <1>4, <1>5, <1>6, <1>7, <1>8, <1>9, <1>10, <1>11 DEF Handler

\* Coming back from dispatch_event, whatever it returns.
LEMMA ReturnKeepsShape ==
    ASSUME Shape, NEW p \in Processes, NEW m \in Nat,
           pc[p] \in {"dispatch", "xadd", "mark"}, Return(p, m),
           events' \in [EventIds -> Row], stream' \in Seq(EventIds),
           \A e \in EventIds : Admitted(e) => Admitted(e)',
           faults' \in Nat, UNCHANGED <<now, received_at, is_duplicate, crashes>>
    PROVE  Shape'
<1> USE ConstantsAssumption DEF Shape, Processes
<1>1. CASE p = Outbox
  <2>1. TypeOK' /\ HandlerShape'
    BY <1>1, ZenonT(30) DEF Return, TypeOK, OutboxPc, HandlerShape
  <2>2. TargetShape'
    BY <1>1 DEF Return, TypeOK, OutboxPc, TargetShape
  <2> QED
    BY <2>1, <2>2
<1>2. CASE p # Outbox
  <2>1. p \in Requests /\ target[p] \in EventIds /\ Fp(p) \in Fingerprints
    BY <1>2, HeadHasFp DEF TargetShape
  <2> DEFINE answer == [event_id |-> target[p], fp |-> Fp(p),
                        is_duplicate |-> is_duplicate[p], message_id |-> m]
  <2>2. answer \in Result
    BY <2>1 DEF TypeOK, Result
  <2>3. results' \in [Requests -> Seq(Result)]
    <3>1. results' = [results EXCEPT ![p] = Append(results[p], answer)]
      BY <1>2 DEF Return
    <3> HIDE DEF answer
    <3>2. results[p] \in Seq(Result) /\ Append(results[p], answer) \in Seq(Result)
      BY <2>1, <2>2 DEF TypeOK
    <3> QED
      BY <2>1, <3>1, <3>2 DEF TypeOK
  <2>4. Tail(todo[p]) \in Seq(Alert)
    BY <2>1 DEF TypeOK, HandlerShape
  <2>5. todo' \in [Requests -> Seq(Alert)]
    BY <1>2, <2>1, <2>4, ZenonT(30) DEF Return, TypeOK
  <2>6. TypeOK'
    <3>1. pc' = [pc EXCEPT ![p] = "next"]
      BY <1>2 DEF Return
    <3>2. /\ pc' \in [Processes -> HandlerPc \cup OutboxPc]
          /\ pc'[Outbox] \in OutboxPc
          /\ \A r \in Requests : pc'[r] \in HandlerPc
      BY <1>2, <2>1, <3>1 DEF TypeOK, HandlerPc
    <3>3. /\ target' \in [Processes -> EventIds \cup {NoEvent}]
          /\ message_id' \in [Processes -> Nat]
          /\ snapshot' = snapshot
      BY <1>2 DEF Return, TypeOK
    <3> QED
      BY <2>3, <2>5, <3>2, <3>3, ZenonT(30) DEF TypeOK
  <2>7. HandlerShape'
    BY <1>2, <2>1 DEF Return, TypeOK, HandlerPc, HandlerShape
  <2>8. TargetShape'
    BY <1>2, <2>1 DEF Return, TypeOK, HandlerPc, TargetShape
  <2> QED
    BY <2>6, <2>7, <2>8
<1> QED
  BY <1>1, <1>2

\* The same when dispatch_event raises.
LEMMA AbortKeepsShape ==
    ASSUME Shape, NEW p \in Processes,
           pc[p] \in {"dispatch", "xadd", "mark"}, Abort(p),
           stream' \in Seq(EventIds), faults' \in Nat,
           UNCHANGED <<now, events, received_at, is_duplicate, crashes>>
    PROVE  Shape'
<1> USE ConstantsAssumption DEF Shape, Processes
<1>1. CASE p = Outbox
  <2>1. TypeOK'
    <3>1. /\ pc' = [pc EXCEPT ![Outbox] = "scan"]
          /\ target' = [target EXCEPT ![Outbox] = NoEvent]
          /\ message_id' = [message_id EXCEPT ![Outbox] = 0]
          /\ snapshot' = {} /\ todo' = todo /\ results' = results
      BY <1>1 DEF Abort
    <3>2. /\ pc' \in [Processes -> HandlerPc \cup OutboxPc]
          /\ pc'[Outbox] \in OutboxPc
          /\ \A r \in Requests : pc'[r] \in HandlerPc
      BY <3>1 DEF TypeOK, OutboxPc
    <3> QED
      BY <3>1, <3>2 DEF TypeOK
  <2>2. HandlerShape'
    BY <1>1 DEF Abort, TypeOK, OutboxPc, HandlerShape
  <2>3. TargetShape'
    BY <1>1 DEF Abort, TypeOK, OutboxPc, TargetShape, Admitted
  <2> QED
    BY <2>1, <2>2, <2>3
<1>2. CASE p # Outbox
  <2>1. Return(p, 0)
    BY <1>2 DEF Abort
  <2>2. events' \in [EventIds -> Row] /\ \A e \in EventIds : Admitted(e) => Admitted(e)'
    BY DEF TypeOK, Admitted
  <2> QED
    BY <2>1, <2>2, ReturnKeepsShape
<1> QED
  BY <1>1, <1>2

LEMMA DispatchKeepsShape ==
    ASSUME Shape, NEW p \in Processes, Dispatch(p) PROVE Shape'
<1> USE ConstantsAssumption DEF Shape, Processes
<1>1. CASE AlreadyQueued(p)
  <2>1. target[p] \in EventIds /\ events[target[p]].queue_message_id \in Nat
    BY <1>1 DEF AlreadyQueued, TargetShape, TypeOK, Row
  <2>2. UNCHANGED <<now, events, stream, received_at, is_duplicate, faults, crashes>>
    BY <1>1 DEF AlreadyQueued
  <2>3. \A e \in EventIds : Admitted(e) => Admitted(e)'
    BY <2>2 DEF Admitted
  <2> QED
    BY <1>1, <2>1, <2>2, <2>3, ReturnKeepsShape, ZenonT(30) DEF AlreadyQueued, TypeOK
<1>2. CASE LockRow(p)
  BY <1>2, ZenonT(30) DEF LockRow, GoTo, handlerVars, TypeOK, HandlerPc, OutboxPc, HandlerShape, TargetShape, Admitted
<1>3. CASE Publish(p)
  <2>1. stream' \in Seq(EventIds) /\ Len(stream) + 1 \in Nat
    BY <1>3 DEF Publish, GoTo, TypeOK, TargetShape
  <2>2. TypeOK'
    BY <1>3, <2>1 DEF Publish, GoTo, handlerVars, TypeOK, HandlerPc, OutboxPc
  <2>3. HandlerShape' /\ TargetShape'
    BY <1>3 DEF Publish, GoTo, handlerVars, TypeOK, HandlerPc, OutboxPc, HandlerShape, TargetShape, Admitted
  <2> QED
    BY <1>3, <2>2, <2>3 DEF Publish
<1>4. CASE MarkQueued(p)
  <2>1. target[p] \in EventIds /\ message_id[p] \in Nat
    BY <1>4 DEF MarkQueued, TargetShape, TypeOK
  <2>2. events' \in [EventIds -> Row] /\ \A e \in EventIds : Admitted(e) => Admitted(e)'
    <3>1. CASE events' = events
      BY <3>1 DEF TypeOK, Admitted
    <3>2. CASE events' = [events EXCEPT ![target[p]] =
                            [events[target[p]] EXCEPT !.queue_message_id = message_id[p]]]
      <4>1. [events[target[p]] EXCEPT !.queue_message_id = message_id[p]] \in Row
        BY <2>1, RowUpdates, ZenonT(30) DEF TypeOK
      <4>2. [events[target[p]] EXCEPT !.queue_message_id = message_id[p]].status
              = events[target[p]].status
        BY <2>1 DEF TypeOK, Row
      <4> QED
        BY <2>1, <3>2, <4>1, <4>2 DEF TypeOK, Admitted
    <3> QED
      BY <1>4, <3>1, <3>2 DEF MarkQueued
  <2> QED
    BY <1>4, <2>1, <2>2, ReturnKeepsShape, ZenonT(30) DEF MarkQueued, TypeOK
<1>5. CASE DispatchFails(p)
  BY <1>5, AbortKeepsShape DEF DispatchFails, TypeOK
<1>6. CASE ReplyLost(p)
  <2>1. stream' \in Seq(EventIds) /\ faults' \in Nat
    BY <1>6 DEF ReplyLost, TypeOK, TargetShape
  <2> QED
    BY <1>6, <2>1, AbortKeepsShape DEF ReplyLost
<1>7. CASE ReceiptLost(p)
  <2>1. stream' \in Seq(EventIds) /\ faults' \in Nat
    BY <1>7 DEF ReceiptLost, TypeOK
  <2> QED
    BY <1>7, <2>1, AbortKeepsShape DEF ReceiptLost
<1> QED
  BY <1>1, <1>2, <1>3, <1>4, <1>5, <1>6, <1>7 DEF Dispatch

LEMMA NextKeepsShape == Shape /\ [Next]_vars => Shape'
<1> SUFFICES ASSUME Shape, [Next]_vars PROVE Shape'
  OBVIOUS
<1> USE ConstantsAssumption DEF Shape, Processes
<1>1. CASE \E r \in Requests : Handler(r)
  BY <1>1, HandlerKeepsShape
<1>2. CASE \E p \in Processes : Dispatch(p)
  BY <1>2, DispatchKeepsShape
<1>3. CASE Scan
  <2>1. \A e \in snapshot' : e \in EventIds /\ Admitted(e)
    BY <1>3 DEF Scan, Batches, Pending
  <2> QED
    BY <1>3, <2>1 DEF Scan, GoTo, handlerVars, TypeOK, OutboxPc, HandlerShape, TargetShape, Admitted
<1>4. CASE Visit
  <2>1. PICK e \in snapshot : target' = [target EXCEPT ![Outbox] = e]
    BY <1>4, ZenonT(30) DEF Visit, Oldest
  <2> QED
    BY <1>4, <2>1 DEF Visit, GoTo, handlerVars, TypeOK, OutboxPc, HandlerShape, TargetShape, Admitted
<1>5. CASE EndPass \/ Restart
  BY <1>5, ZenonT(30) DEF EndPass, Restart, GoTo, handlerVars, TypeOK, OutboxPc, HandlerShape, TargetShape, Admitted
<1>6. CASE Tick
  BY <1>6 DEF Tick, handlerVars, TypeOK, HandlerShape, TargetShape, Admitted
<1>7. CASE Crash
  BY <1>7 DEF Crash, handlerVars, TypeOK, OutboxPc, HandlerPc, HandlerShape, TargetShape, Admitted
<1>8. CASE UNCHANGED vars
  BY <1>8 DEF vars, handlerVars, TypeOK, HandlerShape, TargetShape, Admitted
<1> QED
  BY <1>1, <1>2, <1>3, <1>4, <1>5, <1>6, <1>7, <1>8 DEF Next, Asleep

LEMMA ShapeAlways == Spec => []Shape
BY InitShape, NextKeepsShape, PTL DEF Spec

\* The type invariant of the Receiver holds for every value of its constants.
THEOREM TypeCorrect == Spec => []TypeOK
<1>1. Shape => TypeOK
  BY DEF Shape
<1> QED
  BY <1>1, ShapeAlways, PTL

-----------------------------------------------------------------------------
(* No incident is split: OneOpenWindow.  It is not inductive by itself: what   *)
(* a handler saw in `MissWindow` must still be so in `InsertEvent`, and that   *)
(* rests on the advisory lock.                                                 *)

\* Two handlers inside admit hold different advisory keys.
LockExclusive ==
    \A q, r \in Requests : q # r /\ AdvisoryHeld(q) /\ AdvisoryHeld(r) =>
        LockKey[Fp(q)] # LockKey[Fp(r)]

\* What the SELECT did not find is still not there at the INSERT.
MissStands ==
    \A r \in Requests : pc[r] = "insert" =>
        \A e \in EventIds : Open(e, Fp(r)) =>
            events[e].received_at + Window <= received_at[r]

AdmissionInv == LockExclusive /\ MissStands /\ OneOpenWindow

\* No row comes to be open, and none moves in time.
NothingOpened ==
    \A e \in EventIds : \A fp \in Fingerprints : Open(e, fp)' =>
        Open(e, fp) /\ events'[e].received_at = events[e].received_at

\* A step that opens nothing and puts no handler into admit.
LEMMA QuietStep ==
    ASSUME Shape, AdmissionInv, Shape', NothingOpened,
           \A r \in Requests : AdvisoryHeld(r)' =>
              /\ pc[r] = pc'[r]
              /\ todo'[r] = todo[r]
              /\ received_at'[r] = received_at[r]
    PROVE  AdmissionInv'
<1>1. LockExclusive'
  BY DEF AdmissionInv, LockExclusive, AdvisoryHeld, Fp
<1>2. MissStands'
  <2> SUFFICES ASSUME NEW r \in Requests, pc'[r] = "insert", NEW e \in EventIds, Open(e, Fp(r))'
               PROVE  events'[e].received_at + Window <= received_at'[r]
    BY DEF MissStands
  <2>1. pc[r] = "insert" /\ Fp(r)' = Fp(r) /\ received_at'[r] = received_at[r]
    BY DEF AdvisoryHeld, Fp
  <2>2. Fp(r) \in Fingerprints
    BY <2>1, HeadHasFp
  <2>3. Open(e, Fp(r)) /\ events'[e].received_at = events[e].received_at
    BY <2>1, <2>2 DEF NothingOpened, Open
  <2> QED
    BY <2>1, <2>3 DEF AdmissionInv, MissStands
<1>3. OneOpenWindow'
  BY DEF AdmissionInv, OneOpenWindow, NothingOpened
<1> QED
  BY <1>1, <1>2, <1>3 DEF AdmissionInv

LEMMA NothingOpenedIfSame ==
    ASSUME events' = events PROVE NothingOpened
BY DEF NothingOpened, Open, Admitted

\* The statement that takes the advisory lock.
LEMMA LockKeepsAdmission ==
    ASSUME Shape, AdmissionInv, NEW r \in Requests, Lock(r) PROVE AdmissionInv'
<1> USE DEF Lock, GoTo, handlerVars
<1>1. /\ \A q \in Requests \ {r} : pc'[q] = pc[q]
      /\ pc'[r] = "lookup" /\ pc[r] = "next"
      /\ events' = events /\ todo' = todo /\ received_at' = received_at
  BY DEF Shape, TypeOK, Processes
<1>2. LockExclusive'
  BY <1>1 DEF AdmissionInv, LockExclusive, AdvisoryHeld, AdvisoryFree, Fp
<1>3. MissStands'
  BY <1>1 DEF AdmissionInv, MissStands, Open, Admitted, Fp
<1>4. OneOpenWindow'
  BY <1>1 DEF AdmissionInv, OneOpenWindow, Open, Admitted
<1> QED
  BY <1>2, <1>3, <1>4 DEF AdmissionInv

\* The SELECT that finds no open row in the window.
LEMMA MissKeepsAdmission ==
    ASSUME Shape, AdmissionInv, NEW r \in Requests, MissWindow(r) PROVE AdmissionInv'
<1> USE DEF MissWindow, GoTo, handlerVars
<1>1. /\ \A q \in Requests \ {r} : pc'[q] = pc[q]
      /\ pc'[r] = "insert" /\ pc[r] = "lookup"
      /\ events' = events /\ todo' = todo /\ received_at' = received_at
  BY DEF Shape, TypeOK, Processes
<1>2. LockExclusive'
  BY <1>1 DEF AdmissionInv, LockExclusive, AdvisoryHeld, Fp
<1>3. \A e \in EventIds : Open(e, Fp(r)) =>
         events[e].received_at + Window <= received_at[r]
  <2>1. \A e \in EventIds : events[e].received_at \in Nat
    BY DEF Shape, TypeOK, Row
  <2>2. received_at[r] \in Nat
    BY DEF Shape, TypeOK
  <2> QED
    BY <2>1, <2>2, ConstantsAssumption DEF Matches, InWindow
<1>4. MissStands'
  BY <1>1, <1>3 DEF AdmissionInv, MissStands, Open, Admitted, Fp
<1>5. OneOpenWindow'
  BY <1>1 DEF AdmissionInv, OneOpenWindow, Open, Admitted
<1> QED
  BY <1>2, <1>4, <1>5 DEF AdmissionInv

\* The INSERT: the new row is a whole window later than every open row of its
\* fingerprint, and no other handler is about to insert that fingerprint.
LEMMA InsertKeepsAdmission ==
    ASSUME Shape, AdmissionInv, NEW r \in Requests, InsertEvent(r) PROVE AdmissionInv'
<1>1. /\ \A q \in Requests \ {r} : pc'[q] = pc[q]
      /\ pc[r] = "insert" /\ pc'[r] = "dispatch"
      /\ todo' = todo /\ received_at' = received_at
  BY DEF InsertEvent, GoTo, Shape, TypeOK, Processes
<1>2. PICK n \in EventIds :
        /\ events[n].status = "absent"
        /\ events' = [events EXCEPT ![n] =
              [NoRow EXCEPT !.status = "admitted", !.fp = Fp(r),
                            !.received_at = received_at[r], !.dedupe_count = 1]]
  BY ZenonT(30) DEF InsertEvent
<1>3. /\ events'[n].fp = Fp(r) /\ events'[n].received_at = received_at[r]
      /\ \A e \in EventIds \ {n} : events'[e] = events[e]
  BY <1>2 DEF Shape, TypeOK, NoRow
<1>4. \A e \in EventIds : \A fp : Open(e, fp)' =>
         \/ e = n /\ fp = Fp(r)
         \/ e # n /\ Open(e, fp)
  BY <1>3 DEF Open, Admitted
<1>5. \A e \in EventIds : Open(e, Fp(r)) =>
         events[e].received_at + Window <= received_at[r]
  BY <1>1 DEF AdmissionInv, MissStands
<1>6. LockExclusive'
  BY <1>1 DEF AdmissionInv, LockExclusive, AdvisoryHeld, Fp
<1>7. MissStands'
  <2> SUFFICES ASSUME NEW q \in Requests, pc'[q] = "insert", NEW e \in EventIds, Open(e, Fp(q))'
               PROVE  events'[e].received_at + Window <= received_at'[q]
    BY DEF MissStands
  <2>1. q # r /\ pc[q] = "insert" /\ Fp(q)' = Fp(q)
    BY <1>1 DEF Fp
  <2>2. LockKey[Fp(q)] # LockKey[Fp(r)]
    BY <1>1, <2>1 DEF AdmissionInv, LockExclusive, AdvisoryHeld
  <2>3. e # n /\ Open(e, Fp(q))
    <3>1. events'[e].status = "admitted" /\ events'[e].fp = Fp(q)
          /\ events'[e].window_closed_at = 0
      BY <2>1 DEF Open, Admitted
    <3>2. e # n
      BY <1>3, <2>2, <3>1
    <3> QED
      BY <1>3, <3>1, <3>2 DEF Open, Admitted
  <2> QED
    BY <1>1, <1>3, <2>1, <2>3 DEF AdmissionInv, MissStands
<1>8. OneOpenWindow'
  <2> SUFFICES ASSUME NEW fp \in Fingerprints, NEW e \in EventIds, NEW f \in EventIds,
                      Open(e, fp)', Open(f, fp)', e # f
               PROVE  \/ events'[e].received_at + Window <= events'[f].received_at
                      \/ events'[f].received_at + Window <= events'[e].received_at
    BY DEF OneOpenWindow
  <2>1. CASE e = n
    BY <1>3, <1>4, <1>5, <2>1
  <2>2. CASE f = n
    BY <1>3, <1>4, <1>5, <2>2
  <2>3. CASE e # n /\ f # n
    BY <1>3, <1>4, <2>3 DEF AdmissionInv, OneOpenWindow
  <2> QED
    BY <2>1, <2>2, <2>3
<1> QED
  BY <1>6, <1>7, <1>8 DEF AdmissionInv

LEMMA InitAdmission == Init => AdmissionInv
BY DEF Init, AdmissionInv, LockExclusive, MissStands, OneOpenWindow, AdvisoryHeld, Open, Admitted, NoRow, Processes

\* Back from dispatch_event a handler is at its next alert, outside admit.
LEMMA DispatchIsQuiet ==
    ASSUME Shape, NEW p \in Processes, Dispatch(p)
    PROVE  /\ NothingOpened
           /\ \A r \in Requests : AdvisoryHeld(r)' =>
                 pc[r] = pc'[r] /\ todo'[r] = todo[r] /\ received_at'[r] = received_at[r]
<1> USE ConstantsAssumption DEF Processes
<1>1. received_at' = received_at
  BY DEF Dispatch, AlreadyQueued, LockRow, Publish, MarkQueued, DispatchFails, ReplyLost, ReceiptLost, handlerVars
<1>2. \A r \in Requests \ {p} : pc'[r] = pc[r] /\ todo'[r] = todo[r]
  BY ZenonT(30) DEF Shape, TypeOK, Dispatch, AlreadyQueued, LockRow, Publish, MarkQueued, DispatchFails,
         ReplyLost, ReceiptLost, Abort, Return, GoTo, handlerVars
<1>3. pc'[p] \notin {"lookup", "insert"}
  BY ZenonT(30) DEF Shape, TypeOK, Dispatch, AlreadyQueued, LockRow, Publish, MarkQueued, DispatchFails,
         ReplyLost, ReceiptLost, Abort, Return, GoTo
<1>4. NothingOpened
  <2>1. CASE events' = events
    BY <2>1, NothingOpenedIfSame
  <2>2. CASE MarkQueued(p) /\ events[target[p]].queue_message_id = 0
    <3>1. target[p] \in EventIds
      BY <2>2 DEF MarkQueued, Shape, TargetShape
    <3>2. message_id[p] \in Nat
      BY DEF Shape, TypeOK
    <3>3. events' = [events EXCEPT ![target[p]] =
                       [events[target[p]] EXCEPT !.queue_message_id = message_id[p]]]
      BY <2>2 DEF MarkQueued
    <3> QED
      BY <3>1, <3>2, <3>3, WindowColumnsKept DEF NothingOpened, Open, Admitted
  <2> QED
    BY <2>1, <2>2 DEF Dispatch, AlreadyQueued, LockRow, Publish, MarkQueued, DispatchFails, ReplyLost, ReceiptLost
<1> QED
  BY <1>1, <1>2, <1>3, <1>4 DEF AdvisoryHeld

LEMMA NextKeepsAdmission == Shape /\ Shape' /\ AdmissionInv /\ [Next]_vars => AdmissionInv'
<1> SUFFICES ASSUME Shape, Shape', AdmissionInv, [Next]_vars PROVE AdmissionInv'
  OBVIOUS
<1> USE ConstantsAssumption DEF Processes
<1> DEFINE Quiet == \A r \in Requests : AdvisoryHeld(r)' =>
                 pc[r] = pc'[r] /\ todo'[r] = todo[r] /\ received_at'[r] = received_at[r]
<1>1. ASSUME NEW r \in Requests, Handler(r) PROVE AdmissionInv'
  <2>1. CASE RejectUnverified(r) \/ ReceiveMalformed(r) \/ ReceiveValid(r) \/ Respond(r) \/ HandlerFails(r)
    <3>1. Quiet /\ events' = events
      BY <2>1, ZenonT(30) DEF RejectUnverified, ReceiveMalformed, ReceiveValid, Respond, HandlerFails, GoTo,
                  handlerVars, AdvisoryHeld, Shape, TypeOK
    <3> QED
      BY <3>1, QuietStep, NothingOpenedIfSame
  <2>2. CASE Quarantine(r)
    <3>1. Quiet
      BY <2>2 DEF Quarantine, GoTo, handlerVars, AdvisoryHeld, Shape, TypeOK
    <3>2. NothingOpened
      BY <2>2 DEF Quarantine, NothingOpened, Open, Admitted, Shape, TypeOK, NoRow
    <3> QED
      BY <3>1, <3>2, QuietStep
  <2>3. CASE CloseWindow(r)
    <3>1. Quiet
      BY <2>3 DEF CloseWindow, AdvisoryHeld, Shape, TypeOK
    <3>2. NothingOpened
      BY <2>3 DEF CloseWindow, NothingOpened, Open, Admitted, Shape, TypeOK, Row
    <3> QED
      BY <3>1, <3>2, QuietStep
  <2>4. CASE CountDuplicate(r)
    <3>1. Quiet
      BY <2>4 DEF CountDuplicate, GoTo, AdvisoryHeld, Shape, TypeOK
    <3>2. PICK e \in EventIds : events' = [events EXCEPT ![e] =
                       [events[e] EXCEPT !.dedupe_count = events[e].dedupe_count + 1]]
      BY <2>4, ZenonT(30) DEF CountDuplicate, Oldest, Matches
    <3>3. events[e].dedupe_count + 1 \in Nat
      <4>1. events[e] \in Row
        BY DEF Shape, TypeOK
      <4> QED
        BY <4>1 DEF Row
    <3>4. NothingOpened
      BY <3>2, <3>3, WindowColumnsKept DEF NothingOpened, Open, Admitted
    <3> QED
      BY <3>1, <3>4, QuietStep
  <2> QED
    BY <1>1, <2>1, <2>2, <2>3, <2>4, LockKeepsAdmission, MissKeepsAdmission, InsertKeepsAdmission DEF Handler
<1>2. CASE \E p \in Processes : Dispatch(p)
  BY <1>2, DispatchIsQuiet, QuietStep
<1>3. CASE Scan \/ Visit \/ EndPass \/ Tick \/ Restart \/ UNCHANGED vars
  <2>1. Quiet /\ events' = events
    BY <1>3 DEF Scan, Visit, EndPass, Tick, Restart, vars, GoTo, handlerVars, AdvisoryHeld, Shape, TypeOK
  <2> QED
    BY <2>1, QuietStep, NothingOpenedIfSame
<1>4. CASE Crash
  <2>1. Quiet /\ events' = events
    BY <1>4 DEF Crash, handlerVars, AdvisoryHeld, Shape, TypeOK
  <2> QED
    BY <2>1, QuietStep, NothingOpenedIfSame
<1> QED
  BY <1>1, <1>2, <1>3, <1>4 DEF Next, Asleep

LEMMA AdmissionAlways == Spec => []AdmissionInv
BY InitAdmission, NextKeepsAdmission, ShapeAlways, PTL DEF Spec

\* However deliveries, recoveries, the outbox and crashes interleave, no
\* incident is split over two rows inside the dedupe window.
THEOREM NoSplitIncident == Spec => []OneOpenWindow
<1>1. AdmissionInv => OneOpenWindow
  BY DEF AdmissionInv
<1> QED
  BY <1>1, AdmissionAlways, PTL

-----------------------------------------------------------------------------
(* Receipts.  A stored receipt names a message that carries the row's event    *)
(* because the reply a process still holds does (HeldReceipts), the stream     *)
(* only grows, and nobody but the holder moves between XADD and mark_queued.   *)

HeldReceipts ==
    \A p \in Processes : pc[p] = "mark" =>
        message_id[p] \in DOMAIN stream /\ stream[message_id[p]] = target[p]

ReceiptInv == ReceiptNamesEvent /\ HeldReceipts

StreamGrows == \A m \in DOMAIN stream : m \in DOMAIN stream' /\ stream'[m] = stream[m]

HeldKept ==
    \A p \in Processes : pc'[p] = "mark" =>
        pc[p] = "mark" /\ message_id'[p] = message_id[p] /\ target'[p] = target[p]

ReceiptsKept ==
    \A e \in EventIds :
        events'[e].queue_message_id \in {0, events[e].queue_message_id}

LEMMA AppendGrows ==
    ASSUME NEW e \in EventIds, stream \in Seq(EventIds), stream' = Append(stream, e)
    PROVE  StreamGrows /\ Len(stream) + 1 \in DOMAIN stream' /\ stream'[Len(stream) + 1] = e
BY DEF StreamGrows

LEMMA SameStreamGrows == ASSUME stream' = stream PROVE StreamGrows
BY DEF StreamGrows

\* A step that neither obtains nor stores a reply.
LEMMA ReceiptQuiet ==
    ASSUME ReceiptInv, StreamGrows, HeldKept, ReceiptsKept PROVE ReceiptInv'
<1>1. ReceiptNamesEvent'
  <2> SUFFICES ASSUME NEW e \in EventIds, events'[e].queue_message_id # 0
               PROVE  LET m == events'[e].queue_message_id
                      IN  m \in DOMAIN stream' /\ stream'[m] = e
    BY DEF ReceiptNamesEvent
  <2>1. events'[e].queue_message_id = events[e].queue_message_id
    BY DEF ReceiptsKept
  <2> QED
    BY <2>1 DEF ReceiptInv, ReceiptNamesEvent, StreamGrows
<1>2. HeldReceipts'
  BY DEF ReceiptInv, HeldReceipts, StreamGrows, HeldKept
<1> QED
  BY <1>1, <1>2 DEF ReceiptInv

\* Leaving dispatch_event one way or another obtains no reply.
LEMMA ReturnHolds ==
    ASSUME Shape, NEW p \in Processes,
           (\E m : Return(p, m)) \/ Abort(p)
    PROVE  HeldKept
BY ZenonT(30) DEF Return, Abort, HeldKept, Shape, TypeOK

LEMMA DispatchKeepsReceipts ==
    ASSUME Shape, ReceiptInv, NEW p \in Processes, Dispatch(p) PROVE ReceiptInv'
<1>1. CASE AlreadyQueued(p) \/ DispatchFails(p) \/ ReceiptLost(p)
  <2>1. stream' = stream /\ events' = events
    BY <1>1 DEF AlreadyQueued, DispatchFails, ReceiptLost
  <2>2. HeldKept
    BY <1>1, ReturnHolds DEF AlreadyQueued, DispatchFails, ReceiptLost
  <2> QED
    BY <2>1, <2>2, SameStreamGrows, ReceiptQuiet DEF ReceiptsKept
<1>2. CASE LockRow(p)
  <2>1. HeldKept
    BY <1>2 DEF LockRow, GoTo, HeldKept, Shape, TypeOK
  <2> QED
    BY <1>2, <2>1, SameStreamGrows, ReceiptQuiet DEF LockRow, ReceiptsKept
<1>3. CASE ReplyLost(p)
  <2>1. target[p] \in EventIds /\ stream \in Seq(EventIds)
    BY <1>3 DEF ReplyLost, Shape, TypeOK, TargetShape
  <2>2. StreamGrows
    BY <1>3, <2>1, AppendGrows DEF ReplyLost
  <2> QED
    BY <1>3, <2>2, ReturnHolds, ReceiptQuiet DEF ReplyLost, ReceiptsKept
<1>4. CASE Publish(p)
  <2>1. target[p] \in EventIds /\ stream \in Seq(EventIds)
    BY <1>4 DEF Publish, GoTo, Shape, TypeOK, TargetShape
  <2>2. /\ StreamGrows
        /\ Len(stream) + 1 \in DOMAIN stream' /\ stream'[Len(stream) + 1] = target[p]
    BY <1>4, <2>1, AppendGrows DEF Publish
  <2>3. /\ message_id'[p] = Len(stream) + 1
        /\ \A q \in Processes \ {p} : message_id'[q] = message_id[q] /\ pc'[q] = pc[q]
        /\ target' = target /\ events' = events
    BY <1>4 DEF Publish, GoTo, Shape, TypeOK
  <2>4. HeldReceipts'
    BY <2>2, <2>3 DEF ReceiptInv, HeldReceipts, StreamGrows
  <2>5. ReceiptNamesEvent'
    BY <2>2, <2>3 DEF ReceiptInv, ReceiptNamesEvent, StreamGrows
  <2> QED
    BY <2>4, <2>5 DEF ReceiptInv
<1>5. CASE MarkQueued(p)
  <2>1. /\ target[p] \in EventIds
        /\ message_id[p] \in DOMAIN stream /\ stream[message_id[p]] = target[p]
    BY <1>5 DEF MarkQueued, Shape, TargetShape, ReceiptInv, HeldReceipts
  <2>2. \A e \in EventIds :
          events'[e].queue_message_id \in
            {events[e].queue_message_id} \cup (IF e = target[p] THEN {message_id[p]} ELSE {})
    <3>1. events[target[p]] \in Row
      BY <2>1 DEF Shape, TypeOK
    <3> QED
      BY <1>5, <2>1, <3>1 DEF MarkQueued, Shape, TypeOK, Row
  <2>3. stream' = stream /\ HeldKept
    BY <1>5, ReturnHolds DEF MarkQueued
  <2>4. ReceiptNamesEvent'
    BY <2>1, <2>2, <2>3 DEF ReceiptInv, ReceiptNamesEvent
  <2>5. HeldReceipts'
    BY <2>3 DEF ReceiptInv, HeldReceipts, HeldKept
  <2> QED
    BY <2>4, <2>5 DEF ReceiptInv
<1> QED
  BY <1>1, <1>2, <1>3, <1>4, <1>5 DEF Dispatch

LEMMA NewRowNoReceipt ==
    ASSUME Shape, NEW e \in EventIds, NEW row, row.queue_message_id = 0,
           events' = [events EXCEPT ![e] = row]
    PROVE  ReceiptsKept
BY DEF Shape, TypeOK, ReceiptsKept

\* No statement of a handler stores a receipt.
LEMMA HandlerStoresNone ==
    ASSUME Shape, NEW r \in Requests, Handler(r) PROVE ReceiptsKept
<1>1. CASE Quarantine(r) \/ InsertEvent(r)
  <2>1. CASE Quarantine(r)
    <3> DEFINE row == [NoRow EXCEPT !.status = "quarantined", !.received_at = received_at[r],
                                    !.dedupe_count = 1]
    <3>1. row.queue_message_id = 0
      BY DEF NoRow
    <3>2. PICK e \in EventIds : events' = [events EXCEPT ![e] = row]
      BY <2>1, ZenonT(30) DEF Quarantine
    <3> HIDE DEF row
    <3> QED
      BY <3>1, <3>2, NewRowNoReceipt, ZenonT(30)
  <2>2. CASE InsertEvent(r)
    <3> DEFINE row == [NoRow EXCEPT !.status = "admitted", !.fp = Fp(r),
                                    !.received_at = received_at[r], !.dedupe_count = 1]
    <3>1. row.queue_message_id = 0
      BY DEF NoRow
    <3>2. PICK e \in EventIds : events' = [events EXCEPT ![e] = row]
      BY <2>2, ZenonT(30) DEF InsertEvent
    <3> HIDE DEF row
    <3> QED
      BY <3>1, <3>2, NewRowNoReceipt, ZenonT(30)
  <2> QED
    BY <1>1, <2>1, <2>2
<1>2. CASE CloseWindow(r)
  BY <1>2 DEF CloseWindow, ReceiptsKept, Shape, TypeOK, Row
<1>3. CASE CountDuplicate(r)
  BY <1>3 DEF CountDuplicate, Oldest, Matches, ReceiptsKept, Shape, TypeOK, Row
<1>4. CASE events' = events
  BY <1>4 DEF ReceiptsKept
<1> QED
  BY <1>1, <1>2, <1>3, <1>4 DEF Handler, RejectUnverified, ReceiveMalformed, ReceiveValid, Lock,
     MissWindow, Respond, HandlerFails

LEMMA HandlerKeepsReceipts ==
    ASSUME Shape, ReceiptInv, NEW r \in Requests, Handler(r) PROVE ReceiptInv'
<1>1. stream' = stream /\ message_id' = message_id
  BY DEF Handler, RejectUnverified, ReceiveMalformed, ReceiveValid, Quarantine, CloseWindow, Lock,
         CountDuplicate, MissWindow, InsertEvent, Respond, HandlerFails
<1>2. /\ \A q \in Processes \ {r} : pc'[q] = pc[q] /\ target'[q] = target[q]
      /\ pc'[r] # "mark"
  BY DEF Handler, RejectUnverified, ReceiveMalformed, ReceiveValid, Quarantine, CloseWindow, Lock,
         CountDuplicate, MissWindow, InsertEvent, Respond, HandlerFails, GoTo, Shape, TypeOK, Processes
<1>3. HeldKept
  BY <1>1, <1>2 DEF HeldKept
<1>4. ReceiptsKept
  BY HandlerStoresNone
<1> QED
  BY <1>1, <1>3, <1>4, SameStreamGrows, ReceiptQuiet

LEMMA NextKeepsReceipts == Shape /\ ReceiptInv /\ [Next]_vars => ReceiptInv'
<1> SUFFICES ASSUME Shape, ReceiptInv, [Next]_vars PROVE ReceiptInv'
  OBVIOUS
<1>1. CASE \E r \in Requests : Handler(r)
  BY <1>1, HandlerKeepsReceipts
<1>2. CASE \E p \in Processes : Dispatch(p)
  BY <1>2, DispatchKeepsReceipts
<1>3. CASE Scan \/ Visit \/ EndPass \/ Tick \/ Crash \/ Restart \/ UNCHANGED vars
  <2>1. stream' = stream /\ events' = events
    BY <1>3 DEF Scan, Visit, EndPass, Tick, Crash, Restart, vars
  <2>2. HeldKept
    BY <1>3, ZenonT(30) DEF Scan, Visit, EndPass, Tick, Crash, Restart, vars, GoTo, HeldKept, Shape, TypeOK, Processes
  <2> QED
    BY <2>1, <2>2, SameStreamGrows, ReceiptQuiet DEF ReceiptsKept
<1> QED
  BY <1>1, <1>2, <1>3 DEF Next, Asleep

\* A receipt that mark_queued stored always names a message of the stream that
\* carries the row's own event.
THEOREM ReceiptsCorrect == Spec => []ReceiptNamesEvent
<1>1. Init => ReceiptInv
  BY DEF Init, ReceiptInv, ReceiptNamesEvent, HeldReceipts, NoRow, Processes
<1>2. ReceiptInv => ReceiptNamesEvent
  BY DEF ReceiptInv
<1> QED
  BY <1>1, <1>2, NextKeepsReceipts, ShapeAlways, PTL DEF Spec

-----------------------------------------------------------------------------
(* What a row says of the past                                                *)

RowsKept == \A e \in EventIds : RowKept(events[e], events'[e])

\* A row is written only where there was none.
LEMMA NewRowKept ==
    ASSUME Shape, NEW e \in EventIds, NEW row,
           events[e].status = "absent", events' = [events EXCEPT ![e] = row]
    PROVE  RowsKept
<1>1. \A f \in EventIds : events[f].dedupe_count \in Nat
  BY DEF Shape, TypeOK, Row
<1>2. \A f \in EventIds \ {e} : events'[f] = events[f]
  BY DEF Shape, TypeOK
<1> QED
  BY <1>1, <1>2 DEF RowsKept, RowKept

\* One more duplicate, a window closed, a receipt stored: each fills in what
\* was NULL or counts up.
LEMMA UpdatedRowKept ==
    ASSUME NEW row \in Row, NEW n \in Nat
    PROVE  /\ RowKept(row, [row EXCEPT !.dedupe_count = @ + 1])
           /\ row.window_closed_at = 0 => RowKept(row, [row EXCEPT !.window_closed_at = n])
           /\ row.queue_message_id = 0 => RowKept(row, [row EXCEPT !.queue_message_id = n])
           /\ RowKept(row, row)
BY DEF Row, RowKept

LEMMA StepKeepsRows == Shape /\ [Next]_vars => [RowsKept]_events
<1> SUFFICES ASSUME Shape, [Next]_vars, events' # events PROVE RowsKept
  OBVIOUS
<1> USE DEF Shape, TypeOK
<1>1. ASSUME NEW r \in Requests, Quarantine(r) \/ InsertEvent(r) PROVE RowsKept
  BY <1>1, NewRowKept DEF Quarantine, InsertEvent
<1>2. ASSUME NEW r \in Requests, CloseWindow(r) PROVE RowsKept
  <2>1. \A e \in EventIds :
          events'[e] = IF Open(e, Fp(r))
                       THEN [events[e] EXCEPT !.window_closed_at = received_at[r]]
                       ELSE events[e]
    BY <1>2 DEF CloseWindow
  <2>2. \A e \in EventIds : Open(e, Fp(r)) => events[e].window_closed_at = 0
    BY DEF Open
  <2>3. received_at[r] \in Nat /\ \A e \in EventIds : events[e] \in Row
    OBVIOUS
  <2>4. ASSUME NEW e \in EventIds PROVE RowKept(events[e], events'[e])
    <3>1. CASE Open(e, Fp(r))
      <4>1. RowKept(events[e], [events[e] EXCEPT !.window_closed_at = received_at[r]])
        BY <2>2, <2>3, <3>1, UpdatedRowKept, ZenonT(30)
      <4> QED
        BY <2>1, <3>1, <4>1, ZenonT(30)
    <3>2. CASE ~Open(e, Fp(r))
      BY <2>1, <2>3, <3>2, UpdatedRowKept, ZenonT(30)
    <3> QED
      BY <3>1, <3>2
  <2> QED
    BY <2>4 DEF RowsKept
<1>3. ASSUME NEW r \in Requests, CountDuplicate(r) PROVE RowsKept
  <2>1. PICK e \in EventIds : events' = [events EXCEPT ![e].dedupe_count = @ + 1]
    BY <1>3, ZenonT(30) DEF CountDuplicate, Oldest, Matches
  <2>2. \A f \in EventIds : events[f] \in Row
    OBVIOUS
  <2>3. \A f \in EventIds :
          events'[f] = IF f = e THEN [events[f] EXCEPT !.dedupe_count = @ + 1] ELSE events[f]
    BY <2>1, ZenonT(30)
  <2>4. ASSUME NEW f \in EventIds PROVE RowKept(events[f], events'[f])
    BY <2>2, <2>3, UpdatedRowKept, ZenonT(30)
  <2> QED
    BY <2>4 DEF RowsKept
<1>4. ASSUME NEW p \in Processes, MarkQueued(p) PROVE RowsKept
  <2>1. target[p] \in EventIds /\ message_id[p] \in Nat
    BY <1>4 DEF MarkQueued, TargetShape
  <2>2. CASE events[target[p]].queue_message_id = 0
    <3>1. events' = [events EXCEPT ![target[p]] = [@ EXCEPT !.queue_message_id = message_id[p]]]
      BY <1>4, <2>2 DEF MarkQueued
    <3> QED
      BY <2>1, <2>2, <3>1, UpdatedRowKept, ZenonT(30) DEF RowsKept
  <2> QED
    BY <1>4, <2>2 DEF MarkQueued
<1> QED
  BY <1>1, <1>2, <1>3, <1>4, ZenonT(30) DEF Next, Handler, Dispatch, RejectUnverified, ReceiveMalformed, ReceiveValid,
     Lock, MissWindow, Respond, HandlerFails, AlreadyQueued, LockRow, Publish, DispatchFails, ReplyLost,
     ReceiptLost, Scan, Visit, EndPass, Tick, Crash, Restart, Asleep, vars

\* No step of a handler, the outbox or a crash rewrites what a row says of the
\* past.
THEOREM HistoryStable == Spec => RowHistoryStable
BY StepKeepsRows, ShapeAlways, PTL DEF Spec, RowHistoryStable, RowsKept

-----------------------------------------------------------------------------
(* The refinement.  The initial states map to initial states and every step   *)
(* maps to a step of the Inbox or to a stutter.  The interesting step is the  *)
(* INSERT of admit: it opens a new incident, which the Inbox allows only      *)
(* while no open one is in the window, and what the handler saw was true one  *)
(* statement earlier.                                                         *)

LEMMA SameTable == ASSUME events' = events PROVE Incidents' = Incidents
BY DEF Incidents

\* The Inbox and the Receiver agree on which alerts belong to which row.
LEMMA SameCandidates ==
    ASSUME NEW fp, NEW t
    PROVE  /\ Abstract!OpenIncidents(fp) = {e \in EventIds : Open(e, fp)}
           /\ Abstract!Candidates(fp, t) = Matches(fp, t)
BY DEF Abstract!OpenIncidents, Abstract!Candidates, Incidents, Open, Admitted, Matches, InWindow

LEMMA InitRefines == Init => Abstract!Init
<1> SUFFICES ASSUME Init PROVE Abstract!Init
  OBVIOUS
<1>1. \A e \in EventIds : events[e] = NoRow
  BY DEF Init
<1>2. /\ NoRow.status = "absent" /\ NoRow.fp = NoFp /\ NoRow.received_at = 0
      /\ NoRow.dedupe_count = 0 /\ NoRow.window_closed_at = 0
      /\ (NoRow.queue_message_id # 0) = FALSE
  BY DEF NoRow
<1>3. \A e \in EventIds : Incidents[e] = Abstract!Nothing
  BY <1>1, <1>2, Zenon DEF Abstract!Nothing, Incidents
<1> QED
  BY <1>3 DEF Abstract!Init, Incidents

LEMMA QuarantineRefines ==
    ASSUME Shape, NEW r \in Requests, Quarantine(r) PROVE Abstract!SetAside(received_at[r])
<1>1. PICK e \in EventIds :
        /\ events[e].status = "absent"
        /\ events' = [events EXCEPT ![e] =
              [NoRow EXCEPT !.status = "quarantined", !.received_at = received_at[r],
                            !.dedupe_count = 1]]
  BY ZenonT(30) DEF Quarantine
<1>2. Incidents[e].status = "absent"
  BY <1>1 DEF Incidents
<1>3. Incidents' = [Incidents EXCEPT ![e] =
         [Abstract!Nothing EXCEPT !.status = "quarantined", !.received_at = received_at[r],
                                  !.dedupe_count = 1]]
  BY <1>1, ZenonT(30) DEF Incidents, Abstract!Nothing, NoRow, Shape, TypeOK
<1> QED
  BY <1>2, <1>3, ZenonT(30) DEF Abstract!SetAside

LEMMA CloseRefines ==
    ASSUME Shape, NEW r \in Requests, CloseWindow(r) PROVE Abstract!Recover(Fp(r), received_at[r])
<1>1. \A e \in EventIds :
        events'[e] = IF Open(e, Fp(r))
                     THEN [events[e] EXCEPT !.window_closed_at = received_at[r]]
                     ELSE events[e]
  BY DEF CloseWindow
<1>2. \A e \in EventIds :
        Incidents'[e] = IF Open(e, Fp(r))
                        THEN [Incidents[e] EXCEPT !.window_closed_at = received_at[r]]
                        ELSE Incidents[e]
  <2> SUFFICES ASSUME NEW e \in EventIds
               PROVE  Incidents'[e] = IF Open(e, Fp(r))
                        THEN [Incidents[e] EXCEPT !.window_closed_at = received_at[r]]
                        ELSE Incidents[e]
    OBVIOUS
  <2>1. events[e] \in Row
    BY DEF Shape, TypeOK
  <2> QED
    BY <1>1, <2>1, ZenonT(60) DEF Incidents, Row
<1>3. Incidents' = [i \in EventIds |->
         IF i \in Abstract!OpenIncidents(Fp(r))
         THEN [Incidents[i] EXCEPT !.window_closed_at = received_at[r]] ELSE Incidents[i]]
  BY <1>2, SameCandidates DEF Incidents
<1> QED
  BY <1>3 DEF Abstract!Recover

LEMMA CountRefines ==
    ASSUME Shape, NEW r \in Requests, CountDuplicate(r) PROVE Abstract!Join(Fp(r), received_at[r])
<1>1. PICK e \in Oldest(Matches(Fp(r), received_at[r])) :
        events' = [events EXCEPT ![e].dedupe_count = @ + 1]
  BY ZenonT(30) DEF CountDuplicate
<1>2. /\ e \in EventIds
      /\ e \in Abstract!Candidates(Fp(r), received_at[r])
      /\ \A j \in Abstract!Candidates(Fp(r), received_at[r]) :
            Incidents[e].received_at <= Incidents[j].received_at
  BY <1>1, SameCandidates DEF Oldest, Matches, Incidents
<1>3. events[e] \in Row
  BY <1>2 DEF Shape, TypeOK
<1>4. Incidents' = [Incidents EXCEPT ![e].dedupe_count = @ + 1]
  BY <1>1, <1>2, <1>3, ZenonT(30) DEF Incidents, Row, Shape, TypeOK
<1> QED
  BY <1>2, <1>4, ZenonT(30) DEF Abstract!Join

\* Where the advisory lock earns its keep: at the INSERT there is still no
\* open row in the window.
LEMMA InsertRefines ==
    ASSUME Shape, AdmissionInv, NEW r \in Requests, InsertEvent(r)
    PROVE  Abstract!OpenNew(Fp(r), received_at[r])
<1>1. pc[r] = "insert"
  BY DEF InsertEvent, GoTo
<1>2. Matches(Fp(r), received_at[r]) = {}
  <2>1. \A e \in EventIds : events[e].received_at \in Nat
    BY DEF Shape, TypeOK, Row
  <2>2. received_at[r] \in Nat
    BY DEF Shape, TypeOK
  <2> QED
    BY <1>1, <2>1, <2>2, ConstantsAssumption DEF AdmissionInv, MissStands, Matches, InWindow
<1>3. PICK e \in EventIds :
        /\ events[e].status = "absent"
        /\ events' = [events EXCEPT ![e] =
              [NoRow EXCEPT !.status = "admitted", !.fp = Fp(r),
                            !.received_at = received_at[r], !.dedupe_count = 1]]
  BY ZenonT(30) DEF InsertEvent
<1>4. Incidents[e].status = "absent"
  BY <1>3 DEF Incidents
<1>5. Incidents' = [Incidents EXCEPT ![e] =
         [Abstract!Nothing EXCEPT !.status = "admitted", !.fp = Fp(r),
                                  !.received_at = received_at[r], !.dedupe_count = 1]]
  BY <1>3, ZenonT(30) DEF Incidents, Abstract!Nothing, NoRow, Shape, TypeOK
<1> QED
  BY <1>2, <1>4, <1>5, SameCandidates, ZenonT(30) DEF Abstract!OpenNew

LEMMA MarkRefines ==
    ASSUME Shape, NEW p \in Processes, MarkQueued(p)
    PROVE  Abstract!Queue(target[p]) \/ Incidents' = Incidents
<1>1. /\ target[p] \in EventIds /\ Admitted(target[p])
      /\ events[target[p]] \in Row /\ message_id[p] \in Nat
  BY DEF MarkQueued, Shape, TypeOK, TargetShape
<1>2. CASE events' = events
  BY <1>2, SameTable
<1>3. CASE /\ events[target[p]].queue_message_id = 0
           /\ events' = [events EXCEPT ![target[p]].queue_message_id = message_id[p]]
  <2>1. CASE message_id[p] = 0
    BY <1>1, <1>3, <2>1 DEF Incidents, Row, Shape, TypeOK
  <2>2. CASE message_id[p] # 0
    <3>1. Incidents[target[p]].status = "admitted" /\ Incidents[target[p]].queued = FALSE
      BY <1>1, <1>3, ZenonT(30) DEF Incidents, Admitted
    <3>2. Incidents' = [Incidents EXCEPT ![target[p]].queued = TRUE]
      BY <1>1, <1>3, <2>2, ZenonT(30) DEF Incidents, Row, Shape, TypeOK
    <3> QED
      BY <3>1, <3>2 DEF Abstract!Queue
  <2> QED
    BY <2>1, <2>2
<1> QED
  BY <1>2, <1>3 DEF MarkQueued

LEMMA HandlerRefines ==
    ASSUME Shape, AdmissionInv, NEW r \in Requests, Handler(r)
    PROVE  Abstract!Next \/ Incidents' = Incidents
<1>1. CASE Quarantine(r)
  <2>1. received_at[r] \in 1 .. MaxTime
    BY <1>1 DEF Quarantine, GoTo, Shape, HandlerShape
  <2> QED
    BY <1>1, <2>1, QuarantineRefines DEF Abstract!Next
<1>2. CASE CloseWindow(r)
  <2>1. received_at[r] \in 1 .. MaxTime
    BY <1>2 DEF CloseWindow, Shape, HandlerShape
  <2>2. Fp(r) \in Fingerprints
    <3>1. todo[r] \in Seq(Alert) /\ todo[r] # <<>>
      BY <1>2 DEF CloseWindow, Shape, TypeOK
    <3>2. Head(todo[r]) \in Alert
      BY <3>1
    <3> QED
      BY <3>2 DEF Fp, Alert
  <2> QED
    BY <1>2, <2>1, <2>2, CloseRefines DEF Abstract!Next
<1>3. CASE CountDuplicate(r) \/ InsertEvent(r)
  <2>1. pc[r] \in {"lookup", "insert"}
    BY <1>3 DEF CountDuplicate, InsertEvent, GoTo
  <2>2. received_at[r] \in 1 .. MaxTime /\ Fp(r) \in Fingerprints
    BY <2>1, HeadHasFp DEF Shape, HandlerShape
  <2>3. Abstract!Join(Fp(r), received_at[r]) \/ Abstract!OpenNew(Fp(r), received_at[r])
    BY <1>3, CountRefines, InsertRefines
  <2> QED
    BY <2>2, <2>3 DEF Abstract!Next
<1>4. CASE \/ RejectUnverified(r) \/ ReceiveMalformed(r) \/ ReceiveValid(r)
           \/ Lock(r) \/ MissWindow(r) \/ Respond(r) \/ HandlerFails(r)
  BY <1>4, SameTable DEF RejectUnverified, ReceiveMalformed, ReceiveValid, Lock, MissWindow, Respond, HandlerFails
<1> QED
  BY <1>1, <1>2, <1>3, <1>4 DEF Handler

LEMMA DispatchRefines ==
    ASSUME Shape, NEW p \in Processes, Dispatch(p)
    PROVE  Abstract!Next \/ Incidents' = Incidents
<1>1. CASE MarkQueued(p)
  <2>1. target[p] \in EventIds
    BY <1>1 DEF MarkQueued, Shape, TargetShape
  <2> QED
    BY <1>1, <2>1, MarkRefines DEF Abstract!Next
<1>2. CASE ~MarkQueued(p)
  BY <1>2, SameTable DEF Dispatch, AlreadyQueued, LockRow, Publish, DispatchFails, ReplyLost, ReceiptLost
<1> QED
  BY <1>1, <1>2

LEMMA StepRefines == Shape /\ AdmissionInv /\ [Next]_vars => [Abstract!Next]_Incidents
<1> SUFFICES ASSUME Shape, AdmissionInv, [Next]_vars
             PROVE  Abstract!Next \/ Incidents' = Incidents
  OBVIOUS
<1>1. CASE \E r \in Requests : Handler(r)
  BY <1>1, HandlerRefines
<1>2. CASE \E p \in Processes : Dispatch(p)
  BY <1>2, DispatchRefines
<1>3. CASE Scan \/ Visit \/ EndPass \/ Tick \/ Crash \/ Restart \/ UNCHANGED vars
  BY <1>3, SameTable DEF Scan, Visit, EndPass, Tick, Crash, Restart, vars
<1> QED
  BY <1>1, <1>2, <1>3 DEF Next, Asleep

\* The statements of admit, close_window, quarantine and mark_queued, run by any
\* number of handlers and the outbox with faults and crashes between them,
\* amount to the indivisible operations of the Inbox.
THEOREM ReceiverImplementsInbox == Spec => ImplementsInbox
BY InitRefines, StepRefines, ShapeAlways, AdmissionAlways, PTL
DEF Spec, ImplementsInbox, Abstract!Spec

-----------------------------------------------------------------------------
(* The seam with the workers.  What a worker sees of the table is the windows *)
(* and fingerprints of admitted rows: an INSERT admits, a close_window that   *)
(* finds an open row recovers, an XADD enqueues, and because a process that   *)
(* dispatches holds an admitted row (TargetShape), what it enqueues has been  *)
(* admitted.  Everything else is a stutter.                                   *)

seam == <<Windows, FpColumn, stream>>

LEMMA SeamKept ==
    ASSUME \A e \in EventIds : /\ events'[e].status = events[e].status
                               /\ events'[e].fp = events[e].fp
                               /\ events'[e].window_closed_at = events[e].window_closed_at
    PROVE  Windows' = Windows /\ FpColumn' = FpColumn
BY DEF Windows, FpColumn, Admitted

LEMMA FpColumnKept == ASSUME Shape, [Next]_vars PROVE Handover!FpKept
<1>1. \A e \in EventIds : Admitted(e) => Admitted(e)' /\ events'[e].fp = events[e].fp
  BY StepKeepsRows DEF RowsKept, RowKept, Admitted
<1> QED
  BY <1>1 DEF Handover!FpKept, Windows, FpColumn

LEMMA InitFeeds == Init => Handover!Init
<1> SUFFICES ASSUME Init PROVE Handover!Init
  OBVIOUS
<1>1. \A e \in EventIds : ~Admitted(e)
  BY DEF Init, NoRow, Admitted
<1> QED
  BY <1>1 DEF Init, Handover!Init, Windows

\* A row that is quarantined is one no worker sees.
LEMMA QuarantineFeeds ==
    ASSUME Shape, NEW r \in Requests, Quarantine(r) PROVE UNCHANGED seam
<1>1. PICK e \in EventIds :
        /\ events[e].status = "absent"
        /\ events' = [events EXCEPT ![e] =
              [NoRow EXCEPT !.status = "quarantined", !.received_at = received_at[r],
                            !.dedupe_count = 1]]
  BY ZenonT(30) DEF Quarantine
<1>2. ~Admitted(e) /\ ~Admitted(e)'
  BY <1>1 DEF Admitted, NoRow, Shape, TypeOK
<1>3. \A f \in EventIds \ {e} : events'[f] = events[f]
  BY <1>1 DEF Shape, TypeOK
<1>4. stream' = stream
  BY DEF Quarantine
<1> QED
  BY <1>2, <1>3, <1>4 DEF seam, Windows, FpColumn, Admitted

LEMMA InsertFeeds ==
    ASSUME Shape, NEW r \in Requests, InsertEvent(r)
    PROVE  \E e \in EventIds : Handover!Admit(e)
<1>1. PICK e \in EventIds :
        /\ events[e].status = "absent"
        /\ events' = [events EXCEPT ![e] =
              [NoRow EXCEPT !.status = "admitted", !.fp = Fp(r),
                            !.received_at = received_at[r], !.dedupe_count = 1]]
  BY ZenonT(30) DEF InsertEvent
<1>2. ~Admitted(e) /\ Admitted(e)' /\ events'[e].window_closed_at = 0
  BY <1>1 DEF Admitted, NoRow, Shape, TypeOK
<1>3. \A f \in EventIds \ {e} : events'[f] = events[f]
  BY <1>1 DEF Shape, TypeOK
<1>4. Windows[e] = "none" /\ Windows'[e] = "open"
  BY <1>2 DEF Windows
<1>5. \A f \in EventIds \ {e} : Windows'[f] = Windows[f]
  BY <1>3 DEF Windows, Admitted
<1>6. Windows' = [Windows EXCEPT ![e] = "open"]
  BY <1>4, <1>5 DEF Windows
<1>7. stream' = stream
  BY DEF InsertEvent
<1> QED
  BY <1>4, <1>6, <1>7 DEF Handover!Admit

LEMMA CloseFeeds ==
    ASSUME Shape, NEW r \in Requests, CloseWindow(r)
    PROVE  Handover!Recover(Fp(r)) \/ UNCHANGED seam
<1>1. /\ \A e \in EventIds :
            events'[e] = IF Open(e, Fp(r))
                         THEN [events[e] EXCEPT !.window_closed_at = received_at[r]]
                         ELSE events[e]
      /\ stream' = stream
  BY DEF CloseWindow
<1>2. received_at[r] # 0
  BY DEF CloseWindow, Shape, HandlerShape
<1>3. Handover!Closing(Fp(r)) = {e \in EventIds : Open(e, Fp(r))}
  BY DEF Handover!Closing, Windows, FpColumn, Open, Admitted
<1>4. \A e \in EventIds :
         /\ events'[e].status = events[e].status
         /\ events'[e].fp = events[e].fp
         /\ events'[e].window_closed_at =
               IF Open(e, Fp(r)) THEN received_at[r] ELSE events[e].window_closed_at
  <2> SUFFICES ASSUME NEW e \in EventIds
               PROVE  /\ events'[e].status = events[e].status
                      /\ events'[e].fp = events[e].fp
                      /\ events'[e].window_closed_at =
                            IF Open(e, Fp(r)) THEN received_at[r]
                            ELSE events[e].window_closed_at
    OBVIOUS
  <2>1. events[e] \in Row
    BY DEF Shape, TypeOK
  <2> QED
    BY <1>1, <2>1 DEF Row
<1>5. CASE \A e \in EventIds : ~Open(e, Fp(r))
  BY <1>1, <1>4, <1>5, SeamKept DEF seam
<1>6. CASE \E e \in EventIds : Open(e, Fp(r))
  <2>1. \A e \in EventIds :
           Windows'[e] = IF Open(e, Fp(r)) THEN "closed" ELSE Windows[e]
    BY <1>2, <1>4 DEF Windows, Open, Admitted
  <2>2. Windows' = [e \in EventIds |->
           IF e \in Handover!Closing(Fp(r)) THEN "closed" ELSE Windows[e]]
    BY <1>3, <2>1 DEF Windows
  <2> QED
    BY <1>1, <1>3, <1>6, <2>2 DEF Handover!Recover
<1> QED
  BY <1>5, <1>6

\* What is put on the stream has an admitted row.
LEMMA XaddFeeds ==
    ASSUME Shape, NEW p \in Processes, Publish(p) \/ ReplyLost(p)
    PROVE  \E e \in EventIds : Handover!Enqueue(e)
<1>1. pc[p] = "xadd" /\ stream' = Append(stream, target[p]) /\ events' = events
  BY DEF Publish, ReplyLost, GoTo
<1>2. target[p] \in EventIds /\ Admitted(target[p])
  BY <1>1 DEF Shape, TargetShape
<1>3. Windows[target[p]] # "none"
  BY <1>2 DEF Windows
<1>4. Windows' = Windows
  BY <1>1, SeamKept
<1> QED
  BY <1>1, <1>2, <1>3, <1>4 DEF Handover!Enqueue

\* The count of an alert and the receipt change nothing a worker sees.
LEMMA UpdateFeeds ==
    ASSUME Shape,
           \/ \E r \in Requests : CountDuplicate(r)
           \/ \E p \in Processes : MarkQueued(p)
    PROVE  UNCHANGED seam
<1>1. ASSUME NEW r \in Requests, CountDuplicate(r) PROVE UNCHANGED seam
  <2>1. PICK e \in Oldest(Matches(Fp(r), received_at[r])) :
          events' = [events EXCEPT ![e].dedupe_count = @ + 1]
    BY <1>1, ZenonT(30) DEF CountDuplicate
  <2>2. e \in EventIds
    BY <2>1 DEF Oldest, Matches
  <2>3. events[e].dedupe_count + 1 \in Nat
    BY <2>2 DEF Shape, TypeOK, Row
  <2>4. stream' = stream
    BY <1>1 DEF CountDuplicate
  <2> QED
    BY <2>1, <2>2, <2>3, <2>4, WindowColumnsKept, SeamKept DEF seam
<1>2. ASSUME NEW p \in Processes, MarkQueued(p) PROVE UNCHANGED seam
  <2>1. target[p] \in EventIds /\ message_id[p] \in Nat
    BY <1>2 DEF MarkQueued, Shape, TypeOK, TargetShape
  <2>2. stream' = stream
    BY <1>2 DEF MarkQueued
  <2>3. \/ events' = events
        \/ events' = [events EXCEPT ![target[p]].queue_message_id = message_id[p]]
    BY <1>2 DEF MarkQueued
  <2> QED
    BY <2>1, <2>2, <2>3, WindowColumnsKept, SeamKept DEF seam
<1> QED
  BY <1>1, <1>2

LEMMA StepFeeds == Shape /\ [Next]_vars => [Handover!Next]_<<Windows, FpColumn, stream>>
<1> SUFFICES ASSUME Shape, [Next]_vars PROVE Handover!Next \/ UNCHANGED seam
  BY DEF seam
<1>1. Handover!FpKept
  BY FpColumnKept
<1>2. CASE \E r \in Requests : Quarantine(r)
  BY <1>2, QuarantineFeeds
<1>3. CASE \E r \in Requests : InsertEvent(r)
  BY <1>1, <1>3, InsertFeeds DEF Handover!Next
<1>4. ASSUME NEW r \in Requests, CloseWindow(r) PROVE Handover!Next \/ UNCHANGED seam
  <2>1. todo[r] \in Seq(Alert) /\ todo[r] # <<>>
    BY <1>4 DEF CloseWindow, Shape, TypeOK
  <2>2. Fp(r) \in Fingerprints
    <3>1. Head(todo[r]) \in Alert
      BY <2>1
    <3> QED
      BY <3>1 DEF Fp, Alert
  <2> QED
    BY <1>1, <1>4, <2>2, CloseFeeds DEF Handover!Next
<1>5. CASE \E p \in Processes : Publish(p) \/ ReplyLost(p)
  BY <1>1, <1>5, XaddFeeds DEF Handover!Next
<1>6. CASE (\E r \in Requests : CountDuplicate(r)) \/ (\E p \in Processes : MarkQueued(p))
  BY <1>6, UpdateFeeds
<1>7. CASE events' = events /\ stream' = stream
  BY <1>7, SeamKept DEF seam
<1>8. \/ \E r \in Requests : \/ Quarantine(r) \/ InsertEvent(r) \/ CloseWindow(r)
                             \/ CountDuplicate(r)
      \/ \E p \in Processes : Publish(p) \/ ReplyLost(p) \/ MarkQueued(p)
      \/ events' = events /\ stream' = stream
  <2>1. ASSUME NEW r \in Requests, Handler(r)
        PROVE  \/ Quarantine(r) \/ InsertEvent(r) \/ CloseWindow(r) \/ CountDuplicate(r)
               \/ events' = events /\ stream' = stream
    BY <2>1 DEF Handler, RejectUnverified, ReceiveMalformed, ReceiveValid, Lock, MissWindow,
                Respond, HandlerFails
  <2>2. ASSUME NEW p \in Processes, Dispatch(p)
        PROVE  \/ Publish(p) \/ ReplyLost(p) \/ MarkQueued(p)
               \/ events' = events /\ stream' = stream
    BY <2>2 DEF Dispatch, AlreadyQueued, LockRow, DispatchFails, ReceiptLost
  <2>3. CASE Scan \/ Visit \/ EndPass \/ Tick \/ Crash \/ Restart \/ UNCHANGED vars
    BY <2>3 DEF Scan, Visit, EndPass, Tick, Crash, Restart, vars
  <2> QED
    BY <2>1, <2>2, <2>3 DEF Next, Asleep
<1> QED
  BY <1>2, <1>3, <1>4, <1>5, <1>6, <1>7, <1>8

\* All that the handlers and the outbox let a worker see, through faults and
\* crashes, is a behaviour of the Feed, whose actions are the environment of
\* the Worker: admitted rows before their messages, windows closed together and
\* for good, fingerprints that stay.
THEOREM ReceiverImplementsFeed == Spec => ImplementsFeed
BY InitFeeds, StepFeeds, ShapeAlways, PTL DEF Spec, ImplementsFeed, Handover!Spec
=============================================================================
