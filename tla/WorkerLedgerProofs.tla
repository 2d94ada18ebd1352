------------------------- MODULE WorkerLedgerProofs -------------------------
(***************************************************************************)
(* What the ledger and the acknowledgements guarantee: each run acts once, *)
(* nothing is acknowledged that has not acted, and `apply` implements the  *)
(* indivisible actions of Tickets.                                         *)
(***************************************************************************)
EXTENDS WorkerProofs, FiniteSetTheorems

\* A leaf that names no prover is tried with Zenon, then with SMT.
USE ZenonT(5), SMTT(20)

\* What makes an acknowledgement safe, step by step.
AckClaims(w) ==
    /\ pc[w] \in {"action", "close"} => ticket_actions[Run(w)] # NoAction
    /\ pc[w] = "ack" /\ Run(w) \in Events => runs[Run(w)].status = "concluded"

AckInv == (\A w \in Workers : AckClaims(w)) /\ AckedIsConcluded

\* ActedOnce, and that the ledger names no ticket that does not exist.
ActedInv ==
    /\ ActedOnce
    /\ \A t \in TicketIds : tickets[t].status = "absent" =>
          \A e \in Events : ticket_actions[e].ticket # t

\* The three invariants together are inductive.
WorkerInv == TicketInv /\ ActedInv /\ AckInv

-----------------------------------------------------------------------------
(* How a step can change the two ticket tables *)

\* Steps other than a commit and a recovery leave both tables alone.
LEMMA TablesChange ==
    ASSUME [Next]_vars
    PROVE  \/ UNCHANGED <<tickets, ticket_actions>>
           \/ \E w \in Workers : Commit(w)
           \/ \E fp \in Fingerprints : Recover(fp)
<1>1. ASSUME NEW w \in Workers, Work(w) \/ Failure(w) \/ Crash(w) \/ Restart(w), ~Commit(w)
      PROVE  UNCHANGED <<tickets, ticket_actions>>
  BY <1>1 DEF Work, Apply, Failure, EnsureGroup, Read, SkipPoison, Acknowledge, OpenRun, Record, Conclude,
         CloseRun, Replay, LockRun, InsertTicket, Conflict, UpdateTicket, UpdateMisses, CloseRefused, EnsureGroupFails,
         ReadLost, AckFails, HandleFails, CloseReplyLost, RecordFails, Crash, Restart, tables
<1> QED
  BY <1>1, ZenonT(30) DEF Next, Admit, Source!Admit, Enqueue, Source!Enqueue, Asleep, vars, tables

\* A commit by w, as the tables see it.
LEMMA CommitEffect ==
    ASSUME TicketInv, NEW w \in Workers, Commit(w)
    PROVE  LET t == outcome[w].ticket
               c == outcome[w].created
               n == outcome[w].update_count
               e == Run(w)
           IN  /\ t \in TicketIds /\ c \in BOOLEAN /\ e \in Events /\ n \in Nat
               /\ ticket_actions[e] = NoAction
               /\ ticket_actions' = [ticket_actions EXCEPT ![e] =
                     [ticket |-> t, created |-> c, update_count |-> n]]
               /\ c => /\ tickets[t].status = "absent" /\ OpenTickets(FpOf[e]) = {} /\ n = 0
                       /\ tickets' = [tickets EXCEPT ![t] =
                             [status |-> "open", fp |-> FpOf[e], update_count |-> 0]]
               /\ ~c => /\ t \in OpenTickets(FpOf[e]) /\ n = tickets[t].update_count + 1
                        /\ tickets' = [tickets EXCEPT ![t] = [@ EXCEPT !.update_count = n]]
<1>1. pc[w] = "ledger" /\ InApply(w) /\ Claims(w) /\ Run(w) \in Events /\ outcome[w] \in Outcome
  BY DEF Commit, GoTo, TicketInv, LedgerInv, Shape, TypeOK, HandShape, InHandle, InApply
<1>2. FpOf[Run(w)] \in Fingerprints
  BY <1>1, WorkerAssumption
<1>3. outcome[w].created => OpenTickets(FpOf[Run(w)]) = {}
  BY <1>1, <1>2 DEF Opening, TicketInv, OneOpenTicket
<1>4. ~outcome[w].created => outcome[w].ticket \in OpenTickets(FpOf[Run(w)])
  BY <1>1 DEF Claims, OpenTickets
<1>5. /\ outcome[w].created \in BOOLEAN /\ outcome[w].update_count \in Nat
      /\ outcome[w].created => tickets[outcome[w].ticket].status = "absent" /\ outcome[w].update_count = 0
      /\ ~outcome[w].created => outcome[w].update_count = tickets[outcome[w].ticket].update_count + 1
      /\ outcome[w].ticket \in TicketIds
      /\ ticket_actions[Run(w)] = NoAction
  BY <1>1 DEF Claims, Outcome
<1>6. outcome[w].created => tickets' = [tickets EXCEPT ![outcome[w].ticket] =
          [status |-> "open", fp |-> FpOf[Run(w)], update_count |-> 0]]
  BY DEF Commit
<1>7. ~outcome[w].created => tickets' = [tickets EXCEPT ![outcome[w].ticket] =
          [@ EXCEPT !.update_count = outcome[w].update_count]]
  BY DEF Commit
<1> QED
  BY <1>1, <1>3, <1>4, <1>5, <1>6, <1>7, Zenon DEF Commit

-----------------------------------------------------------------------------
(* apply implements Tickets *)

LEMMA CommitRefines ==
    ASSUME TicketInv, NEW w \in Workers, Commit(w)
    PROVE  Abstract!Next
<1> DEFINE t == outcome[w].ticket
           e == Run(w)
           n == outcome[w].update_count
<1>0. t \in TicketIds /\ e \in Events /\ ticket_actions[e] = NoAction /\ outcome[w].created \in BOOLEAN
  BY CommitEffect, ZenonT(30)
<1>1. CASE outcome[w].created
  <2>1. /\ ticket_actions' = [ticket_actions EXCEPT ![e] =
              [ticket |-> t, created |-> TRUE, update_count |-> 0]]
        /\ tickets[t].status = "absent" /\ OpenTickets(FpOf[e]) = {}
        /\ tickets' = [tickets EXCEPT ![t] = [status |-> "open", fp |-> FpOf[e], update_count |-> 0]]
    <3>1. outcome[w].created = TRUE
      BY <1>0, <1>1
    <3> QED
      BY <3>1, CommitEffect, ZenonT(30)
  <2>2. Abstract!OpenTicket(e, t)
    BY <1>0, <2>1 DEF Abstract!OpenTicket, Abstract!NoAction, NoAction, Abstract!OpenTickets, OpenTickets
  <2> QED
    BY <1>0, <2>2, Zenon DEF Abstract!Next
<1>2. CASE ~outcome[w].created
  <2>1. /\ ticket_actions' = [ticket_actions EXCEPT ![e] =
              [ticket |-> t, created |-> FALSE, update_count |-> n]]
        /\ t \in OpenTickets(FpOf[e]) /\ n = tickets[t].update_count + 1
        /\ tickets' = [tickets EXCEPT ![t] = [@ EXCEPT !.update_count = n]]
    <3>1. outcome[w].created = FALSE
      BY <1>0, <1>2
    <3> QED
      BY <3>1, CommitEffect, ZenonT(30)
  <2>2. OpenTickets(FpOf[e]) = {t}
    <3>1. FpOf[e] \in Fingerprints
      BY <1>0, WorkerAssumption
    <3> QED
      BY <2>1, <3>1 DEF TicketInv, OneOpenTicket
  <2>3. tickets' = [tickets EXCEPT ![t].update_count = @ + 1]
    BY <1>0, <2>1
  <2>4. Abstract!Comment(e, t)
    BY <1>0, <2>1, <2>2, <2>3 DEF Abstract!Comment, Abstract!NoAction, NoAction, Abstract!OpenTickets, OpenTickets
  <2> QED
    BY <1>0, <2>4, Zenon DEF Abstract!Next
<1> QED
  BY <1>0, <1>1, <1>2

LEMMA StepRefines ==
    TicketInv /\ [Next]_vars => [Abstract!Next]_<<tickets, ticket_actions>>
<1> SUFFICES ASSUME TicketInv, [Next]_vars PROVE [Abstract!Next]_<<tickets, ticket_actions>>
  OBVIOUS
<1>1. ASSUME NEW fp \in Fingerprints, Recover(fp) PROVE Abstract!Next
  <2>1. Abstract!Recover(fp)
    BY <1>1 DEF Recover, Abstract!Recover, OpenTickets, Abstract!OpenTickets
  <2> QED
    BY <2>1, Zenon DEF Abstract!Next
<1> QED
  BY <1>1, TablesChange, CommitRefines

\* The statements of service.apply, interleaved with other workers', recoveries,
\* failures and crashes, amount to one indivisible action per run: it opens the
\* ticket of its fingerprint or comments on the one there is.
THEOREM ApplyImplementsTickets == Spec => ImplementsTickets
<1>1. Init => Abstract!Init
  BY DEF Init, Abstract!Init, NoSuchTicket, Abstract!NoSuchTicket, NoAction, Abstract!NoAction
<1> QED
  BY <1>1, InitTicketInv, TicketInvKept, StepRefines, PTL DEF Spec, ImplementsTickets, Abstract!Spec

-----------------------------------------------------------------------------
(* Each run acts once *)

LEMMA ActedOnFinite ==
    ASSUME NEW t, NEW c PROVE IsFiniteSet(ActedOn(t, c)) /\ Cardinality(ActedOn(t, c)) \in Nat
<1>1. IsFiniteSet(ActedOn(t, c))
  BY WorkerAssumption, FS_Subset DEF ActedOn
<1> QED
  BY <1>1, FS_CardinalityType

LEMMA CommitActs ==
    ASSUME TicketInv, ActedInv, NEW w \in Workers, Commit(w)
    PROVE  ActedInv'
<1>a. PICK t \in TicketIds, e \in Events, c \in BOOLEAN, n \in Nat :
        t = outcome[w].ticket /\ e = Run(w) /\ c = outcome[w].created /\ n = outcome[w].update_count
  BY CommitEffect, ZenonT(30)
<1> DEFINE row == [ticket |-> t, created |-> c, update_count |-> n]
<1>0. ticket_actions[e] = NoAction /\ ticket_actions' = [ticket_actions EXCEPT ![e] = row]
  BY <1>a, CommitEffect, ZenonT(30)
<1>1. ticket_actions[e].ticket = NoTicket /\ NoTicket \notin TicketIds
  BY <1>0, WorkerAssumption DEF NoAction
<1>2. /\ ticket_actions'[e].ticket = t /\ ticket_actions'[e].created = c
      /\ \A f \in Events \ {e} : ticket_actions'[f] = ticket_actions[f]
  BY <1>0 DEF TicketInv, Shape, TypeOK
<1>3. /\ c => /\ tickets[t].status = "absent"
              /\ tickets' = [tickets EXCEPT ![t] = [status |-> "open", fp |-> FpOf[e], update_count |-> 0]]
      /\ ~c => /\ t \in OpenTickets(FpOf[e]) /\ n = tickets[t].update_count + 1
               /\ tickets' = [tickets EXCEPT ![t] = [@ EXCEPT !.update_count = n]]
  BY <1>a, CommitEffect
<1>4. tickets \in [TicketIds -> TicketRow]
  BY DEF TicketInv, Shape, TypeOK
<1> HIDE DEF row
<1>5. ActedOn(t, c)' = ActedOn(t, c) \cup {e} /\ e \notin ActedOn(t, c)
  BY <1>0, <1>1, <1>2 DEF ActedOn
<1>7. ASSUME NEW u \in TicketIds \ {t}
      PROVE  /\ tickets'[u] = tickets[u]
             /\ \A b \in BOOLEAN : ActedOn(u, b)' = ActedOn(u, b)
             /\ (\A f \in Events : ticket_actions[f].ticket # u) => \A f \in Events : ticket_actions'[f].ticket # u
  <2>1. tickets'[u] = tickets[u]
    BY <1>0, <1>3, <1>4
  <2>2. \A f \in Events : ticket_actions'[f].ticket = u <=> ticket_actions[f].ticket = u
    BY <1>0, <1>1, <1>2
  <2>3. \A f \in Events : ticket_actions[f].ticket = u => ticket_actions'[f] = ticket_actions[f]
    BY <1>0, <1>1, <1>2
  <2> QED
    BY <2>1, <2>2, <2>3 DEF ActedOn
<1>8. Cardinality(ActedOn(t, c) \cup {e}) = Cardinality(ActedOn(t, c)) + 1
  BY <1>5, ActedOnFinite, FS_AddElement, ZenonT(30)
<1>9. /\ tickets'[t].status # "absent"
      /\ Cardinality(ActedOn(t, TRUE)') = 1
      /\ tickets'[t].update_count = Cardinality(ActedOn(t, FALSE)')
      /\ \A f \in ActedOn(t, TRUE)' \cup ActedOn(t, FALSE)' : FpOf[f] = tickets'[t].fp
  <2>1. CASE c
    <3>1. tickets'[t] = [status |-> "open", fp |-> FpOf[e], update_count |-> 0]
      BY <1>0, <1>3, <1>4, <2>1
    <3>2. ActedOn(t, TRUE) = {} /\ ActedOn(t, FALSE) = {}
      BY <1>0, <1>3, <2>1 DEF ActedInv, ActedOn
    <3>3. ActedOn(t, TRUE)' = {e} /\ ActedOn(t, FALSE)' = {}
      <4>1. c = TRUE /\ ~c = FALSE
        BY <1>0, <2>1
      <4>2. ActedOn(t, TRUE)' = ActedOn(t, TRUE) \cup {e}
        BY <1>0, <1>1, <1>2, <4>1, ZenonT(30) DEF ActedOn
      <4>3. ActedOn(t, FALSE)' = ActedOn(t, FALSE)
        BY <1>0, <1>1, <1>2, <4>1, ZenonT(30) DEF ActedOn
      <4> QED
        BY <3>2, <4>2, <4>3, ZenonT(30)
    <3>4. Cardinality({e}) = 1 /\ Cardinality({}) = 0
      BY FS_Singleton, FS_EmptySet
    <3>5. tickets'[t].status # "absent" /\ tickets'[t].fp = FpOf[e] /\ tickets'[t].update_count = 0
      BY <3>1
    <3> QED
      BY <3>3, <3>4, <3>5, ZenonT(30)
  <2>2. CASE ~c
    <3>0. c = FALSE
      BY <1>0, <2>2
    <3>1. tickets[t] \in TicketRow /\ tickets[t].status = "open" /\ tickets[t].fp = FpOf[e]
      BY <1>0, <1>3, <1>4, <2>2 DEF OpenTickets
    <3>2. tickets'[t] = [tickets[t] EXCEPT !.update_count = n]
      BY <1>0, <1>3, <1>4, <2>2
    <3>3. tickets'[t].status = "open" /\ tickets'[t].fp = FpOf[e] /\ tickets'[t].update_count = n
      BY <3>1, <3>2 DEF TicketRow
    <3>4. /\ Cardinality(ActedOn(t, TRUE)) = 1
          /\ tickets[t].update_count = Cardinality(ActedOn(t, FALSE))
          /\ \A f \in ActedOn(t, TRUE) \cup ActedOn(t, FALSE) : FpOf[f] = tickets[t].fp
      BY <1>0, <3>1, ZenonT(30) DEF ActedInv, ActedOnce
    <3>5. ActedOn(t, FALSE)' = ActedOn(t, FALSE) \cup {e} /\ ActedOn(t, TRUE)' = ActedOn(t, TRUE)
      BY <1>0, <1>1, <1>2, <3>0 DEF ActedOn
    <3>6. Cardinality(ActedOn(t, FALSE)') = n
      BY <1>3, <1>8, <2>2, <3>0, <3>4, <3>5, ZenonT(30)
    <3> QED
      BY <3>1, <3>3, <3>4, <3>5, <3>6, ZenonT(30)
  <2> QED
    BY <1>0, <2>1, <2>2, ZenonT(30)
<1>10. ASSUME NEW u \in TicketIds, tickets'[u].status # "absent"
       PROVE  /\ Cardinality(ActedOn(u, TRUE)') = 1
              /\ tickets'[u].update_count = Cardinality(ActedOn(u, FALSE)')
              /\ \A f \in ActedOn(u, TRUE)' \cup ActedOn(u, FALSE)' : FpOf[f] = tickets'[u].fp
  <2>1. CASE u = t
    BY <1>9, <2>1, ZenonT(30)
  <2>2. CASE u # t
    <3>1. /\ tickets'[u] = tickets[u] /\ ActedOn(u, TRUE)' = ActedOn(u, TRUE)
          /\ ActedOn(u, FALSE)' = ActedOn(u, FALSE)
      BY <1>7, <2>2, ZenonT(30)
    <3> QED
      BY <1>10, <3>1, ZenonT(30) DEF ActedInv, ActedOnce
  <2> QED
    BY <2>1, <2>2, ZenonT(30)
<1>11. ASSUME NEW u \in TicketIds, tickets'[u].status = "absent"
       PROVE  \A f \in Events : ticket_actions'[f].ticket # u
  BY <1>7, <1>9, <1>11 DEF ActedInv
<1> QED
  BY <1>10, <1>11, Zenon DEF ActedInv, ActedOnce

LEMMA RecoverActs ==
    ASSUME TicketInv, ActedInv, NEW fp \in Fingerprints, Recover(fp)
    PROVE  ActedInv'
<1>1. ticket_actions' = ticket_actions
  BY DEF Recover
<1>2. \A t, c : ActedOn(t, c)' = ActedOn(t, c)
  BY <1>1 DEF ActedOn
<1>3. ASSUME NEW t \in TicketIds
      PROVE  /\ tickets'[t].status = "absent" <=> tickets[t].status = "absent"
             /\ tickets'[t].fp = tickets[t].fp /\ tickets'[t].update_count = tickets[t].update_count
  <2>1. tickets[t] \in TicketRow
    BY DEF TicketInv, Shape, TypeOK
  <2>2. CASE t \in OpenTickets(fp)
    <3>1. tickets'[t] = [tickets[t] EXCEPT !.status = "closed"] /\ tickets[t].status = "open"
      BY <2>2 DEF Recover, OpenTickets
    <3> QED
      BY <2>1, <3>1 DEF TicketRow
  <2>3. CASE t \notin OpenTickets(fp)
    BY <2>3 DEF Recover
  <2> QED
    BY <2>2, <2>3
<1>4. ActedOnce'
  BY <1>2, <1>3, ZenonT(30) DEF ActedOnce, ActedInv
<1> QED
  BY <1>1, <1>3, <1>4 DEF ActedInv

LEMMA ActedInvKept ==
    ASSUME TicketInv, ActedInv, [Next]_vars PROVE ActedInv'
<1>1. CASE UNCHANGED <<tickets, ticket_actions>>
  BY <1>1, ZenonT(30) DEF ActedInv, ActedOnce, ActedOn
<1> QED
  BY <1>1, TablesChange, CommitActs, RecoverActs

-----------------------------------------------------------------------------
(* What is acknowledged has acted *)

\* A run that has acted or concluded stays so.
LEMMA Settled ==
    ASSUME TicketInv, [Next]_vars
    PROVE  \A e \in Events :
              /\ ticket_actions[e] # NoAction => ticket_actions'[e] # NoAction
              /\ runs[e].status = "concluded" => runs'[e].status = "concluded"
<1>1. \A e \in Events : ticket_actions[e] # NoAction => ticket_actions'[e] # NoAction
  <2>1. ASSUME NEW w \in Workers, Commit(w)
        PROVE  \A e \in Events : ticket_actions[e] # NoAction => ticket_actions'[e] = ticket_actions[e]
    BY <2>1, CommitEffect, ZenonT(30) DEF TicketInv, Shape, TypeOK
  <2> QED
    BY <2>1, TablesChange DEF Recover
<1>2. ASSUME NEW e \in Events, runs[e].status = "concluded" PROVE runs'[e].status = "concluded"
  <2>0. runs \in [Events -> RunRow] /\ runs[e] \in RunRow
    BY DEF TicketInv, Shape, TypeOK
  <2>1. ASSUME NEW w \in Workers, OpenRun(w) PROVE runs'[e] = runs[e]
    BY <1>2, <2>0, <2>1 DEF OpenRun
  <2>2. ASSUME NEW w \in Workers, CloseRun(w) PROVE runs'[e].status = "concluded"
    <3>1. CASE e = Run(w)
      <4>1. runs'[e] = [[runs[e] EXCEPT !.status = "concluded"] EXCEPT !.end = Len(Log(w))]
        BY <2>0, <2>2, <3>1 DEF CloseRun
      <4> QED
        BY <2>0, <4>1 DEF RunRow
    <3>2. CASE e # Run(w)
      BY <1>2, <2>0, <2>2, <3>2, ZenonT(30) DEF CloseRun
    <3> QED
      BY <3>1, <3>2
  <2>3. \/ runs' = runs \/ \E w \in Workers : OpenRun(w) \/ CloseRun(w)
    BY ZenonT(30) DEF Next, Admit, Source!Admit, Enqueue, Source!Enqueue, Recover, Source!Recover,
      Asleep, vars, Work, Apply, Failure, EnsureGroup, Read, SkipPoison,
         Acknowledge, Record, Conclude, Replay, LockRun, InsertTicket, Conflict, UpdateTicket,
         UpdateMisses, CloseRefused, Commit, EnsureGroupFails, ReadLost, AckFails, HandleFails, CloseReplyLost,
         RecordFails, Crash, Restart, tables
  <2> QED
    BY <1>2, <2>1, <2>2, <2>3
<1> QED
  BY <1>1, <1>2

\* A run that this step concluded had acted.
LEMMA ConcludesAfterAction ==
    ASSUME WorkerInv, [Next]_vars, NEW e \in Events, runs'[e].status = "concluded"
    PROVE  ticket_actions'[e] # NoAction
<1>0. runs \in [Events -> RunRow]
  BY DEF WorkerInv, TicketInv, Shape, TypeOK
<1>1. CASE runs[e].status = "concluded"
  BY <1>1, Settled DEF WorkerInv, AckInv, AckedIsConcluded
<1>2. CASE runs[e].status # "concluded"
  <2>1. PICK w \in Workers : Conclude(w) \/ CloseReplyLost(w)
    <3>1. ~\E w \in Workers : OpenRun(w)
      <4>1. ASSUME NEW w \in Workers, OpenRun(w) PROVE runs'[e].status # "concluded"
        BY <1>0, <1>2, <4>1 DEF OpenRun
      <4> QED
        BY <4>1
    <3>2. runs' # runs
      BY <1>2
    <3> QED
      BY <3>1, <3>2, ZenonT(30) DEF Next, Admit, Source!Admit, Enqueue, Source!Enqueue, Recover, Source!Recover,
        Asleep, vars, Work, Apply, Failure, EnsureGroup, Read,
         SkipPoison, Acknowledge, Record, Replay, LockRun, InsertTicket, Conflict, UpdateTicket,
         UpdateMisses, CloseRefused, Commit, EnsureGroupFails, ReadLost, AckFails, HandleFails, RecordFails, Crash,
         Restart, tables
  <2>2. pc[w] = "close" /\ CloseRun(w)
    BY <2>1 DEF Conclude, CloseReplyLost, GoTo
  <2>3. e = Run(w)
    BY <1>0, <1>2, <2>2 DEF CloseRun
  <2> QED
    BY <2>2, <2>3, Settled, ZenonT(30) DEF WorkerInv, AckInv, AckClaims
<1> QED
  BY <1>1, <1>2

\* Another actor's step.
LEMMA AckClaimsStay ==
    ASSUME WorkerInv, [Next]_vars, StreamGrows, NEW v \in Workers,
           pc'[v] = pc[v], batch'[v] = batch[v]
    PROVE  AckClaims(v)'
<1> SUFFICES ASSUME pc[v] \in {"action", "close", "ack"} PROVE AckClaims(v)'
  BY DEF AckClaims
<1>1. Run(v)' = Run(v)
  BY RunKept DEF WorkerInv, TicketInv, Shape, HandShape, InHandle
<1>2. pc[v] \in {"action", "close"} => Run(v) \in Events
  BY DEF WorkerInv, TicketInv, Shape, HandShape, InHandle
<1> QED
  BY <1>1, <1>2, Settled DEF AckClaims, AckInv, WorkerInv

\* The worker's own step.
LEMMA AckClaimsMade ==
    ASSUME WorkerInv, [Next]_vars, NEW w \in Workers,
           Work(w) \/ Failure(w) \/ Crash(w) \/ Restart(w)
    PROVE  AckClaims(w)'
<1>0. TicketInv /\ Shape /\ pc \in [Workers -> WorkerPc] /\ runs \in [Events -> RunRow]
  BY DEF WorkerInv, TicketInv, Shape, TypeOK
<1>1. CASE Replay(w) \/ Commit(w)
  <2>1. Run(w)' = Run(w) /\ pc'[w] = "action"
    BY <1>0, <1>1 DEF Replay, Commit, GoTo, Run, queue
  <2>2. ticket_actions'[Run(w)] # NoAction
    <3>1. CASE Replay(w)
      BY <3>1 DEF Replay, tables
    <3>2. CASE Commit(w)
      <4>1. ticket_actions'[Run(w)] = [ticket |-> outcome[w].ticket, created |-> outcome[w].created,
                                       update_count |-> outcome[w].update_count]
        BY <1>0, <3>2, CommitEffect, ZenonT(30) DEF Shape, TypeOK
      <4>2. outcome[w].ticket # NoTicket
        BY <1>0, <3>2, CommitEffect, WorkerAssumption, ZenonT(30)
      <4> QED
        BY <4>1, <4>2 DEF NoAction
    <3> QED
      BY <1>1, <3>1, <3>2
  <2> QED
    BY <2>1, <2>2, ZenonT(30) DEF AckClaims
<1>2. CASE Record(w)
  <2>1. Run(w)' = Run(w) /\ pc'[w] # "ack" /\ UNCHANGED ticket_actions
    BY <1>0, <1>2 DEF Record, AfterRecord, Run, queue, tables
  <2>2. pc'[w] \in {"action", "close"} => pc[w] = "action"
    BY <1>0, <1>2 DEF Record, AfterRecord
  <2> QED
    BY <2>1, <2>2 DEF AckClaims, AckInv, WorkerInv
<1>3. CASE SkipPoison(w)
  <2>1. Run(w)' = Run(w) /\ pc'[w] = "ack" /\ Run(w) \notin Events
    BY <1>0, <1>3, WorkerAssumption DEF SkipPoison, GoTo, Run, queue
  <2> QED
    BY <2>1 DEF AckClaims
<1>4. CASE OpenRun(w)
  <2>1. Run(w)' = Run(w)
    BY <1>4 DEF OpenRun, Run, queue
  <2>2. \/ pc'[w] = "event"
        \/ pc'[w] = "ack" /\ runs' = runs /\ runs[Run(w)].status = "concluded"
    BY <1>0, <1>4 DEF OpenRun
  <2> QED
    BY <2>1, <2>2 DEF AckClaims
<1>5. CASE Conclude(w)
  <2>1. /\ Run(w)' = Run(w) /\ pc'[w] = "ack" /\ Run(w) \in Events
        /\ runs' = [runs EXCEPT ![Run(w)].status = "concluded", ![Run(w)].end = Len(Log(w))]
    BY <1>0, <1>5 DEF Conclude, CloseRun, GoTo, Run, queue, Shape, HandShape, InHandle
  <2>2. runs'[Run(w)] = [[runs[Run(w)] EXCEPT !.status = "concluded"] EXCEPT !.end = Len(Log(w))]
    BY <1>0, <2>1
  <2>3. runs'[Run(w)].status = "concluded"
    BY <1>0, <2>1, <2>2 DEF RunRow
  <2> QED
    BY <2>1, <2>3, ZenonT(30) DEF AckClaims
<1>6. CASE /\ ~Replay(w) /\ ~Commit(w) /\ ~Record(w)
           /\ ~SkipPoison(w) /\ ~OpenRun(w) /\ ~Conclude(w)
  <2>1. pc'[w] \notin {"action", "close", "ack"}
    BY <1>0, <1>6, ZenonT(30) DEF Work, Apply, Failure, EnsureGroup, Read, Acknowledge, LockRun, InsertTicket, Conflict,
         UpdateTicket, UpdateMisses, CloseRefused, EnsureGroupFails, ReadLost, AckFails, HandleFails, CloseReplyLost,
         RecordFails, Crash, Restart, GoTo, GiveUp
  <2> QED
    BY <2>1, ZenonT(30) DEF AckClaims
<1> QED
  BY <1>1, <1>2, <1>3, <1>4, <1>5, <1>6

\* Who leaves the group's pending list was acknowledged.
LEMMA AckedStep ==
    ASSUME WorkerInv, [Next]_vars, NEW m \in (1 .. delivered') \ pel'
    PROVE  /\ stream'[m] = stream[m]
           /\ \/ m \in (1 .. delivered) \ pel
              \/ \E w \in Workers : pc[w] = "ack" /\ stream[m] = Run(w)
<1>0. /\ delivered \in Nat /\ delivered <= Len(stream) /\ stream \in Seq(Events \cup {Poison})
  BY DEF WorkerInv, TicketInv, Shape, TypeOK, HandShape
<1>1. CASE UNCHANGED queue
  BY <1>1 DEF queue
<1>2. ASSUME NEW x \in Events \cup {Poison}, Enqueue(x)
      PROVE  stream'[m] = stream[m] /\ m \in (1 .. delivered) \ pel
  BY <1>0, <1>2 DEF Enqueue, Source!Enqueue
<1>3. ASSUME NEW w \in Workers, Read(w) \/ ReadLost(w)
      PROVE  stream'[m] = stream[m] /\ m \in (1 .. delivered) \ pel
  <2>1. PICK n \in 1 .. ReadCount : Deliver(n)
    BY <1>3 DEF Read, ReadLost
  <2> QED
    BY <1>0, <2>1, WorkerAssumption DEF Deliver
<1>4. ASSUME NEW w \in Workers, Acknowledge(w) \/ AckFails(w)
      PROVE  /\ stream'[m] = stream[m]
             /\ \/ m \in (1 .. delivered) \ pel
                \/ pc[w] = "ack" /\ stream[m] = Run(w)
  BY <1>4, ZenonT(30) DEF Acknowledge, AckFails, GoTo, Run
<1>5. \/ UNCHANGED queue
      \/ \E x \in Events \cup {Poison} : Enqueue(x)
      \/ \E w \in Workers : Read(w) \/ ReadLost(w) \/ Acknowledge(w) \/ AckFails(w)
  BY ZenonT(30) DEF Next, Admit, Source!Admit, Recover, Source!Recover,
    Asleep, vars, queue, Work, Apply, Failure, EnsureGroup, SkipPoison, OpenRun, Record,
         Conclude, CloseRun, Replay, LockRun, InsertTicket, Conflict, UpdateTicket, UpdateMisses, CloseRefused, Commit,
         EnsureGroupFails, HandleFails, CloseReplyLost, RecordFails, Crash, Restart
<1> QED
  BY <1>1, <1>2, <1>3, <1>4, <1>5

LEMMA AckInvKept ==
    ASSUME WorkerInv, [Next]_vars PROVE AckInv'
<1>0. TicketInv /\ Shape
  BY DEF WorkerInv, TicketInv
<1>1. ASSUME NEW v \in Workers PROVE AckClaims(v)'
  <2>1. ASSUME NEW w \in Workers, Work(w) \/ Failure(w) \/ Crash(w) \/ Restart(w) PROVE AckClaims(v)'
    <3>1. CASE v = w
      BY <2>1, <3>1, AckClaimsMade
    <3>2. CASE v # w
      <4>1. stream' = stream /\ pc'[v] = pc[v] /\ batch'[v] = batch[v]
        BY <1>0, <2>1, <3>2, OthersSame
      <4>2. StreamGrows
        BY <1>0, <4>1, SameStream
      <4> QED
        BY <4>1, <4>2, AckClaimsStay
    <3> QED
      BY <3>1, <3>2
  <2>2. ASSUME NEW m \in Events \cup {Poison}, Enqueue(m) PROVE AckClaims(v)'
    <3>1. StreamGrows /\ UNCHANGED <<pc, batch>>
      BY <1>0, <2>2 DEF Enqueue, Source!Enqueue, StreamGrows, Shape, TypeOK
    <3> QED
      BY <3>1, AckClaimsStay
  <2>3. CASE UNCHANGED <<stream, pc, batch>>
    BY <1>0, <2>3, SameStream, AckClaimsStay
  <2> QED
    BY <2>1, <2>2, <2>3 DEF Next, Admit, Source!Admit, Recover, Source!Recover, Asleep, vars, queue
<1>2. ASSUME NEW m \in (1 .. delivered') \ pel', stream'[m] \in Events
      PROVE  runs'[stream'[m]].status = "concluded"
  <2>1. runs[stream[m]].status = "concluded" /\ stream[m] \in Events
    BY <1>2, AckedStep DEF WorkerInv, AckInv, AckClaims, AckedIsConcluded
  <2> QED
    BY <1>0, <2>1, AckedStep, Settled
<1>3. \A e \in Events : runs'[e].status = "concluded" => ticket_actions'[e] # NoAction
  BY ConcludesAfterAction
<1>4. AckedIsConcluded'
  BY <1>2, <1>3 DEF AckedIsConcluded
<1> QED
  BY <1>1, <1>4 DEF AckInv

LEMMA InitWorkerInv == Init => WorkerInv
<1> SUFFICES ASSUME Init PROVE WorkerInv
  OBVIOUS
<1>1. ActedInv
  BY WorkerAssumption, ZenonT(30) DEF Init, ActedInv, ActedOnce, NoSuchTicket, NoAction
<1>2. \A w \in Workers : AckClaims(w)
  BY DEF Init, AckClaims
<1>3. \A e \in Events : runs[e].status # "concluded"
  BY DEF Init, NoRun
<1>4. 1 .. delivered = {}
  BY DEF Init
<1> QED
  BY <1>1, <1>2, <1>3, <1>4, InitTicketInv DEF WorkerInv, AckInv, AckedIsConcluded

LEMMA WorkerInvKept == WorkerInv /\ [Next]_vars => WorkerInv'
BY TicketInvKept, ActedInvKept, AckInvKept DEF WorkerInv

\* Each run acts at most once, however often its event is enqueued, delivered,
\* retried or interrupted (the ledger row read and written by service.apply): a
\* ticket has one opener, and its update_count counts its other runs.
THEOREM RunsActOnce == Spec => []ActedOnce
<1>1. WorkerInv => ActedOnce
  BY DEF WorkerInv, ActedInv
<1> QED
  BY <1>1, InitWorkerInv, WorkerInvKept, PTL DEF Spec

\* The worker acknowledges an event only once its run is concluded, and a run is
\* concluded only once it has acted (the order of handle and run_worker).
THEOREM NothingLost == Spec => []AckedIsConcluded
<1>1. WorkerInv => AckedIsConcluded
  BY DEF WorkerInv, AckInv
<1> QED
  BY <1>1, InitWorkerInv, WorkerInvKept, PTL DEF Spec
=============================================================================
