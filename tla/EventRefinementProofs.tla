------------------------- MODULE EventRefinementProofs -------------------------
(***************************************************************************)
(* EventDelivery implements RunProjection, and what follows from the same  *)
(* inductive invariant: what the server shows as the end of a Run is how it*)
(* ended on the machine and stays, and a POST is refused only when one of  *)
(* its events was overtaken by a younger one.                              *)
(*                                                                         *)
(* The invariant says that the log of a Run is a legal history, that the   *)
(* server has accepted a part of it and shows the status of the newest     *)
(* accepted event, and that an open batch transaction has moved on from    *)
(* the row it started with along the log.                                  *)
(***************************************************************************)
EXTENDS EventSafetyProofs

----------------------------------------------------------------------------
(* Statuses.                                                               *)

\* t can be shown some time after s.
Leads(s, t) == s = t \/ (s \notin TerminalStatuses /\ t \in AllowedTransitions[s])

\* Every kind of event is legal in the local statuses in which it is emitted.
LEMMA EmittedIsLegal ==
    ASSUME NEW k \in DOMAIN EmittedIn, NEW s \in EmittedIn[k], s \notin TerminalStatuses
    PROVE  s \in Statuses /\ Accepts(s, k)
  BY DEF EmittedIn, Accepts, TerminalStatuses, Statuses, StatusKinds, EventStatus,
         AllowedTransitions

LEMMA AcceptedLeads ==
    ASSUME NEW s \in Statuses, NEW k, Accepts(s, k)
    PROVE  Leads(s, StatusAfter(s, k)) /\ s \notin TerminalStatuses
  BY DEF Accepts, Leads, StatusAfter

\* AllowedTransitions is transitive.
LEMMA LeadsOn ==
    ASSUME NEW s \in Statuses, NEW t \in Statuses, NEW u \in Statuses,
           Leads(s, t), Leads(t, u)
    PROVE  Leads(s, u)
  BY DEF Leads, TerminalStatuses, Statuses, AllowedTransitions

\* What is legal later was legal before.
LEMMA LegalBefore ==
    ASSUME NEW s \in Statuses, NEW t \in Statuses, NEW k \in Kinds, Leads(s, t), Accepts(t, k)
    PROVE  Accepts(s, k)
  <1>1. s \notin TerminalStatuses
    BY DEF Leads, Accepts
  <1>2. k \in StatusKinds => EventStatus[k] \in Statuses /\ Leads(t, EventStatus[k])
    BY KindFacts DEF Leads, Accepts
  <1>3. \A u \in Statuses : Leads(s, u) => u \in AllowedTransitions[s]
    BY <1>1 DEF Leads, TerminalStatuses, Statuses, AllowedTransitions
  <1> QED
    BY <1>1, <1>2, <1>3, LeadsOn DEF Accepts

\* A Run that was just created takes every event.
LEMMA CreatedAcceptsAll == \A k \in Kinds : Accepts("CREATED", k)
  BY KindFacts DEF Accepts, TerminalStatuses, AllowedTransitions

----------------------------------------------------------------------------
(* The invariant.                                                          *)

\* The log of a Run is a legal history that ends in its local status.
Legal(r) ==
    /\ \A i \in DOMAIN log[r] :
          log[r][i] \in StatusKinds => Leads(EventStatus[log[r][i]], status[r])
    /\ \A i, j \in DOMAIN log[r] :
          i < j /\ log[r][i] \in StatusKinds => Accepts(EventStatus[log[r][i]], log[r][j])

MachineInv ==
    \A r \in Runs :
        /\ local[r] = "absent" => log[r] = <<>> /\ status[r] = "CREATED"
        /\ Legal(r)

\* Events that travel, that a transaction deals with or that were accepted are
\* in the log.
InLog ==
    /\ \A r \in Runs, d \in Drainers : batch[d][r] \subseteq DOMAIN log[r]
    /\ \A q \in late : q.seqs \subseteq DOMAIN log[q.run]
    /\ \A r \in Runs :
          /\ srv[r].accepted \subseteq DOMAIN log[r]
          /\ tx[r].open =>
                tx[r].seqs \subseteq DOMAIN log[r] /\ tx[r].row.accepted \subseteq DOMAIN log[r]

\* A row shows the status of an accepted event and has seen none beyond lastSeq.
Shows(r, row) ==
    /\ \A m \in row.accepted : m <= row.lastSeq
    /\ \/ row.status = "CREATED"
       \/ \E i \in row.accepted : log[r][i] \in StatusKinds /\ row.status = EventStatus[log[r][i]]

RowsShow == \A r \in Runs : Shows(r, srv[r]) /\ (tx[r].open => Shows(r, tx[r].row))

\* What the open transaction on r has accepted beyond the row it started from.
Fresh(r) == tx[r].row.accepted \ srv[r].accepted

\* s is the status of the newest status event of S, or old if S has none.
NewestSays(r, S, old, s) ==
    /\ \A n \in S : Newest(S, r, StatusKinds, n) => s = EventStatus[log[r][n]]
    /\ (\A n \in S : log[r][n] \notin StatusKinds) => s = old

\* An open transaction moved the status along its fresh events.
MovesOn(r) ==
    /\ \A n \in Fresh(r), m \in srv[r].accepted : n > m
    /\ NewestSays(r, Fresh(r), srv[r].status, tx[r].row.status)
    /\ Fresh(r) # {} =>
          srv[r].status \notin TerminalStatuses /\ Leads(srv[r].status, tx[r].row.status)

BatchMovesOn == \A r \in Runs : tx[r].open => MovesOn(r)

\* A transaction deals with its events in order of seq.
InOrder(r) ==
    /\ tx[r].todo \subseteq tx[r].seqs
    /\ \A m \in tx[r].seqs \ tx[r].todo, n \in tx[r].todo : m < n
    /\ tx[r].row.lastSeq \in {srv[r].lastSeq} \cup (tx[r].seqs \ tx[r].todo)
    /\ tx[r].row.lastSeq >= srv[r].lastSeq
    /\ srv[r].stored \subseteq tx[r].row.stored
    /\ \A n \in tx[r].row.stored \ srv[r].stored : n > srv[r].lastSeq

BatchInOrder == \A r \in Runs : tx[r].open => InOrder(r)

HistoryInv ==
    /\ DeliveryInv
    /\ MachineInv
    /\ InLog
    /\ RowsShow
    /\ BatchMovesOn
    /\ BatchInOrder

LEMMA InitHistory == Init => HistoryInv
  <1> SUFFICES ASSUME Init PROVE HistoryInv
    OBVIOUS
  <1>1. DeliveryInv
    BY InitDelivery
  <1>2. MachineInv
    BY DEF Init, MachineInv, Legal
  <1>3. InLog
    BY DEF Init, InLog, NoBatch, NoRow, Closed
  <1>4. RowsShow /\ BatchMovesOn /\ BatchInOrder
    BY DEF Init, RowsShow, Shows, BatchMovesOn, BatchInOrder, NoRow, Closed
  <1> QED
    BY <1>1, <1>2, <1>3, <1>4 DEF HistoryInv

----------------------------------------------------------------------------
(* The machine's log.                                                      *)

LogType == log \in [Runs -> Seq(Kinds)] /\ status \in [Runs -> Statuses]

LEMMA LogTypes ==
    ASSUME TypeInv
    PROVE  /\ LogType
           /\ \A r \in Runs : /\ log[r] \in Seq(Kinds)
                              /\ DOMAIN log[r] = 1..Len(log[r]) /\ Len(log[r]) \in Nat
                              /\ \A i \in DOMAIN log[r] : log[r][i] \in Kinds
  <1>1. LogType
    BY DEF TypeInv, TypeOK, LogType
  <1> QED
    BY <1>1 DEF LogType

\* The log grows at its end.
Grows(r) ==
    /\ DOMAIN log[r] \subseteq DOMAIN log'[r]
    /\ \A i \in DOMAIN log[r] : log'[r][i] = log[r][i]

\* A step extends one log or none.
LEMMA LogSteps ==
    ASSUME TypeInv, Next
    PROVE  \/ \E r \in Runs : CreateRun(r) \/ \E k \in DOMAIN EmittedIn : AppendEvent(r, k)
           \/ /\ log' = log /\ status' = status
              /\ \A r \in Runs : local'[r] = "absent" => local[r] = "absent"
  <1>1. ASSUME NEW m \in PruneModes, PruneSelect(m)
        PROVE  log' = log /\ status' = status /\ local' = local
    BY <1>1 DEF PruneSelect
  <1>2. CASE PruneDelete
    <2>1. log' = log /\ status' = status
      BY <1>2 DEF PruneDelete
    <2>2. ASSUME NEW r \in Runs, local'[r] = "absent" PROVE local[r] = "absent"
      BY <1>2, <2>2 DEF PruneDelete
    <2> QED
      BY <2>1, <2>2
  <1>3. ASSUME ~\E r \in Runs : CreateRun(r) \/ \E k \in DOMAIN EmittedIn : AppendEvent(r, k),
               ~\E m \in PruneModes : PruneSelect(m), ~PruneDelete
        PROVE  log' = log /\ status' = status /\ local' = local
    BY <1>3, NextIsSteps
       DEF Steps, BackoffExpires, RetainEvents, AbortBatch, SkipDuplicate,
           IngestEvent, RefuseBatch, CommitBatch, StartDrain, StartSync, Fetch, PutAnswered,
           Lose, DrainNothing, NextGroup, FinishBatch, PostAnswered, RequestFailed,
           GiveUpEarly, GiveUpWaiting, Crash, RegisterRun, UpdateRun, BeginBatch, localVars
  <1> QED
    BY <1>1, <1>2, <1>3

LEMMA CreateStep ==
    ASSUME TypeInv, MachineInv, NEW r \in Runs, CreateRun(r)
    PROVE  /\ MachineInv' /\ \A p \in Runs : Grows(p)
           /\ log' = [log EXCEPT ![r] = Append(@, "created")]
  <1>1. /\ log[r] = <<>> /\ status[r] = "CREATED" /\ local'[r] = "present"
        /\ log'[r] = <<"created">> /\ status' = status
        /\ \A p \in Runs \ {r} : log'[p] = log[p] /\ local'[p] = local[p]
    BY DEF CreateRun, MachineInv, TypeInv, TypeOK
  <1>2. DOMAIN log'[r] = {1} /\ log'[r][1] = "created" /\ DOMAIN log[r] = {}
    BY <1>1
  <1>3. EventStatus["created"] = "CREATED"
    BY DEF EventStatus
  <1>4. Legal(r)'
    BY <1>1, <1>2, <1>3 DEF Legal, Leads
  <1>5. \A p \in Runs \ {r} : Legal(p)'
    BY <1>1 DEF MachineInv, Legal
  <1>6. MachineInv'
    BY <1>1, <1>4, <1>5 DEF MachineInv
  <1>7. \A p \in Runs : Grows(p)
    BY <1>1, <1>2 DEF Grows
  <1>8. log' = [log EXCEPT ![r] = Append(@, "created")]
    BY <1>1 DEF CreateRun
  <1> QED
    BY <1>6, <1>7, <1>8

LEMMA AppendStep ==
    ASSUME TypeInv, MachineInv, NEW r \in Runs, NEW k \in DOMAIN EmittedIn, AppendEvent(r, k)
    PROVE  /\ MachineInv' /\ \A p \in Runs : Grows(p)
           /\ log' = [log EXCEPT ![r] = Append(@, k)]
           /\ k \in Kinds /\ \A n \in DOMAIN log[r] :
                 log[r][n] \in StatusKinds => EventStatus[log[r][n]] \notin TerminalStatuses
  <1>0. LogType /\ log[r] \in Seq(Kinds) /\ k \in Kinds /\ Legal(r)
    BY LogTypes, KindFacts DEF MachineInv
  <1>1. /\ log' = [log EXCEPT ![r] = Append(@, k)]
        /\ status' = [status EXCEPT ![r] = StatusAfter(@, k)]
        /\ local' = local /\ local[r] = "present"
    BY DEF AppendEvent
  <1>2. status[r] \in Statuses /\ Accepts(status[r], k) /\ status[r] \notin TerminalStatuses
    BY EmittedIsLegal DEF AppendEvent, MayAppend
  <1> DEFINE L == Len(log[r]) + 1
  <1>3. /\ L \in Nat /\ DOMAIN log[r] = 1..Len(log[r]) /\ DOMAIN log'[r] = 1..L
        /\ log'[r][L] = k /\ status'[r] = StatusAfter(status[r], k)
        /\ \A i \in DOMAIN log[r] : log'[r][i] = log[r][i]
    BY <1>0, <1>1 DEF LogType
  <1>4. \A p \in Runs \ {r} : log'[p] = log[p] /\ status'[p] = status[p]
    BY <1>0, <1>1 DEF LogType
  <1>5. StatusAfter(status[r], k) \in Statuses /\ Leads(status[r], StatusAfter(status[r], k))
    BY <1>0, <1>2, AcceptedLeads, KindFacts
  <1>6. \A i \in DOMAIN log[r] : log[r][i] \in StatusKinds =>
           /\ EventStatus[log[r][i]] \in Statuses
           /\ Leads(EventStatus[log[r][i]], status[r])
           /\ Accepts(EventStatus[log[r][i]], k)
           /\ Leads(EventStatus[log[r][i]], status'[r])
    BY <1>0, <1>2, <1>3, <1>5, KindFacts, LegalBefore, LeadsOn DEF Legal
  <1>7. Legal(r)'
    <2>1. ASSUME NEW i \in 1..L, log'[r][i] \in StatusKinds
          PROVE  Leads(EventStatus[log'[r][i]], status'[r])
      <3>1. CASE i = L
        BY <1>3, <2>1, <3>1 DEF Leads, StatusAfter
      <3>2. CASE i # L
        <4>1. i \in DOMAIN log[r]
          BY <1>3, <2>1, <3>2
        <4> QED
          BY <1>3, <1>6, <2>1, <4>1
      <3> QED
        BY <3>1, <3>2
    <2>2. ASSUME NEW i \in 1..L, NEW j \in 1..L, i < j, log'[r][i] \in StatusKinds
          PROVE  Accepts(EventStatus[log'[r][i]], log'[r][j])
      <3>1. i \in DOMAIN log[r] /\ log'[r][i] = log[r][i]
        BY <1>3, <2>2
      <3>2. CASE j = L
        BY <1>3, <1>6, <2>2, <3>1, <3>2
      <3>3. CASE j # L
        <4>1. j \in DOMAIN log[r] /\ log'[r][j] = log[r][j]
          BY <1>3, <2>2, <3>3
        <4> QED
          BY <1>0, <2>2, <3>1, <4>1 DEF Legal
      <3> QED
        BY <3>2, <3>3
    <2> QED
      BY <1>3, <2>1, <2>2 DEF Legal
  <1>8. \A p \in Runs \ {r} : Legal(p)'
    BY <1>4 DEF MachineInv, Legal
  <1>9. MachineInv'
    BY <1>1, <1>4, <1>7, <1>8 DEF MachineInv
  <1>10. \A p \in Runs : Grows(p)
    BY <1>3, <1>4 DEF Grows
  <1>11. \A n \in DOMAIN log[r] :
            log[r][n] \in StatusKinds => EventStatus[log[r][n]] \notin TerminalStatuses
    BY <1>2, <1>6 DEF Leads
  <1> QED
    BY <1>0, <1>1, <1>9, <1>10, <1>11

LEMMA StepMachine ==
    ASSUME TypeInv, MachineInv, Next
    PROVE  MachineInv' /\ \A r \in Runs : Grows(r)
  <1>1. CASE \E r \in Runs : CreateRun(r) \/ \E k \in DOMAIN EmittedIn : AppendEvent(r, k)
    BY <1>1, CreateStep, AppendStep
  <1>2. CASE /\ log' = log /\ status' = status
             /\ \A r \in Runs : local'[r] = "absent" => local[r] = "absent"
    BY <1>2 DEF MachineInv, Legal, Grows
  <1> QED
    BY <1>1, <1>2, LogSteps

----------------------------------------------------------------------------
(* Requests on their way.                                                  *)

LEMMA BatchShrinks ==
    ASSUME TypeInv, Next, NEW d \in Drainers, NEW r \in Runs
    PROVE  batch'[d][r] \subseteq batch[d][r] \cup Pending(r)
  <1> USE DrainerTypes DEF BatchType, CurType
  <1>1. ASSUME NEW e \in Drainers, Fetch(e) PROVE batch'[d][r] \subseteq batch[d][r] \cup Pending(r)
    BY <1>1 DEF Fetch
  <1>2. ASSUME NEW e \in Drainers, NEW p \in Runs, NextGroup(e, p)
        PROVE  batch'[d][r] \subseteq batch[d][r]
    BY <1>2 DEF NextGroup
  <1>3. ASSUME NEW e \in Drainers, PostAnswered(e) \/ RequestFailed(e) \/ Crash(e)
        PROVE  batch'[d][r] \subseteq batch[d][r]
    BY <1>3 DEF PostAnswered, RequestFailed, Crash, NoBatch
  <1>4. ASSUME ~\E e \in Drainers : \/ Fetch(e) \/ PostAnswered(e) \/ RequestFailed(e) \/ Crash(e)
                                    \/ \E p \in Runs : NextGroup(e, p)
        PROVE  batch' = batch
    BY <1>4, NextIsSteps
       DEF Steps, CreateRun, AppendEvent, BackoffExpires, RetainEvents, AbortBatch, SkipDuplicate,
           IngestEvent, RefuseBatch, CommitBatch, PruneSelect, PruneDelete, StartDrain, StartSync,
           PutAnswered, Lose, DrainNothing, FinishBatch, GiveUpEarly, GiveUpWaiting, RegisterRun,
           UpdateRun, BeginBatch, drainVars
  <1> QED
    BY <1>1, <1>2, <1>3, <1>4

\* A late request is one a client sent and gave up on.
LEMMA LateWasSent ==
    ASSUME TypeInv, Next, NEW q \in late'
    PROVE  \/ q \in late
           \/ \E d \in Drainers :
                 /\ call[d] = "sent" /\ pc[d] \in LateKinds
                 /\ q.kind = pc[d] /\ q.run = cur[d] /\ q.seqs = batch[d][cur[d]]
  <1>1. ASSUME NEW d \in Drainers, GiveUpEarly(d) \/ Crash(d), q \notin late
        PROVE  /\ call[d] = "sent" /\ pc[d] \in LateKinds
               /\ q.kind = pc[d] /\ q.run = cur[d] /\ q.seqs = batch[d][cur[d]]
    BY <1>1 DEF GiveUpEarly, Crash, Request
  <1>2. ASSUME NEW p \in Requests, RegisterRun(p) \/ UpdateRun(p) \/ BeginBatch(p)
        PROVE  late' \subseteq late
    BY <1>2 DEF RegisterRun, UpdateRun, BeginBatch, Answer
  <1>3. ASSUME ~\E d \in Drainers : GiveUpEarly(d) \/ Crash(d),
               ~\E p \in Requests : RegisterRun(p) \/ UpdateRun(p) \/ BeginBatch(p)
        PROVE  late' = late
    BY <1>3, NextIsSteps
       DEF Steps, CreateRun, AppendEvent, BackoffExpires, RetainEvents, AbortBatch, SkipDuplicate,
           IngestEvent, RefuseBatch, CommitBatch, PruneSelect, PruneDelete, StartDrain, StartSync,
           Fetch, PutAnswered, Lose, DrainNothing, NextGroup, FinishBatch, PostAnswered,
           RequestFailed, GiveUpWaiting
  <1> QED
    BY <1>1, <1>2, <1>3

LEMMA StepInFlight ==
    ASSUME TypeInv, InLog, Next, \A r \in Runs : Grows(r)
    PROVE  /\ \A r \in Runs, d \in Drainers : batch'[d][r] \subseteq DOMAIN log'[r]
           /\ \A q \in late' : q.seqs \subseteq DOMAIN log'[q.run]
  <1>1. ASSUME NEW r \in Runs, NEW d \in Drainers PROVE batch'[d][r] \subseteq DOMAIN log'[r]
    <2>1. Pending(r) \subseteq DOMAIN log[r]
      BY LogTypes DEF Pending
    <2> QED
      BY <2>1, BatchShrinks DEF InLog, Grows
  <1>2. ASSUME NEW q \in late' PROVE q.seqs \subseteq DOMAIN log'[q.run]
    <2>1. CASE q \in late
      <3>1. q.run \in Runs
        BY <2>1 DEF TypeInv, TypeOK, LateRequest
      <3> QED
        BY <2>1, <3>1 DEF InLog, Grows
    <2>2. ASSUME NEW d \in Drainers, q.run = cur[d], q.seqs = batch[d][cur[d]]
          PROVE  q.seqs \subseteq DOMAIN log'[q.run]
      BY <2>2, DrainerTypes DEF InLog, Grows, CurType
    <2> QED
      BY <2>1, <2>2, LateWasSent
  <1> QED
    BY <1>1, <1>2

----------------------------------------------------------------------------
(* Rows and transactions.                                                  *)

RowsInLog ==
    \A r \in Runs :
        /\ srv[r].accepted \subseteq DOMAIN log[r]
        /\ tx[r].open =>
              tx[r].seqs \subseteq DOMAIN log[r] /\ tx[r].row.accepted \subseteq DOMAIN log[r]

RowsInv == RowsInLog /\ RowsShow /\ BatchMovesOn /\ BatchInOrder

LEMMA QuietRows ==
    ASSUME RowsInv, Quiet, \A r \in Runs : Grows(r)
    PROVE  RowsInv'
  <1> SUFFICES ASSUME NEW r \in Runs
               PROVE  /\ srv'[r].accepted \subseteq DOMAIN log'[r]
                      /\ Shows(r, srv[r])'
                      /\ tx'[r].open => /\ tx'[r].seqs \subseteq DOMAIN log'[r]
                                        /\ tx'[r].row.accepted \subseteq DOMAIN log'[r]
                                        /\ Shows(r, tx[r].row)'
                                        /\ MovesOn(r)'
                                        /\ InOrder(r)'
    BY DEF RowsInv, RowsInLog, RowsShow, BatchMovesOn, BatchInOrder
  <1>1. SameRow(r) /\ SameBatch(r) /\ Grows(r)
    BY DEF Quiet
  <1>2. srv'[r].accepted \subseteq DOMAIN log'[r] /\ Shows(r, srv[r])'
    BY <1>1 DEF RowsInv, RowsInLog, RowsShow, Shows, SameRow, Grows
  <1>3. ASSUME tx'[r].open
        PROVE  /\ tx'[r].seqs \subseteq DOMAIN log'[r] /\ tx'[r].row.accepted \subseteq DOMAIN log'[r]
               /\ Shows(r, tx[r].row)' /\ MovesOn(r)' /\ InOrder(r)'
    <2>1. /\ tx[r].open /\ tx'[r].seqs = tx[r].seqs /\ tx'[r].todo = tx[r].todo
          /\ tx'[r].row.accepted = tx[r].row.accepted /\ tx'[r].row.status = tx[r].row.status
          /\ tx'[r].row.lastSeq = tx[r].row.lastSeq
          /\ tx'[r].row.stored \subseteq tx[r].row.stored
          /\ srv'[r].stored \cap tx[r].row.stored \subseteq tx'[r].row.stored
          /\ tx'[r].row.stored \cap srv[r].stored \subseteq srv'[r].stored
      BY <1>1, <1>3 DEF SameBatch
    <2>2. /\ tx'[r].seqs \subseteq DOMAIN log'[r] /\ tx'[r].row.accepted \subseteq DOMAIN log'[r]
          /\ Shows(r, tx[r].row)'
      BY <1>1, <2>1 DEF RowsInv, RowsInLog, RowsShow, Shows, Grows
    <2>3. /\ Fresh(r)' = Fresh(r) /\ \A n \in Fresh(r) : log'[r][n] = log[r][n]
          /\ MovesOn(r)
      BY <1>1, <2>1 DEF Fresh, SameRow, RowsInv, RowsInLog, BatchMovesOn, Grows
    <2>4. MovesOn(r)'
      BY <1>1, <2>1, <2>3 DEF MovesOn, NewestSays, Newest, SameRow
    <2>5. InOrder(r)'
      BY <1>1, <2>1 DEF RowsInv, BatchInOrder, InOrder, SameRow
    <2> QED
      BY <2>2, <2>4, <2>5
  <1> QED
    BY <1>2, <1>3

\* A transaction starts with the row and has accepted nothing yet.
LEMMA BeginRows ==
    ASSUME TypeInv, InLog, RowsInv, NEW q \in Requests, BeginBatch(q)
    PROVE  RowsInv'
  <1>1. CASE ~srv[q.run].exists
    BY <1>1 DEF BeginBatch, localVars, RowsInv, RowsInLog, RowsShow, Shows, BatchMovesOn, MovesOn,
                NewestSays, Newest, Fresh, BatchInOrder, InOrder
  <1>2. CASE srv[q.run].exists
    <2> DEFINE r == q.run
    <2>1. /\ r \in Runs /\ srv' = srv /\ log' = log
          /\ tx'[r] = [open |-> TRUE, from |-> q.from, seqs |-> q.seqs,
                       todo |-> q.seqs, row |-> srv[r]]
          /\ \A p \in Runs \ {r} : tx'[p] = tx[p]
      BY <1>2, RequestFacts, DrainerTypes DEF BeginBatch, localVars, TxType
    <2>2. q.seqs \subseteq DOMAIN log[r]
      BY RequestFacts DEF InLog
    <2>3. srv[r] \in Row
      BY <2>1, DrainerTypes DEF SrvType
    <2>4. tx'[r].seqs = q.seqs /\ tx'[r].todo = q.seqs /\ tx'[r].row = srv[r]
      BY <2>1
    <2>5. Fresh(r)' = {}
      BY <2>1, <2>4 DEF Fresh
    <2>6. MovesOn(r)'
      BY <2>1, <2>4, <2>5 DEF MovesOn, NewestSays
    <2>7. InOrder(r)'
      BY <2>1, <2>3, <2>4 DEF InOrder, Row
    <2>8. Shows(r, tx[r].row)' /\ tx'[r].row.accepted \subseteq DOMAIN log[r]
      BY <2>1, <2>4 DEF RowsInv, RowsShow, Shows, RowsInLog
    <2>9. ASSUME NEW p \in Runs \ {r}, tx'[p].open
          PROVE  Shows(p, tx[p].row)' /\ MovesOn(p)' /\ InOrder(p)'
      BY <2>1, <2>9 DEF RowsInv, RowsShow, Shows, BatchMovesOn, MovesOn, NewestSays, Newest, Fresh,
                        BatchInOrder, InOrder
    <2> QED
      BY <2>1, <2>2, <2>4, <2>6, <2>7, <2>8, <2>9
         DEF RowsInv, RowsInLog, RowsShow, Shows, BatchMovesOn, BatchInOrder
  <1> QED
    BY <1>1, <1>2

\* A duplicate leaves the copy of the row alone.
LEMMA SkipRows ==
    ASSUME TypeInv, RowsInv, NEW r \in Runs, NEW n \in tx[r].todo, SkipDuplicate(r, n)
    PROVE  RowsInv'
  <1>1. /\ srv' = srv /\ log' = log
        /\ \A p \in Runs : /\ tx'[p].open = tx[p].open /\ tx'[p].seqs = tx[p].seqs
                           /\ tx'[p].row = tx[p].row
        /\ tx'[r].todo = tx[r].todo \ {n}
        /\ \A p \in Runs \ {r} : tx'[p].todo = tx[p].todo
    BY DrainerTypes DEF SkipDuplicate, localVars, TxType, Transaction
  <1>2. tx[r].open /\ InOrder(r) /\ tx[r].todo \subseteq Nat /\ tx[r].seqs \subseteq Nat
    BY DrainerTypes DEF SkipDuplicate, RowsInv, BatchInOrder, TxType, Transaction
  <1>3. InOrder(r)'
    <2>1. \A m \in tx[r].todo : n <= m
      BY DEF SkipDuplicate, IsNext
    <2>2. ASSUME NEW m \in tx[r].seqs \ (tx[r].todo \ {n}), NEW k \in tx[r].todo \ {n} PROVE m < k
      <3>1. CASE m = n
        BY <1>2, <2>1, <3>1
      <3>2. CASE m # n
        BY <1>2, <3>2 DEF InOrder
      <3> QED
        BY <3>1, <3>2
    <2> QED
      BY <1>1, <1>2, <2>2 DEF InOrder
  <1>4. \A p \in Runs \ {r} : tx'[p].open => InOrder(p)'
    BY <1>1 DEF RowsInv, BatchInOrder, InOrder
  <1>5. RowsInLog' /\ RowsShow' /\ BatchMovesOn'
    BY <1>1 DEF RowsInv, RowsInLog, RowsShow, Shows, BatchMovesOn, MovesOn, NewestSays, Newest,
                Fresh
  <1> QED
    BY <1>3, <1>4, <1>5 DEF RowsInv, BatchInOrder

\* Whatever comes after the newest event a row has seen is legal: the server
\* refuses an event for its seq only, never for the status it carries.
LEMMA LaterIsLegal ==
    ASSUME TypeInv, MachineInv, NEW r \in Runs, NEW row \in Row, Shows(r, row),
           row.accepted \subseteq DOMAIN log[r], NEW n \in DOMAIN log[r], n > row.lastSeq
    PROVE  Accepts(row.status, log[r][n])
  <1>1. log[r][n] \in Kinds /\ n \in Nat /\ DOMAIN log[r] \subseteq Nat
    BY LogTypes
  <1>2. CASE row.status = "CREATED"
    BY <1>1, <1>2, CreatedAcceptsAll
  <1>3. ASSUME NEW i \in row.accepted, log[r][i] \in StatusKinds,
               row.status = EventStatus[log[r][i]]
        PROVE  Accepts(row.status, log[r][n])
    <2>1. i \in DOMAIN log[r] /\ i \in Nat /\ row.lastSeq \in Nat /\ i <= row.lastSeq
      BY <1>1 DEF Shows, Row
    <2>2. i < n
      BY <1>1, <2>1
    <2> QED
      BY <1>3, <2>1, <2>2 DEF MachineInv, Legal
  <1> QED
    BY <1>2, <1>3 DEF Shows

\* A new event is younger than all the row has seen, and its status follows.
LEMMA IngestRows ==
    ASSUME TypeInv, DeliveryInv, RowsInv, NEW r \in Runs, NEW n \in tx[r].todo, IngestEvent(r, n)
    PROVE  RowsInv'
  <1> DEFINE row == tx[r].row
             k == log[r][n]
  <1>1. /\ tx[r] \in Transaction /\ row \in Row /\ srv[r] \in Row /\ n \in Nat
        /\ tx[r].todo \subseteq Nat /\ tx[r].seqs \subseteq Nat
        /\ row.accepted \subseteq Nat /\ row.lastSeq \in Nat /\ row.status \in Statuses
        /\ srv[r].accepted \subseteq Nat /\ srv[r].lastSeq \in Nat /\ srv[r].status \in Statuses
    BY DrainerTypes DEF TxType, SrvType, Transaction, Row
  <1>2. /\ srv' = srv /\ log' = log
        /\ tx'[r].open /\ tx'[r].seqs = tx[r].seqs /\ tx'[r].todo = tx[r].todo \ {n}
        /\ tx'[r].row = Ingested(row, r, n)
        /\ \A p \in Runs \ {r} : tx'[p] = tx[p]
    BY <1>1, DrainerTypes DEF IngestEvent, localVars, TxType, Transaction
  <1>3. /\ tx'[r].row.accepted = row.accepted \cup {n} /\ tx'[r].row.stored = row.stored \cup {n}
        /\ tx'[r].row.lastSeq = n /\ tx'[r].row.status = StatusAfter(row.status, k)
        /\ tx'[r].row.exists = row.exists
    BY <1>1, <1>2 DEF Ingested, Row
  <1>4. /\ tx[r].open /\ (\A m \in tx[r].todo : n <= m)
        /\ n > row.lastSeq /\ Accepts(row.status, k)
    BY DEF IngestEvent, IsNext, Ingestible
  <1>5. /\ tx[r].seqs \subseteq DOMAIN log[r] /\ row.accepted \subseteq DOMAIN log[r]
        /\ Shows(r, row) /\ MovesOn(r) /\ InOrder(r) /\ srv[r].accepted \subseteq row.accepted
    BY <1>4 DEF RowsInv, RowsInLog, RowsShow, BatchMovesOn, BatchInOrder, DeliveryInv, BatchApplied
  <1>6. n \in tx[r].seqs /\ n \in DOMAIN log[r] /\ (\A m \in row.accepted : m < n)
    <2>1. \A m \in row.accepted : m <= row.lastSeq
      BY <1>5 DEF Shows
    <2> QED
      BY <1>1, <1>4, <1>5, <2>1 DEF InOrder
  <1>7. Shows(r, tx[r].row)'
    <2>1. \A m \in row.accepted \cup {n} : m <= n
      BY <1>1, <1>6
    <2>2. CASE k \in StatusKinds
      BY <1>2, <1>3, <2>1, <2>2 DEF Shows, StatusAfter
    <2>3. CASE k \notin StatusKinds
      BY <1>2, <1>3, <1>5, <2>1, <2>3 DEF Shows, StatusAfter
    <2> QED
      BY <2>2, <2>3
  <1>8. MovesOn(r)'
    <2>1. Fresh(r)' = Fresh(r) \cup {n}
      BY <1>2, <1>3, <1>5, <1>6, <1>1 DEF Fresh
    <2>2. \A x \in Fresh(r) \cup {n}, m \in srv[r].accepted : x > m
      BY <1>1, <1>5, <1>6 DEF MovesOn
    <2>3. \A x \in Fresh(r) : x < n /\ x \in Nat
      BY <1>1, <1>6 DEF Fresh
    <2>4. NewestSays(r, Fresh(r) \cup {n}, srv[r].status, StatusAfter(row.status, k))
      <3>1. CASE k \in StatusKinds
        <4>1. ASSUME NEW x \in Fresh(r) \cup {n}, Newest(Fresh(r) \cup {n}, r, StatusKinds, x)
              PROVE  x = n
          BY <1>1, <2>3, <3>1, <4>1 DEF Newest
        <4> QED
          BY <3>1, <4>1 DEF NewestSays, StatusAfter
      <3>2. CASE k \notin StatusKinds
        <4>1. ASSUME NEW x \in Fresh(r) \cup {n}, Newest(Fresh(r) \cup {n}, r, StatusKinds, x)
              PROVE  x \in Fresh(r) /\ Newest(Fresh(r), r, StatusKinds, x)
          BY <3>2, <4>1 DEF Newest
        <4> QED
          BY <1>5, <3>2, <4>1 DEF NewestSays, StatusAfter, MovesOn
      <3> QED
        BY <3>1, <3>2
    <2>5. srv[r].status \notin TerminalStatuses /\ Leads(srv[r].status, row.status)
      <3>1. CASE Fresh(r) = {}
        <4>1. row.status = srv[r].status
          BY <1>5, <3>1 DEF MovesOn, NewestSays
        <4> QED
          BY <1>4, <4>1 DEF Accepts, Leads
      <3>2. CASE Fresh(r) # {}
        BY <1>5, <3>2 DEF MovesOn
      <3> QED
        BY <3>1, <3>2
    <2>6. Leads(srv[r].status, StatusAfter(row.status, k))
      <3>1. StatusAfter(row.status, k) \in Statuses /\ Leads(row.status, StatusAfter(row.status, k))
        BY <1>1, <1>4, AcceptedLeads, KindFacts DEF StatusAfter
      <3> QED
        BY <1>1, <2>5, <3>1, LeadsOn
    <2>7. NewestSays(r, Fresh(r), srv[r].status, tx[r].row.status)'
      BY <1>2, <1>3, <2>1, <2>4 DEF NewestSays, Newest
    <2> QED
      BY <1>2, <1>3, <2>1, <2>2, <2>5, <2>6, <2>7 DEF MovesOn
  <1>9. InOrder(r)'
    <2>1. \A m \in tx[r].seqs \ (tx[r].todo \ {n}), j \in tx[r].todo \ {n} : m < j
      <3> SUFFICES ASSUME NEW m \in tx[r].seqs \ (tx[r].todo \ {n}), NEW j \in tx[r].todo \ {n}
                   PROVE  m < j
        OBVIOUS
      <3>1. CASE m = n
        BY <1>1, <1>4, <3>1
      <3>2. CASE m # n
        BY <1>5, <3>2 DEF InOrder
      <3> QED
        BY <3>1, <3>2
    <2>2. n >= srv[r].lastSeq /\ n > srv[r].lastSeq
      BY <1>1, <1>4, <1>5 DEF InOrder
    <2>3. n \in tx[r].seqs \ (tx[r].todo \ {n})
      BY <1>6
    <2> QED
      BY <1>2, <1>3, <1>5, <2>1, <2>2, <2>3 DEF InOrder
  <1>10. \A p \in Runs \ {r} : tx'[p].open => Shows(p, tx[p].row)' /\ MovesOn(p)' /\ InOrder(p)'
    BY <1>2 DEF RowsInv, RowsShow, Shows, BatchMovesOn, MovesOn, NewestSays, Newest, Fresh,
                BatchInOrder, InOrder
  <1>11. RowsInLog'
    BY <1>2, <1>3, <1>5, <1>6 DEF RowsInv, RowsInLog
  <1>12. \A p \in Runs : Shows(p, srv[p])'
    BY <1>2 DEF RowsInv, RowsShow, Shows
  <1> QED
    BY <1>7, <1>8, <1>9, <1>10, <1>11, <1>12 DEF RowsInv, RowsShow, BatchMovesOn, BatchInOrder

\* The commit writes the copy back.
LEMMA CommitRows ==
    ASSUME TypeInv, RowsInv, NEW r \in Runs, CommitBatch(r)
    PROVE  RowsInv'
  <1>1. /\ log' = log /\ tx[r].open /\ srv'[r] = tx[r].row /\ ~tx'[r].open
        /\ \A p \in Runs \ {r} : srv'[p] = srv[p] /\ tx'[p] = tx[p]
    BY DrainerTypes DEF CommitBatch, localVars, Closed, TxType, SrvType
  <1> QED
    BY <1>1 DEF RowsInv, RowsInLog, RowsShow, Shows, BatchMovesOn, MovesOn, NewestSays, Newest,
                Fresh, BatchInOrder, InOrder

LEMMA StepRows ==
    ASSUME DeliveryInv, InLog, RowsInv, Next, \A r \in Runs : Grows(r)
    PROVE  RowsInv'
  <1>1. TypeInv
    BY DEF DeliveryInv
  <1>2. CASE Quiet
    BY <1>2, QuietRows
  <1>3. CASE BatchStep
    BY <1>1, <1>3, BeginRows, SkipRows, IngestRows, CommitRows DEF BatchStep
  <1> QED
    BY <1>1, <1>2, <1>3, QuietSteps

LEMMA StepHistory == HistoryInv /\ [Next]_vars => HistoryInv'
  <1>1. ASSUME HistoryInv, Next PROVE HistoryInv'
    <2>1. DeliveryInv' /\ TypeInv
      BY <1>1, StepDelivery DEF HistoryInv, DeliveryInv
    <2>2. MachineInv' /\ \A r \in Runs : Grows(r)
      BY <1>1, <2>1, StepMachine DEF HistoryInv
    <2>3. RowsInv
      BY <1>1 DEF HistoryInv, RowsInv, RowsInLog, InLog
    <2>4. RowsInv'
      BY <1>1, <2>2, <2>3, StepRows DEF HistoryInv
    <2>5. InLog'
      BY <1>1, <2>1, <2>2, <2>4, StepInFlight DEF HistoryInv, InLog, RowsInv, RowsInLog
    <2> QED
      BY <2>1, <2>2, <2>4, <2>5 DEF HistoryInv, RowsInv
  <1>2. ASSUME HistoryInv, UNCHANGED vars PROVE HistoryInv'
    <2>1. DeliveryInv'
      BY <1>2, StepDelivery DEF HistoryInv
    <2>2. /\ local' = local /\ log' = log /\ status' = status /\ batch' = batch /\ late' = late
          /\ srv' = srv /\ tx' = tx
      BY <1>2 DEF vars, localVars, drainVars
    <2>3. MachineInv' /\ InLog'
      BY <1>2, <2>2 DEF HistoryInv, MachineInv, Legal, InLog
    <2>4. RowsShow' /\ BatchMovesOn' /\ BatchInOrder'
      BY <1>2, <2>2
         DEF HistoryInv, RowsShow, Shows, BatchMovesOn, MovesOn, NewestSays, Newest, Fresh,
             BatchInOrder, InOrder
    <2> QED
      BY <2>1, <2>3, <2>4 DEF HistoryInv
  <1> QED
    BY <1>1, <1>2

LEMMA HistoryInvariant == Spec => []HistoryInv
  BY InitHistory, StepHistory, PTL DEF Spec

----------------------------------------------------------------------------
(* The refinement.                                                         *)

\* The vocabulary of the abstract specification is the one of RunEvents.
LEMMA SameWords ==
    /\ Projection!TerminalStatuses = TerminalStatuses
    /\ Projection!StatusKinds = StatusKinds
    /\ Projection!Kinds = Kinds
    /\ Projection!EventStatus = EventStatus
    /\ Projection!AllowedTransitions = AllowedTransitions
  BY DEF Projection!TerminalStatuses, TerminalStatuses, Projection!StatusKinds, StatusKinds,
         Projection!Kinds, Kinds, Projection!EventStatus, EventStatus,
         Projection!AllowedTransitions, AllowedTransitions, Projection!Statuses, Statuses

Applied == [r \in Runs |-> srv[r].accepted]
Shown == [r \in Runs |-> srv[r].status]

\* Appending an event is the abstract Happen: the Run has not ended.
LEMMA AppendHappens ==
    ASSUME TypeInv, MachineInv, NEW r \in Runs, srv' = srv,
           CreateRun(r) \/ \E k \in DOMAIN EmittedIn : AppendEvent(r, k)
    PROVE  Projection!Happen(r)
  <1>1. PICK k \in Kinds :
           /\ log' = [log EXCEPT ![r] = Append(@, k)]
           /\ \A n \in DOMAIN log[r] :
                 log[r][n] \in StatusKinds => EventStatus[log[r][n]] \notin TerminalStatuses
    <2>1. CASE CreateRun(r)
      <3>1. DOMAIN log[r] = {}
        BY <2>1 DEF CreateRun, MachineInv
      <3> QED
        BY <2>1, <3>1, CreateStep, KindFacts
    <2>2. ASSUME NEW k \in DOMAIN EmittedIn, AppendEvent(r, k)
          PROVE  /\ k \in Kinds /\ log' = [log EXCEPT ![r] = Append(@, k)]
                 /\ \A n \in DOMAIN log[r] :
                      log[r][n] \in StatusKinds => EventStatus[log[r][n]] \notin TerminalStatuses
      BY <2>2, AppendStep
    <2> QED
      BY <2>1, <2>2
  <1>2. Applied' = Applied /\ Shown' = Shown
    BY DEF Applied, Shown
  <1> QED
    BY <1>1, <1>2, SameWords DEF Projection!Happen, Projection!Ends, Applied, Shown

\* A commit is the abstract Apply of its fresh events, or a stutter.
LEMMA CommitApplies ==
    ASSUME HistoryInv, NEW r \in Runs, CommitBatch(r)
    PROVE  Projection!Apply(r) \/ (log' = log /\ Applied' = Applied /\ Shown' = Shown)
  <1>1. /\ log' = log /\ tx[r].open
        /\ srv' = [srv EXCEPT ![r] = tx[r].row]
        /\ srv \in [Runs -> Row] /\ tx[r].row \in Row /\ srv[r] \in Row
    BY DrainerTypes DEF CommitBatch, localVars, HistoryInv, DeliveryInv, TxType, SrvType,
                        Transaction
  <1>2. /\ Applied' = [Applied EXCEPT ![r] = tx[r].row.accepted]
        /\ Shown' = [Shown EXCEPT ![r] = tx[r].row.status]
    BY <1>1 DEF Applied, Shown
  <1>3. /\ MovesOn(r) /\ srv[r].accepted \subseteq tx[r].row.accepted
        /\ Fresh(r) \subseteq DOMAIN log[r]
    BY <1>1 DEF HistoryInv, BatchMovesOn, DeliveryInv, BatchApplied, InLog, Fresh
  <1>4. CASE Fresh(r) = {}
    <2>1. tx[r].row.accepted = srv[r].accepted /\ tx[r].row.status = srv[r].status
      BY <1>3, <1>4 DEF Fresh, MovesOn, NewestSays
    <2> QED
      BY <1>1, <1>2, <2>1 DEF Applied, Shown
  <1>5. CASE Fresh(r) # {}
    <2> DEFINE S == Fresh(r)
               s == tx[r].row.status
    <2>1. srv[r].status \notin TerminalStatuses /\ Leads(srv[r].status, s)
      BY <1>3, <1>5 DEF MovesOn
    <2>2. s \in AllowedTransitions[srv[r].status]
      <3>1. srv[r].status \in Statuses /\ s \in Statuses
        BY <1>1 DEF Row
      <3> QED
        BY <2>1, <3>1 DEF Leads, TerminalStatuses, Statuses, AllowedTransitions
    <2>3. \A n \in S, m \in srv[r].accepted : n > m
      BY <1>3 DEF MovesOn
    <2>4. tx[r].row.accepted = srv[r].accepted \cup S
      BY <1>3 DEF Fresh
    <2>5. /\ \A n \in S :
                (log[r][n] \in StatusKinds /\ \A m \in S : m > n => log[r][m] \notin StatusKinds)
                    => s = EventStatus[log[r][n]]
          /\ (\A n \in S : log[r][n] \notin StatusKinds) => s = srv[r].status
      BY <1>3 DEF MovesOn, NewestSays, Newest
    <2>6. Projection!ShownAfter(r, S, s)
      BY <2>5, SameWords DEF Projection!ShownAfter
    <2>7. /\ Applied' = [Applied EXCEPT ![r] = @ \cup S]
          /\ Shown' = [Shown EXCEPT ![r] = s]
          /\ Applied[r] = srv[r].accepted /\ Shown[r] = srv[r].status
      BY <1>2, <2>4 DEF Applied, Shown
    <2>8. S \in SUBSET (DOMAIN log[r]) /\ S # {}
      BY <1>3, <1>5
    <2> HIDE DEF S, s
    <2> QED
      BY <1>1, <2>1, <2>2, <2>3, <2>6, <2>7, <2>8, SameWords
         DEF Projection!Apply, Applied, Shown
  <1> QED
    BY <1>4, <1>5

\* All other steps leave what the server shows alone.
LEMMA OtherStutters ==
    ASSUME TypeInv, Next, ~\E r \in Runs : CommitBatch(r)
    PROVE  Applied' = Applied /\ Shown' = Shown
  <1>1. CASE Quiet
    BY <1>1 DEF Quiet, SameRow, Applied, Shown
  <1>2. CASE BatchStep
    <2>1. srv' = srv
      BY <1>2 DEF BatchStep, BeginBatch, SkipDuplicate, IngestEvent
    <2> QED
      BY <2>1 DEF Applied, Shown
  <1> QED
    BY <1>1, <1>2, QuietSteps

LEMMA StepRefines ==
    HistoryInv /\ [Next]_vars => [Projection!Next]_(Projection!vars)
  <1>1. ASSUME HistoryInv, Next, NEW r \in Runs,
               CreateRun(r) \/ \E k \in DOMAIN EmittedIn : AppendEvent(r, k)
        PROVE  Projection!Next
    <2>1. srv' = srv
      BY <1>1 DEF CreateRun, AppendEvent
    <2> QED
      BY <1>1, <2>1, AppendHappens DEF Projection!Next, HistoryInv, DeliveryInv
  <1>2. ASSUME HistoryInv, NEW r \in Runs, CommitBatch(r)
        PROVE  Projection!Next \/ UNCHANGED Projection!vars
    BY <1>2, CommitApplies DEF Projection!Next, Projection!vars, Applied, Shown
  <1>3. ASSUME HistoryInv, Next, ~\E r \in Runs : CommitBatch(r),
               ~\E r \in Runs : CreateRun(r) \/ \E k \in DOMAIN EmittedIn : AppendEvent(r, k)
        PROVE  UNCHANGED Projection!vars
    BY <1>3, LogSteps, OtherStutters
       DEF HistoryInv, DeliveryInv, Projection!vars, Applied, Shown
  <1>4. ASSUME UNCHANGED vars PROVE UNCHANGED Projection!vars
    BY <1>4 DEF vars, localVars, Projection!vars
  <1> QED
    BY <1>1, <1>2, <1>3, <1>4

\* The machine and the server together implement RunProjection: whatever is
\* lost, resent, late or deleted by age, the server takes only events newer
\* than all it has accepted, shows the status of the newest one and never
\* changes the status of an ended Run.
THEOREM RefinesProjection == Spec => ImplementsProjection
  <1>1. Init => Projection!Init
    BY DEF Init, Projection!Init, NoRow
  <1> QED
    BY <1>1, HistoryInvariant, StepRefines, PTL DEF Spec, ImplementsProjection, Projection!Spec

\* The server never shows more than the machine recorded: a Run that it shows
\* as ended has ended on the machine, with the same status, whatever was lost,
\* resent, handled late or pruned.
EndIsLocal ==
    \A r \in Runs :
        /\ Leads(srv[r].status, status[r])
        /\ srv[r].status \in TerminalStatuses => srv[r].status = status[r]

\* What the server shows as the end of a Run is how it ended on the machine.
THEOREM ServerShowsTheEnd == Spec => []EndIsLocal
  <1>1. ASSUME HistoryInv, NEW r \in Runs PROVE Leads(srv[r].status, status[r])
    <2>1. status[r] \in Statuses
      BY <1>1 DEF HistoryInv, DeliveryInv, TypeInv, TypeOK
    <2>2. CASE srv[r].status = "CREATED"
      BY <2>1, <2>2 DEF Leads, TerminalStatuses, AllowedTransitions
    <2>3. ASSUME NEW i \in srv[r].accepted, log[r][i] \in StatusKinds,
                 srv[r].status = EventStatus[log[r][i]]
          PROVE  Leads(srv[r].status, status[r])
      BY <1>1, <2>3 DEF HistoryInv, InLog, MachineInv, Legal
    <2> QED
      BY <1>1, <2>2, <2>3 DEF HistoryInv, RowsShow, Shows
  <1>2. HistoryInv => EndIsLocal
    BY <1>1 DEF EndIsLocal, Leads
  <1> QED
    BY <1>2, HistoryInvariant, PTL

\* A final status is final: no event, PUT or commit changes the status of a Run
\* the server shows as ended, nor is another event of it accepted.
FinalStays ==
    [][\A r \in Runs :
          srv[r].status \in TerminalStatuses =>
              srv'[r].status = srv[r].status /\ srv'[r].accepted = srv[r].accepted]_srv

\* What is sent to the server after the end of a Run leaves its end as it is.
THEOREM FinalIsFinal == Spec => FinalStays
  <1>1. ASSUME HistoryInv, [Next]_vars, NEW r \in Runs, srv[r].status \in TerminalStatuses
        PROVE  srv'[r].status = srv[r].status /\ srv'[r].accepted = srv[r].accepted
    <2>1. Projection!Next \/ UNCHANGED Projection!vars
      BY <1>1, StepRefines
    <2>2. ASSUME NEW p \in Runs, Projection!Happen(p) \/ Projection!Apply(p)
          PROVE  Applied'[r] = Applied[r] /\ Shown'[r] = Shown[r]
      <3>1. CASE Projection!Happen(p)
        BY <3>1 DEF Projection!Happen, Applied, Shown
      <3>2. CASE Projection!Apply(p)
        <4>1. PICK S, s : /\ Shown[p] \notin TerminalStatuses
                          /\ Applied' = [Applied EXCEPT ![p] = @ \cup S]
                          /\ Shown' = [Shown EXCEPT ![p] = s]
          BY <3>2, SameWords DEF Projection!Apply, Applied, Shown
        <4>2. p # r
          BY <1>1, <4>1 DEF Shown
        <4> QED
          BY <4>1, <4>2 DEF Applied, Shown
      <3> QED
        BY <2>2, <3>1, <3>2
    <2>3. Applied'[r] = Applied[r] /\ Shown'[r] = Shown[r]
      BY <2>1, <2>2 DEF Projection!Next, Projection!vars, Applied, Shown
    <2> QED
      BY <2>3 DEF Applied, Shown
  <1>2. HistoryInv /\ [Next]_vars =>
            [\A r \in Runs :
                srv[r].status \in TerminalStatuses =>
                    srv'[r].status = srv[r].status /\ srv'[r].accepted = srv[r].accepted]_srv
    BY <1>1
  <1> QED
    BY <1>2, HistoryInvariant, PTL DEF Spec, FinalStays

----------------------------------------------------------------------------
(* Refusals.                                                               *)

Posting(d) == pc[d] = "post" \/ (pc[d] = "put" /\ call[d] = "ok")

\* A client sends events only of Runs the server knows, and the server never
\* forgets a Run.
KnownRuns ==
    /\ \A r \in Runs : remoteInit[r] => srv[r].exists
    /\ \A d \in Drainers : Posting(d) => srv[cur[d]].exists
    /\ \A q \in late : q.kind = "post" => srv[q.run].exists
    /\ \A r \in Runs : tx[r].open => tx[r].row.exists

\* A refused batch holds an event that was overtaken: the server has accepted a
\* younger one and not stored it.
RefusedWasOvertaken ==
    \A d \in Drainers :
        pc[d] = "post" /\ call[d] = "refused" =>
            \E n \in batch[d][cur[d]] :
                n <= srv[cur[d]].lastSeq /\ n \notin srv[cur[d]].stored

\* The ways to a POST.
LEMMA SendsPost ==
    ASSUME TypeInv, Next, NEW d \in Drainers, Posting(d)'
    PROVE  \/ cur'[d] = cur[d] /\ Posting(d)
           \/ remoteInit[cur'[d]]
           \/ srv'[cur'[d]].exists
  <1> USE DrainerTypes DEF PcType, CallType, CurType, Posting
  <1>1. ASSUME NEW r \in Runs,
               \/ CreateRun(r) \/ (\E k \in DOMAIN EmittedIn : AppendEvent(r, k))
               \/ BackoffExpires(r) \/ RetainEvents(r)
               \/ (\E n \in tx[r].todo : SkipDuplicate(r, n) \/ IngestEvent(r, n))
        PROVE  pc' = pc /\ call' = call /\ cur' = cur
    BY <1>1 DEF CreateRun, AppendEvent, BackoffExpires, RetainEvents, SkipDuplicate, IngestEvent,
                drainVars
  <1>2. ASSUME (\E m \in PruneModes : PruneSelect(m)) \/ PruneDelete
        PROVE  pc' = pc /\ call' = call /\ cur' = cur
    BY <1>2 DEF PruneSelect, PruneDelete, drainVars
  <1>3. ASSUME NEW e \in Drainers, StartDrain(e) \/ StartSync(e) \/ Fetch(e)
        PROVE  cur'[d] = cur[d] /\ Posting(d)
    BY <1>3 DEF StartDrain, StartSync, Fetch
  <1>4. ASSUME NEW e \in Drainers, PutAnswered(e) \/ Lose(e) \/ GiveUpEarly(e) \/ GiveUpWaiting(e)
        PROVE  cur'[d] = cur[d] /\ Posting(d)
    BY <1>4 DEF PutAnswered, Lose, GiveUpEarly, GiveUpWaiting, drainVars
  <1>5. ASSUME NEW e \in Drainers, DrainNothing(e) \/ FinishBatch(e) \/ Crash(e)
        PROVE  cur'[d] = cur[d] /\ Posting(d)
    BY <1>5 DEF DrainNothing, FinishBatch, Crash, Release
  <1>6. ASSUME NEW e \in Drainers, NEW r \in Runs, NextGroup(e, r)
        PROVE  (cur'[d] = cur[d] /\ Posting(d)) \/ remoteInit[cur'[d]]
    BY <1>6 DEF NextGroup
  <1>7. ASSUME NEW e \in Drainers, PostAnswered(e) \/ RequestFailed(e)
        PROVE  cur'[d] = cur[d] /\ Posting(d)
    BY <1>7 DEF PostAnswered, RequestFailed
  <1>8. ASSUME NEW q \in Requests, RegisterRun(q) \/ UpdateRun(q)
        PROVE  cur' = cur /\ (Posting(d) \/ srv'[cur[d]].exists)
    <2>1. /\ cur' = cur /\ pc' = pc
          /\ call'[d] # call[d] => q.from = d /\ q.run = cur[d]
          /\ call'[d] # call[d] => q.run \in Runs
      BY <1>8, RequestFacts DEF RegisterRun, UpdateRun, Answer, drainVars
    <2>2. call'[d] # call[d] => call'[d] = "refused" \/ srv'[q.run].exists
      BY <1>8, <2>1 DEF RegisterRun, UpdateRun, Answer, SrvType, Row
    <2> QED
      BY <2>1, <2>2
  <1>9. ASSUME NEW q \in Requests, BeginBatch(q)
        PROVE  cur'[d] = cur[d] /\ Posting(d)
    BY <1>9, RequestFacts DEF BeginBatch, Answer, drainVars
  <1>10. ASSUME NEW r \in Runs, AbortBatch(r) \/ RefuseBatch(r) \/ CommitBatch(r)
         PROVE  cur'[d] = cur[d] /\ Posting(d)
    BY <1>10 DEF AbortBatch, RefuseBatch, CommitBatch, Reply, drainVars, ServedIsWaiting
  <1> QED
    BY <1>1, <1>2, <1>3, <1>4, <1>5, <1>6, <1>7, <1>8, <1>9, <1>10, NextIsSteps DEF Steps

\* What a step does to the rows: they never disappear, lastSeq never falls, and
\* only younger events are stored.
LEMMA RowsGrow ==
    ASSUME TypeInv, RowsInv, KnownRuns, Next
    PROVE  /\ \A r \in Runs : /\ srv[r].exists => srv'[r].exists
                              /\ srv[r].lastSeq <= srv'[r].lastSeq
                              /\ \A n \in srv'[r].stored \ srv[r].stored : n > srv[r].lastSeq
           /\ \A r \in Runs : tx'[r].open => tx'[r].row.exists
  <1> USE DrainerTypes
  <1>0. \A r \in Runs : srv[r] \in Row /\ srv[r].lastSeq \in Nat /\ tx[r] \in Transaction
    BY DEF SrvType, TxType, Row
  <1>1. CASE Quiet
    BY <1>0, <1>1 DEF Quiet, SameRow, SameBatch, KnownRuns
  <1>2. ASSUME NEW q \in Requests, BeginBatch(q)
        PROVE  srv' = srv /\ \A r \in Runs : tx'[r].open => tx'[r].row.exists
    BY <1>2, RequestFacts DEF BeginBatch, KnownRuns, TxType
  <1>3. ASSUME NEW r \in Runs, NEW n \in tx[r].todo, SkipDuplicate(r, n)
        PROVE  srv' = srv /\ \A p \in Runs : tx'[p].open => tx'[p].row.exists
    BY <1>3 DEF SkipDuplicate, KnownRuns, TxType, Transaction
  <1>4. ASSUME NEW r \in Runs, NEW n \in tx[r].todo, IngestEvent(r, n)
        PROVE  srv' = srv /\ \A p \in Runs : tx'[p].open => tx'[p].row.exists
    <2>1. tx[r].row \in Row
      BY <1>0 DEF Transaction
    <2>2. Ingested(tx[r].row, r, n).exists = tx[r].row.exists
      BY <2>1 DEF Ingested, Row
    <2>3. tx'[r].row = Ingested(tx[r].row, r, n) /\ \A p \in Runs \ {r} : tx'[p] = tx[p]
      BY <1>0, <1>4 DEF IngestEvent, TxType, Transaction
    <2> QED
      BY <1>4, <2>2, <2>3 DEF IngestEvent, KnownRuns
  <1>5. ASSUME NEW r \in Runs, CommitBatch(r)
        PROVE  /\ srv'[r] = tx[r].row /\ tx[r].open /\ ~tx'[r].open
               /\ \A p \in Runs \ {r} : srv'[p] = srv[p] /\ tx'[p] = tx[p]
    BY <1>5 DEF CommitBatch, SrvType, TxType, Closed
  <1>6. ASSUME NEW r \in Runs, CommitBatch(r)
        PROVE  /\ \A p \in Runs :
                     /\ srv[p].exists => srv'[p].exists
                     /\ srv[p].lastSeq <= srv'[p].lastSeq
                     /\ \A n \in srv'[p].stored \ srv[p].stored : n > srv[p].lastSeq
               /\ \A p \in Runs : tx'[p].open => tx'[p].row.exists
    <2>1. InOrder(r) /\ tx[r].row.exists /\ tx[r].row \in Row /\ tx[r].row.lastSeq \in Nat
      BY <1>0, <1>5, <1>6 DEF RowsInv, BatchInOrder, KnownRuns, Transaction, Row
    <2> QED
      BY <1>0, <1>5, <1>6, <2>1 DEF InOrder, KnownRuns
  <1>7. srv' = srv => \A r \in Runs : /\ srv[r].exists => srv'[r].exists
                                      /\ srv[r].lastSeq <= srv'[r].lastSeq
                                      /\ \A n \in srv'[r].stored \ srv[r].stored : n > srv[r].lastSeq
    BY <1>0
  <1> QED
    BY <1>1, <1>2, <1>3, <1>4, <1>6, <1>7, QuietSteps DEF BatchStep

LEMMA StepKnown ==
    ASSUME TypeInv, RowsInv, KnownRuns, Next
    PROVE  KnownRuns'
  <1>0. \A r \in Runs : srv[r].exists => srv'[r].exists
    BY RowsGrow
  <1>1. ASSUME NEW r \in Runs, remoteInit'[r] PROVE srv'[r].exists
    <2>1. ASSUME NEW d \in Drainers, PutAnswered(d)
          PROVE  remoteInit[r] \/ (r = cur[d] /\ Posting(d))
      BY <1>1, <2>1 DEF PutAnswered, Posting, TypeInv, TypeOK
    <2>2. ASSUME ~\E d \in Drainers : PutAnswered(d) PROVE remoteInit' = remoteInit
      BY <2>2, NextIsSteps
         DEF Steps, CreateRun, AppendEvent, BackoffExpires, RetainEvents, AbortBatch,
             SkipDuplicate, IngestEvent, RefuseBatch, CommitBatch, PruneSelect, PruneDelete,
             StartDrain, StartSync, Fetch, Lose, DrainNothing, NextGroup, FinishBatch,
             PostAnswered, RequestFailed, GiveUpEarly, GiveUpWaiting, Crash, RegisterRun,
             UpdateRun, BeginBatch, localVars
    <2> QED
      BY <1>0, <1>1, <2>1, <2>2 DEF KnownRuns
  <1>2. ASSUME NEW d \in Drainers, Posting(d)' PROVE srv'[cur'[d]].exists
    <2>1. cur[d] \in Runs /\ cur'[d] \in Runs
      BY StepType, DrainerTypes DEF TypeInv, TypeOK
    <2> QED
      BY <1>0, <1>2, <2>1, SendsPost DEF KnownRuns
  <1>3. ASSUME NEW q \in late', q.kind = "post" PROVE srv'[q.run].exists
    <2>1. CASE q \in late
      BY <1>0, <1>3, <2>1 DEF KnownRuns, TypeInv, TypeOK, LateRequest
    <2>2. ASSUME NEW d \in Drainers, q.kind = pc[d], q.run = cur[d] PROVE srv'[q.run].exists
      BY <1>0, <1>3, <2>2, DrainerTypes DEF KnownRuns, Posting, CurType
    <2> QED
      BY <2>1, <2>2, LateWasSent
  <1>4. \A r \in Runs : tx'[r].open => tx'[r].row.exists
    BY RowsGrow
  <1> QED
    BY <1>1, <1>2, <1>3, <1>4 DEF KnownRuns

\* Why the server refuses a batch: its first event that is not stored is not
\* younger than what the row had seen before the batch.
LEMMA WhyRefused ==
    ASSUME HistoryInv, NEW r \in Runs, RefuseBatch(r)
    PROVE  \E n \in tx[r].seqs : n <= srv[r].lastSeq /\ n \notin srv[r].stored
  <1>1. /\ tx[r].open /\ tx[r] \in Transaction /\ tx[r].row \in Row
        /\ srv[r].lastSeq \in Nat /\ tx[r].row.lastSeq \in Nat
        /\ tx[r].seqs \subseteq Nat /\ TypeInv
    BY DrainerTypes DEF RefuseBatch, HistoryInv, DeliveryInv, TxType, SrvType, Transaction, Row
  <1>2. PICK n \in tx[r].todo : /\ IsNext(r, n)
                                /\ n \notin tx[r].row.stored
                                /\ ~Ingestible(tx[r].row, r, n)
    BY DEF RefuseBatch, Known
  <1>3. InOrder(r) /\ Shows(r, tx[r].row) /\ tx[r].seqs \subseteq DOMAIN log[r]
        /\ tx[r].row.accepted \subseteq DOMAIN log[r] /\ MachineInv
    BY <1>1 DEF HistoryInv, BatchInOrder, RowsShow, InLog
  <1>4. n \in tx[r].seqs /\ n \in Nat /\ n \in DOMAIN log[r]
    BY <1>1, <1>3 DEF InOrder
  <1>5. n <= tx[r].row.lastSeq
    <2>1. ~(n > tx[r].row.lastSeq)
      BY <1>1, <1>2, <1>3, <1>4, LaterIsLegal DEF Ingestible
    <2> QED
      BY <1>1, <1>4, <2>1
  <1>6. tx[r].row.lastSeq = srv[r].lastSeq
    <2>1. ASSUME tx[r].row.lastSeq \in tx[r].seqs \ tx[r].todo PROVE FALSE
      <3>1. tx[r].row.lastSeq < n
        BY <1>3, <2>1 DEF InOrder
      <3> QED
        BY <1>1, <1>4, <1>5, <3>1
    <2> QED
      BY <1>3, <2>1 DEF InOrder
  <1>7. n \notin srv[r].stored
    BY <1>2, <1>3 DEF InOrder
  <1> QED
    BY <1>4, <1>5, <1>6, <1>7

RefusalInv == HistoryInv /\ KnownRuns /\ RefusedWasOvertaken

LEMMA StepRefusal == RefusalInv /\ [Next]_vars => RefusalInv'
  <1>1. ASSUME RefusalInv, Next PROVE RefusalInv'
    <2>1. HistoryInv' /\ TypeInv /\ RowsInv
      BY <1>1, StepHistory DEF RefusalInv, HistoryInv, DeliveryInv, RowsInv, RowsInLog, InLog
    <2>2. KnownRuns'
      BY <1>1, <2>1, StepKnown DEF RefusalInv
    <2>3. ASSUME NEW d \in Drainers, pc'[d] = "post", call'[d] = "refused"
          PROVE  \E n \in batch'[d][cur'[d]] :
                     n <= srv'[cur'[d]].lastSeq /\ n \notin srv'[cur'[d]].stored
      <3>1. /\ batch'[d] = batch[d] /\ cur'[d] = cur[d] /\ cur[d] \in Runs
            /\ batch[d][cur[d]] \subseteq Nat
            /\ srv[cur[d]].lastSeq \in Nat /\ srv'[cur[d]].lastSeq \in Nat
        <4>1. batch'[d] = batch[d] /\ cur'[d] = cur[d]
          BY <1>1, <2>1, <2>3, AnswerMeans
        <4>2. TypeInv /\ TypeInv'
          BY <2>1 DEF HistoryInv, DeliveryInv
        <4>3. cur[d] \in Runs /\ batch[d][cur[d]] \subseteq Nat
          BY <4>2 DEF TypeInv, TypeOK
        <4>4. srv[cur[d]] \in Row /\ srv'[cur[d]] \in Row
          BY <4>2, <4>3 DEF TypeInv, TypeOK
        <4> QED
          BY <4>1, <4>3, <4>4 DEF Row
      <3>2. /\ srv[cur[d]].lastSeq <= srv'[cur[d]].lastSeq
            /\ \A n \in srv'[cur[d]].stored \ srv[cur[d]].stored : n > srv[cur[d]].lastSeq
        BY <1>1, <2>1, <3>1, RowsGrow DEF RefusalInv
      <3>3. \E n \in batch[d][cur[d]] : n <= srv[cur[d]].lastSeq /\ n \notin srv[cur[d]].stored
        <4>1. CASE pc[d] = "post" /\ call[d] = "refused"
          BY <1>1, <4>1 DEF RefusalInv, RefusedWasOvertaken
        <4>2. ASSUME NEW r \in Runs, RefuseBatch(r), tx[r].from = d
              PROVE  \E n \in batch[d][cur[d]] :
                         n <= srv[cur[d]].lastSeq /\ n \notin srv[cur[d]].stored
          BY <1>1, <2>1, <4>2, WhyRefused, DrainerTypes DEF RefusalInv, ServedIsWaiting
        <4>3. ASSUME NEW q \in Requests, BeginBatch(q), q.from = d, ~srv[q.run].exists
              PROVE  FALSE
          <5>1. q.run = cur[d] /\ pc[d] = "post"
            BY <2>1, <4>3, RequestFacts DEF BeginBatch
          <5> QED
            BY <1>1, <4>3, <5>1 DEF RefusalInv, KnownRuns, Posting
        <4> QED
          BY <2>1, <1>1, <2>3, <4>1, <4>2, <4>3, AnswerMeans
      <3>4. PICK n \in batch[d][cur[d]] : n <= srv[cur[d]].lastSeq /\ n \notin srv[cur[d]].stored
        BY <3>3
      <3>5. n <= srv'[cur[d]].lastSeq /\ n \notin srv'[cur[d]].stored
        BY <3>1, <3>2, <3>4
      <3> QED
        BY <3>1, <3>5
    <2>4. RefusedWasOvertaken'
      BY <2>3 DEF RefusedWasOvertaken
    <2> QED
      BY <2>1, <2>2, <2>4 DEF RefusalInv
  <1>2. ASSUME RefusalInv, UNCHANGED vars PROVE RefusalInv'
    <2>1. HistoryInv'
      BY <1>2, StepHistory DEF RefusalInv
    <2> QED
      BY <1>2, <2>1
         DEF vars, localVars, drainVars, RefusalInv, KnownRuns, Posting, RefusedWasOvertaken
  <1> QED
    BY <1>1, <1>2

LEMMA RefusalInvariant == Spec => []RefusalInv
  <1>1. Init => RefusalInv
    <2>1. Init => HistoryInv
      BY InitHistory
    <2>2. Init => KnownRuns /\ RefusedWasOvertaken
      BY DEF Init, KnownRuns, Posting, RefusedWasOvertaken, Closed
    <2> QED
      BY <2>1, <2>2 DEF RefusalInv
  <1> QED
    BY <1>1, StepRefusal, PTL DEF Spec

\* A batch the server has stored completely is never refused, however often a
\* lost answer makes a client send it again and whatever arrived in between.
THEOREM DuplicatesAreAccepted == Spec => []DuplicatesAccepted
  <1>1. RefusalInv => DuplicatesAccepted
    BY DEF RefusalInv, RefusedWasOvertaken, DuplicatesAccepted
  <1> QED
    BY <1>1, RefusalInvariant, PTL

\* The only reason for a refusal, in any order of requests: one of the events
\* was overtaken by a younger one and is lost for the projection.
THEOREM RefusalMeansOvertaken == Spec => []RefusedWasOvertaken
  <1>1. RefusalInv => RefusedWasOvertaken
    BY DEF RefusalInv
  <1> QED
    BY <1>1, RefusalInvariant, PTL

----------------------------------------------------------------------------
(* Attention.  Without a PUT that arrives late, a PUT reaches the server    *)
(* only before the first event of its Run, so it erases nothing.            *)

\* The flock of the outbox: one process drains at a time.
OneDrains == \A d \in Drainers : pc[d] # "idle" => lease = d

\* Nothing about r has reached the server, nor is it on its way.
Untouched(r) ==
    /\ srv[r].accepted = {}
    /\ ~tx[r].open
    /\ \A q \in late : q.run # r

PutFirst ==
    /\ \A q \in late : q.kind = "post"
    /\ \A r \in Runs : ~remoteInit[r] /\ local[r] # "pruned" => Untouched(r)
    /\ \A d \in Drainers : pc[d] = "put" => Untouched(cur[d]) /\ local[cur[d]] # "absent"
    /\ \A d \in Drainers : pc[d] = "post" => remoteInit[cur[d]] \/ local[cur[d]] = "pruned"

\* A row shows the attention its newest event about attention carries.
Attends(r, row) ==
    \A n \in row.accepted :
        Newest(row.accepted, r, AttentionKinds, n)
            => row.attention = AttentionAfter("NONE", log[r][n])

RowsAttend == \A r \in Runs : Attends(r, srv[r]) /\ (tx[r].open => Attends(r, tx[r].row))

LEMMA StepLease ==
    ASSUME TypeInv, OneDrains, Next
    PROVE  OneDrains'
  <1> USE DrainerTypes, NobodyDrains DEF PcType, OneDrains
  <1>1. ASSUME NEW d \in Drainers, StartDrain(d) \/ StartSync(d) PROVE OneDrains'
    BY <1>1 DEF StartDrain, StartSync, LeaseFree
  <1>2. ASSUME NEW d \in Drainers, DrainNothing(d) \/ FinishBatch(d) \/ Crash(d) PROVE OneDrains'
    BY <1>2 DEF DrainNothing, FinishBatch, Crash, Release
  <1>3. ASSUME NEW d \in Drainers,
               Fetch(d) \/ PutAnswered(d) \/ PostAnswered(d) \/ RequestFailed(d)
        PROVE  OneDrains'
    <2>1. pc[d] # "idle"
      BY <1>3, DrainerTypes
         DEF Fetch, PutAnswered, PostAnswered, RequestFailed, CallIsRequest, CallType
    <2>2. lease' = lease /\ \A e \in Drainers \ {d} : pc'[e] = pc[e]
      BY <1>3 DEF Fetch, PutAnswered, PostAnswered, RequestFailed
    <2> QED
      BY <2>1, <2>2
  <1>4. ASSUME NEW d \in Drainers, NEW r \in Runs, NextGroup(d, r) PROVE OneDrains'
    BY <1>4 DEF NextGroup
  <1>5. ASSUME ~\E d \in Drainers :
                  \/ StartDrain(d) \/ StartSync(d) \/ DrainNothing(d) \/ FinishBatch(d) \/ Crash(d)
                  \/ Fetch(d) \/ PutAnswered(d) \/ PostAnswered(d) \/ RequestFailed(d)
                  \/ \E r \in Runs : NextGroup(d, r)
        PROVE  pc' = pc /\ lease' = lease
    BY <1>5, NextIsSteps
       DEF Steps, CreateRun, AppendEvent, BackoffExpires, RetainEvents, AbortBatch, SkipDuplicate,
           IngestEvent, RefuseBatch, CommitBatch, PruneSelect, PruneDelete, Lose, GiveUpEarly,
           GiveUpWaiting, RegisterRun, UpdateRun, BeginBatch, drainVars
  <1> QED
    BY <1>1, <1>2, <1>3, <1>4, <1>5

\* How a drainer comes to send.
LEMMA WhoSends ==
    ASSUME TypeInv, Next, NEW d \in Drainers, pc'[d] \in {"put", "post"}
    PROVE  \/ pc'[d] = pc[d] /\ cur'[d] = cur[d]
           \/ PutAnswered(d) /\ pc'[d] = "post" /\ cur'[d] = cur[d]
           \/ /\ NextGroup(d, cur'[d]) /\ local[cur'[d]] = "present" /\ cur'[d] \in Runs
              /\ pc'[d] = "post" <=> remoteInit[cur'[d]]
  <1> USE DrainerTypes DEF PcType, CurType
  <1>1. ASSUME NEW e \in Drainers, StartDrain(e) \/ StartSync(e) \/ Fetch(e)
        PROVE  pc'[d] = pc[d] /\ cur'[d] = cur[d]
    BY <1>1 DEF StartDrain, StartSync, Fetch
  <1>2. ASSUME NEW e \in Drainers,
               DrainNothing(e) \/ FinishBatch(e) \/ Crash(e) \/ PostAnswered(e) \/ RequestFailed(e)
        PROVE  pc'[d] = pc[d] /\ cur'[d] = cur[d]
    BY <1>2 DEF DrainNothing, FinishBatch, Crash, Release, PostAnswered, RequestFailed
  <1>3. ASSUME NEW e \in Drainers, PutAnswered(e)
        PROVE  \/ pc'[d] = pc[d] /\ cur'[d] = cur[d]
               \/ PutAnswered(d) /\ pc'[d] = "post" /\ cur'[d] = cur[d]
    BY <1>3 DEF PutAnswered
  <1>4. ASSUME NEW e \in Drainers, NEW r \in Runs, NextGroup(e, r)
        PROVE  \/ pc'[d] = pc[d] /\ cur'[d] = cur[d]
               \/ /\ NextGroup(d, cur'[d]) /\ local[cur'[d]] = "present" /\ cur'[d] \in Runs
                  /\ pc'[d] = "post" <=> remoteInit[cur'[d]]
    <2>1. CASE local[r] = "present"
      <3>1. /\ pc' = [pc EXCEPT ![e] = IF remoteInit[r] THEN "post" ELSE "put"]
            /\ cur' = [cur EXCEPT ![e] = r]
        BY <1>4, <2>1 DEF NextGroup
      <3>2. CASE e = d
        <4>1. cur'[d] = r /\ pc'[d] = IF remoteInit[r] THEN "post" ELSE "put"
          BY <3>1, <3>2
        <4> QED
          BY <1>4, <2>1, <3>2, <4>1
      <3>3. CASE e # d
        BY <3>1, <3>3
      <3> QED
        BY <3>2, <3>3
    <2>2. CASE local[r] # "present"
      BY <1>4, <2>2 DEF NextGroup
    <2> QED
      BY <2>1, <2>2
  <1>5. ASSUME ~\E e \in Drainers :
                  \/ StartDrain(e) \/ StartSync(e) \/ DrainNothing(e) \/ FinishBatch(e) \/ Crash(e)
                  \/ Fetch(e) \/ PutAnswered(e) \/ PostAnswered(e) \/ RequestFailed(e)
                  \/ \E r \in Runs : NextGroup(e, r)
        PROVE  pc' = pc /\ cur' = cur
    BY <1>5, NextIsSteps
       DEF Steps, CreateRun, AppendEvent, BackoffExpires, RetainEvents, AbortBatch, SkipDuplicate,
           IngestEvent, RefuseBatch, CommitBatch, PruneSelect, PruneDelete, Lose, GiveUpEarly,
           GiveUpWaiting, RegisterRun, UpdateRun, BeginBatch, drainVars
  <1> QED
    BY <1>1, <1>2, <1>3, <1>4, <1>5

\* Only a POST touches a Run.
LEMMA StaysUntouched ==
    ASSUME "put" \notin LateKinds, TypeInv, Next, NEW r \in Runs, Untouched(r),
           \A d \in Drainers : pc[d] = "post" => cur[d] # r
    PROVE  Untouched(r)'
  <1>1. srv'[r].accepted = {} /\ ~tx'[r].open
    <2>1. CASE Quiet
      BY <2>1 DEF Quiet, SameRow, SameBatch, Untouched
    <2>2. ASSUME NEW q \in Requests, BeginBatch(q)
          PROVE  srv' = srv /\ tx'[r] = tx[r]
      <3>1. q.run # r
        BY <2>2, RequestFacts DEF BeginBatch, Untouched
      <3> QED
        BY <2>2, <3>1, RequestFacts, DrainerTypes DEF BeginBatch, TxType
    <2>3. ASSUME NEW p \in Runs,
                 CommitBatch(p) \/ \E n \in tx[p].todo : SkipDuplicate(p, n) \/ IngestEvent(p, n)
          PROVE  srv'[r] = srv[r] /\ tx'[r] = tx[r]
      <3>1. p # r
        BY <2>3 DEF CommitBatch, SkipDuplicate, IngestEvent, Untouched
      <3> QED
        BY <2>3, <3>1, DrainerTypes DEF CommitBatch, SkipDuplicate, IngestEvent, TxType, SrvType
    <2> QED
      BY <2>1, <2>2, <2>3, QuietSteps DEF BatchStep, Untouched
  <1>2. ASSUME NEW q \in late' PROVE q.run # r
    <2>1. ASSUME NEW d \in Drainers, call[d] = "sent", pc[d] \in LateKinds
          PROVE  pc[d] = "post"
      BY <2>1, DrainerTypes DEF CallIsRequest
    <2> QED
      BY <2>1, LateWasSent DEF Untouched
  <1> QED
    BY <1>1, <1>2 DEF Untouched

\* What was registered or pruned stays so.
LEMMA LocalSteps ==
    ASSUME TypeInv, Next, NEW r \in Runs
    PROVE  /\ remoteInit[r] => remoteInit'[r]
           /\ local[r] = "pruned" => local'[r] = "pruned"
           /\ local[r] # "absent" => local'[r] # "absent"
  <1> USE DEF TypeInv, TypeOK
  <1>1. ASSUME NEW p \in Runs, CreateRun(p)
        PROVE  remoteInit' = remoteInit /\ (local[r] # "absent" => local'[r] = local[r])
    BY <1>1 DEF CreateRun
  <1>2. CASE PruneDelete
    BY <1>2 DEF PruneDelete
  <1>3. ASSUME NEW d \in Drainers, PutAnswered(d)
        PROVE  local' = local /\ (remoteInit[r] => remoteInit'[r])
    BY <1>3 DEF PutAnswered
  <1>4. ASSUME ~\E p \in Runs : CreateRun(p), ~PruneDelete, ~\E d \in Drainers : PutAnswered(d)
        PROVE  local' = local /\ remoteInit' = remoteInit
    BY <1>4, NextIsSteps
       DEF Steps, AppendEvent, BackoffExpires, RetainEvents, AbortBatch, SkipDuplicate,
           IngestEvent, RefuseBatch, CommitBatch, PruneSelect, StartDrain, StartSync, Fetch, Lose,
           DrainNothing, NextGroup, FinishBatch, PostAnswered, RequestFailed, GiveUpEarly,
           GiveUpWaiting, Crash, RegisterRun, UpdateRun, BeginBatch, localVars
  <1> QED
    BY <1>1, <1>2, <1>3, <1>4

LEMMA StepPutFirst ==
    ASSUME "put" \notin LateKinds, TypeInv, OneDrains, PutFirst, Next
    PROVE  PutFirst'
  <1>1. ASSUME NEW q \in late' PROVE q.kind = "post"
    BY LateWasSent, DrainerTypes DEF PutFirst, CallIsRequest
  <1>2. ASSUME NEW r \in Runs, ~remoteInit[r], local[r] # "pruned" PROVE Untouched(r)'
    BY <1>2, StaysUntouched DEF PutFirst
  <1>3. ASSUME NEW r \in Runs, ~remoteInit'[r], local'[r] # "pruned" PROVE Untouched(r)'
    BY <1>2, <1>3, LocalSteps
  <1>4. ASSUME NEW d \in Drainers, pc'[d] = "put"
        PROVE  Untouched(cur[d])' /\ local'[cur'[d]] # "absent"
    <2>1. CASE pc[d] = "put" /\ cur'[d] = cur[d]
      <3>1. Untouched(cur[d]) /\ local[cur[d]] # "absent" /\ cur[d] \in Runs
        BY <2>1, DrainerTypes DEF PutFirst, CurType
      <3>2. \A e \in Drainers : pc[e] = "post" => cur[e] # cur[d]
        BY <2>1 DEF OneDrains
      <3>3. Untouched(cur[d])' /\ local'[cur[d]] # "absent"
        <4> DEFINE r == cur[d]
        <4>1. srv'[r].accepted = {} /\ ~tx'[r].open /\ \A q \in late' : q.run # r
          <5> HIDE DEF r
          <5>1. \A p \in Runs : Untouched(p) /\ (\A e \in Drainers : pc[e] = "post" => cur[e] # p)
                  => srv'[p].accepted = {} /\ ~tx'[p].open /\ \A q \in late' : q.run # p
            BY StaysUntouched DEF Untouched
          <5>2. r \in Runs /\ Untouched(r) /\ \A e \in Drainers : pc[e] = "post" => cur[e] # r
            BY <3>1, <3>2 DEF r
          <5> QED
            BY <5>1, <5>2
        <4> QED
          BY <2>1, <3>1, <4>1, LocalSteps DEF Untouched
      <3> QED
        BY <2>1, <3>3
    <2>2. CASE NextGroup(d, cur'[d]) /\ local[cur'[d]] = "present" /\ cur'[d] \in Runs
               /\ ~remoteInit[cur'[d]]
      <3> DEFINE r == cur'[d]
      <3>1. srv'[r].accepted = {} /\ ~tx'[r].open /\ \A q \in late' : q.run # r
        BY <1>2, <2>2 DEF Untouched
      <3> QED
        BY <2>2, <3>1, LocalSteps DEF Untouched
    <2> QED
      BY <1>4, <2>1, <2>2, WhoSends
  <1>5. ASSUME NEW d \in Drainers, pc'[d] = "post"
        PROVE  remoteInit'[cur'[d]] \/ local'[cur'[d]] = "pruned"
    <2>0. cur[d] \in Runs
      BY DrainerTypes DEF CurType
    <2>1. CASE pc[d] = "post" /\ cur'[d] = cur[d]
      BY <2>0, <2>1, LocalSteps DEF PutFirst
    <2>2. CASE PutAnswered(d) /\ cur'[d] = cur[d]
      BY <2>0, <2>2 DEF PutAnswered, PutFirst, TypeInv, TypeOK
    <2>3. CASE cur'[d] \in Runs /\ remoteInit[cur'[d]]
      BY <2>3, LocalSteps
    <2> QED
      BY <1>5, <2>1, <2>2, <2>3, WhoSends
  <1> QED
    BY <1>1, <1>3, <1>4, <1>5 DEF PutFirst, Untouched

\* The attention column changes with the commit of a batch or with a PUT.
LEMMA AttentionSteps ==
    ASSUME TypeInv, Next, NEW r \in Runs
    PROVE  \/ srv'[r].attention = srv[r].attention
           \/ CommitBatch(r)
           \/ \E q \in Requests : UpdateRun(q) /\ q.run = r
  <1> USE DrainerTypes DEF SrvType, Row
  <1>1. ASSUME NEW q \in Requests, RegisterRun(q)
        PROVE  srv'[r].attention = srv[r].attention
    BY <1>1, RequestFacts DEF RegisterRun
  <1>2. ASSUME NEW q \in Requests, UpdateRun(q)
        PROVE  srv'[r].attention = srv[r].attention \/ q.run = r
    BY <1>2, RequestFacts DEF UpdateRun
  <1>3. ASSUME NEW p \in Runs, RetainEvents(p)
        PROVE  srv'[r].attention = srv[r].attention
    <2>1. PICK n \in srv[p].stored : srv' = [srv EXCEPT ![p].stored = {m \in @ : m > n}]
      BY <1>3 DEF RetainEvents
    <2> QED
      BY <2>1
  <1>4. ASSUME NEW p \in Runs, CommitBatch(p)
        PROVE  p = r \/ srv'[r] = srv[r]
    BY <1>4 DEF CommitBatch
  <1>5. ASSUME ~\E q \in Requests : RegisterRun(q) \/ UpdateRun(q),
               ~\E p \in Runs : RetainEvents(p) \/ CommitBatch(p)
        PROVE  srv' = srv
    BY <1>5, NextIsSteps
       DEF Steps, CreateRun, AppendEvent, BackoffExpires, AbortBatch, SkipDuplicate, IngestEvent,
           RefuseBatch, PruneSelect, PruneDelete, StartDrain, StartSync, Fetch, PutAnswered, Lose,
           DrainNothing, NextGroup, FinishBatch, PostAnswered, RequestFailed, GiveUpEarly,
           GiveUpWaiting, Crash, BeginBatch
  <1> QED
    BY <1>1, <1>2, <1>3, <1>4, <1>5

\* A PUT that is taken up comes before all events of its Run.
LEMMA PutIsFirst ==
    ASSUME TypeInv, PutFirst, NEW q \in Requests, q.kind = "put"
    PROVE  Untouched(q.run)
  <1>1. q.from \in Drainers /\ pc[q.from] = "put" /\ q.run = cur[q.from]
    BY RequestFacts DEF PutFirst
  <1> QED
    BY <1>1 DEF PutFirst

LEMMA QuietAttends ==
    ASSUME TypeInv, RowsInv, PutFirst, RowsAttend, Next, Quiet, \A r \in Runs : Grows(r),
           ~\E p \in Runs : CommitBatch(p)
    PROVE  RowsAttend'
  <1>1. ASSUME NEW r \in Runs PROVE Attends(r, srv[r])'
    <2>1. /\ srv'[r].accepted = srv[r].accepted
          /\ \A n \in srv[r].accepted : log'[r][n] = log[r][n]
      BY DEF Quiet, SameRow, RowsInv, RowsInLog, Grows
    <2>2. CASE srv'[r].attention = srv[r].attention
      BY <2>1, <2>2 DEF RowsAttend, Attends, Newest
    <2>3. ASSUME NEW q \in Requests, UpdateRun(q), q.run = r PROVE srv[r].accepted = {}
      BY <2>3, PutIsFirst DEF UpdateRun, Untouched
    <2>4. CASE srv[r].accepted = {}
      BY <2>1, <2>4 DEF Attends
    <2> QED
      BY <2>2, <2>3, <2>4, AttentionSteps
  <1>2. ASSUME NEW r \in Runs, tx'[r].open PROVE Attends(r, tx[r].row)'
    <2>1. /\ tx[r].open /\ tx'[r].row.accepted = tx[r].row.accepted
          /\ tx'[r].row.attention = tx[r].row.attention
      BY <1>2 DEF Quiet, SameBatch
    <2>2. \A n \in tx[r].row.accepted : log'[r][n] = log[r][n]
      BY <2>1 DEF RowsInv, RowsInLog, Grows
    <2> QED
      BY <2>1, <2>2 DEF RowsAttend, Attends, Newest
  <1> QED
    BY <1>1, <1>2 DEF RowsAttend

LEMMA BatchAttends ==
    ASSUME TypeInv, RowsInv, RowsAttend, BatchStep
    PROVE  RowsAttend'
  <1> USE DrainerTypes
  <1>1. ASSUME NEW q \in Requests, BeginBatch(q) PROVE RowsAttend'
    <2>1. srv' = srv /\ log' = log
      BY <1>1 DEF BeginBatch, localVars
    <2>2. ASSUME NEW r \in Runs, tx'[r].open
          PROVE  tx'[r].row = srv[r] \/ (tx[r].open /\ tx'[r].row = tx[r].row)
      BY <1>1, <2>2, RequestFacts DEF BeginBatch, TxType
    <2>3. ASSUME NEW r \in Runs, tx'[r].open PROVE Attends(r, tx[r].row)'
      BY <2>1, <2>2, <2>3 DEF RowsAttend, Attends, Newest
    <2> QED
      BY <2>1, <2>3 DEF RowsAttend, Attends, Newest
  <1>2. ASSUME NEW p \in Runs, NEW n \in tx[p].todo, SkipDuplicate(p, n) PROVE RowsAttend'
    <2>1. /\ srv' = srv /\ log' = log
          /\ \A r \in Runs : tx'[r].open = tx[r].open /\ tx'[r].row = tx[r].row
      BY <1>2 DEF SkipDuplicate, localVars, TxType, Transaction
    <2> QED
      BY <2>1 DEF RowsAttend, Attends, Newest
  <1>3. ASSUME NEW p \in Runs, NEW n \in tx[p].todo, IngestEvent(p, n) PROVE RowsAttend'
    <2> DEFINE row == tx[p].row
               k == log[p][n]
    <2>1. /\ tx[p] \in Transaction /\ row \in Row /\ n \in Nat /\ row.accepted \subseteq Nat
          /\ row.lastSeq \in Nat
      BY DEF TxType, Transaction, Row
    <2>2. /\ srv' = srv /\ log' = log /\ tx[p].open
          /\ tx'[p].row = Ingested(row, p, n)
          /\ \A r \in Runs \ {p} : tx'[r] = tx[r]
      BY <1>3, <2>1 DEF IngestEvent, localVars, TxType, Transaction
    <2>3. /\ tx'[p].row.accepted = row.accepted \cup {n}
          /\ tx'[p].row.attention = AttentionAfter(row.attention, k)
      BY <2>1, <2>2 DEF Ingested, Row
    <2>4. \A m \in row.accepted : m < n
      <3>1. n > row.lastSeq
        BY <1>3 DEF IngestEvent, Ingestible
      <3>2. \A m \in row.accepted : m <= row.lastSeq
        BY <2>2 DEF RowsInv, RowsShow, Shows
      <3> QED
        BY <2>1, <3>1, <3>2
    <2>5. ASSUME NEW x \in row.accepted \cup {n},
                 Newest(row.accepted \cup {n}, p, AttentionKinds, x)
          PROVE  AttentionAfter(row.attention, k) = AttentionAfter("NONE", log[p][x])
      <3>1. CASE k \in AttentionKinds
        <4>1. x = n
          BY <2>1, <2>4, <2>5, <3>1 DEF Newest
        <4> QED
          BY <3>1, <4>1 DEF AttentionAfter
      <3>2. CASE k \notin AttentionKinds
        <4>1. x \in row.accepted /\ Newest(row.accepted, p, AttentionKinds, x)
          BY <2>5, <3>2 DEF Newest
        <4> QED
          BY <2>2, <3>2, <4>1 DEF AttentionAfter, RowsAttend, Attends
      <3> QED
        BY <3>1, <3>2
    <2>6. Attends(p, tx[p].row)'
      BY <2>2, <2>3, <2>5 DEF Attends, Newest
    <2>7. \A r \in Runs \ {p} : tx'[r].open => Attends(r, tx[r].row)'
      BY <2>2 DEF RowsAttend, Attends, Newest
    <2>8. \A r \in Runs : Attends(r, srv[r])'
      BY <2>2 DEF RowsAttend, Attends, Newest
    <2> QED
      BY <2>6, <2>7, <2>8 DEF RowsAttend
  <1>4. ASSUME NEW p \in Runs, CommitBatch(p) PROVE RowsAttend'
    <2>1. /\ log' = log /\ tx[p].open /\ srv'[p] = tx[p].row /\ ~tx'[p].open
          /\ \A r \in Runs \ {p} : srv'[r] = srv[r] /\ tx'[r] = tx[r]
      BY <1>4 DEF CommitBatch, localVars, Closed, TxType, SrvType
    <2> QED
      BY <2>1 DEF RowsAttend, Attends, Newest
  <1> QED
    BY <1>1, <1>2, <1>3, <1>4 DEF BatchStep

AttentionInv == HistoryInv /\ OneDrains /\ PutFirst /\ RowsAttend

LEMMA StepAttention ==
    ASSUME "put" \notin LateKinds
    PROVE  AttentionInv /\ [Next]_vars => AttentionInv'
  <1>1. ASSUME AttentionInv, Next PROVE AttentionInv'
    <2>1. HistoryInv' /\ TypeInv /\ RowsInv
      BY <1>1, StepHistory DEF AttentionInv, HistoryInv, DeliveryInv, RowsInv, RowsInLog, InLog
    <2>2. OneDrains' /\ PutFirst'
      BY <1>1, <2>1, StepLease, StepPutFirst DEF AttentionInv
    <2>3. \A r \in Runs : Grows(r)
      BY <1>1, <2>1, StepMachine DEF AttentionInv, HistoryInv
    <2>4. CASE BatchStep
      BY <1>1, <2>1, <2>2, <2>4, BatchAttends DEF AttentionInv
    <2>5. CASE Quiet /\ ~BatchStep
      BY <1>1, <2>1, <2>2, <2>3, <2>5, QuietAttends DEF AttentionInv, BatchStep
    <2> QED
      BY <1>1, <2>1, <2>4, <2>5, QuietSteps
  <1>2. ASSUME AttentionInv, UNCHANGED vars PROVE AttentionInv'
    <2>1. HistoryInv'
      BY <1>2, StepHistory DEF AttentionInv
    <2> QED
      BY <1>2, <2>1
         DEF vars, localVars, drainVars, AttentionInv, OneDrains, PutFirst, Untouched, RowsAttend,
             Attends, Newest
  <1> QED
    BY <1>1, <1>2

\* If no PUT arrives after its client gave up on it, the attention of a Run is
\* the one its newest event about attention carries: registering a Run erases
\* nothing, because it comes before all events of the Run.
THEOREM AttentionIsFollowed ==
    ASSUME "put" \notin LateKinds
    PROVE  Spec => []AttentionFollowsEvents
  <1>1. Init => AttentionInv
    <2>1. Init => HistoryInv
      BY InitHistory
    <2>2. Init => OneDrains /\ PutFirst /\ RowsAttend
      BY DEF Init, OneDrains, PutFirst, Untouched, RowsAttend, Attends, NoRow, Closed
    <2> QED
      BY <2>1, <2>2 DEF AttentionInv
  <1>2. AttentionInv => AttentionFollowsEvents
    BY DEF AttentionInv, RowsAttend, Attends, AttentionFollowsEvents
  <1> QED
    BY <1>1, <1>2, StepAttention, PTL DEF Spec
==============================================================================
