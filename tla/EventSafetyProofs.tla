-------------------------- MODULE EventSafetyProofs --------------------------
(***************************************************************************)
(* The safety theorems of EventDelivery.  They rest on what holds while a  *)
(* batch transaction is open: what it has dealt with is accepted, and it   *)
(* started from what the server had accepted.                              *)
(***************************************************************************)
EXTENDS EventDeliveryProofs

\* The rows the server stores are rows it accepted.
StoredIsAccepted == \A r \in Runs : srv[r].stored \subseteq srv[r].accepted

\* An open transaction has accepted whatever it is through with, and forgets
\* nothing of the row it started from.
BatchApplied ==
    \A r \in Runs :
        tx[r].open =>
            /\ tx[r].seqs \ tx[r].todo \subseteq tx[r].row.accepted
            /\ tx[r].row.stored \subseteq tx[r].row.accepted
            /\ srv[r].accepted \subseteq tx[r].row.accepted

\* A POST the client knows to be answered is in the server's table.
AnsweredIsAccepted ==
    \A d \in Drainers :
        pc[d] = "post" /\ call[d] = "ok" => batch[d][cur[d]] \subseteq srv[cur[d]].accepted

DeliveryInv ==
    TypeInv /\ StoredIsAccepted /\ BatchApplied /\ AnsweredIsAccepted /\ DeliveredWasAccepted

\* Steps that neither accept events nor work on a transaction, except to drop it.
\* What retention deletes in the table, an open transaction stops seeing, too.
SameRow(r) ==
    /\ srv[r].exists => srv'[r].exists
    /\ srv'[r].accepted = srv[r].accepted
    /\ srv'[r].lastSeq = srv[r].lastSeq
    /\ srv'[r].status = srv[r].status
    /\ srv'[r].stored \subseteq srv[r].stored

SameBatch(r) ==
    \/ ~tx'[r].open
    \/ /\ tx'[r].open = tx[r].open
       /\ tx'[r].seqs = tx[r].seqs
       /\ tx'[r].todo = tx[r].todo
       /\ tx'[r].row.accepted = tx[r].row.accepted
       /\ tx'[r].row.lastSeq = tx[r].row.lastSeq
       /\ tx'[r].row.status = tx[r].row.status
       /\ tx'[r].row.exists = tx[r].row.exists
       /\ tx'[r].row.attention = tx[r].row.attention
       /\ tx'[r].row.stored \subseteq tx[r].row.stored
       /\ srv'[r].stored \cap tx[r].row.stored \subseteq tx'[r].row.stored
       /\ tx'[r].row.stored \cap srv[r].stored \subseteq srv'[r].stored

Quiet == \A r \in Runs : SameRow(r) /\ SameBatch(r)

BatchStep ==
    \/ \E q \in Requests : BeginBatch(q)
    \/ \E r \in Runs : \E n \in tx[r].todo : SkipDuplicate(r, n) \/ IngestEvent(r, n)
    \/ \E r \in Runs : CommitBatch(r)

LEMMA AbandonedIsQuiet ==
    ASSUME TypeInv, NEW d \in Drainers, srv' = srv, tx' = Abandoned(d)
    PROVE  Quiet
  <1>1. ASSUME NEW r \in Runs PROVE SameBatch(r)
    BY DrainerTypes DEF Abandoned, SameBatch, TxType, Transaction
  <1> QED
    BY <1>1 DEF Quiet, SameRow

LEMMA UntouchedIsQuiet == srv' = srv /\ tx' = tx => Quiet
  BY DEF Quiet, SameRow, SameBatch

LEMMA QuietSteps ==
    ASSUME TypeInv, Next
    PROVE  Quiet \/ BatchStep
  <1>1. ASSUME NEW r \in Runs,
               CreateRun(r) \/ (\E k \in DOMAIN EmittedIn : AppendEvent(r, k)) \/ BackoffExpires(r)
        PROVE  Quiet
    BY <1>1, UntouchedIsQuiet DEF CreateRun, AppendEvent, BackoffExpires
  <1>2. ASSUME (\E m \in PruneModes : PruneSelect(m)) \/ PruneDelete
        PROVE  Quiet
    BY <1>2, UntouchedIsQuiet DEF PruneSelect, PruneDelete
  <1>3. ASSUME NEW d \in Drainers,
               \/ StartDrain(d) \/ StartSync(d) \/ Fetch(d) \/ PutAnswered(d) \/ Lose(d)
               \/ DrainNothing(d) \/ (\E r \in Runs : NextGroup(d, r)) \/ FinishBatch(d)
               \/ PostAnswered(d) \/ RequestFailed(d) \/ GiveUpEarly(d)
        PROVE  Quiet
    BY <1>3, UntouchedIsQuiet
       DEF StartDrain, StartSync, Fetch, PutAnswered, Lose, DrainNothing, NextGroup,
           FinishBatch, PostAnswered, RequestFailed, GiveUpEarly
  <1>4. ASSUME NEW d \in Drainers, GiveUpWaiting(d) \/ Crash(d)
        PROVE  Quiet
    BY <1>4, AbandonedIsQuiet DEF GiveUpWaiting, Crash
  <1>5. ASSUME NEW q \in Requests, RegisterRun(q) \/ UpdateRun(q)
        PROVE  Quiet
    <2>1. tx' = tx
      BY <1>5 DEF RegisterRun, UpdateRun
    <2>2. \/ srv' = srv
          \/ srv' = [srv EXCEPT ![q.run].exists = TRUE]
          \/ srv' = [srv EXCEPT ![q.run].attention = "NONE"]
      BY <1>5 DEF RegisterRun, UpdateRun
    <2>3. ASSUME NEW r \in Runs PROVE SameRow(r) /\ srv'[r].stored = srv[r].stored
      BY <2>2, DrainerTypes DEF SameRow, SrvType, Row
    <2> QED
      BY <2>1, <2>3 DEF Quiet, SameBatch
  <1>6. ASSUME NEW r \in Runs, RetainEvents(r)
        PROVE  Quiet
    <2>1. PICK n \in srv[r].stored :
             /\ srv' = [srv EXCEPT ![r].stored = {m \in @ : m > n}]
             /\ tx' = [tx EXCEPT ![r].row.stored = {m \in @ : m > n}]
      BY <1>6 DEF RetainEvents
    <2>2. ASSUME NEW p \in Runs PROVE SameRow(p)
      BY <2>1, DrainerTypes DEF SameRow, SrvType, Row
    <2>3. ASSUME NEW p \in Runs PROVE SameBatch(p)
      <3>1. tx[p] \in Transaction /\ tx[p].row \in Row /\ srv[p] \in Row
        BY DrainerTypes DEF TxType, SrvType, Transaction
      <3>2. CASE p = r
        <4>1. srv'[p].stored = {m \in srv[p].stored : m > n}
          BY <2>1, <3>1, <3>2, DrainerTypes DEF SrvType, Row
        <4>2. /\ tx'[p].row = [tx[p].row EXCEPT !.stored = {m \in @ : m > n}]
              /\ tx'[p].open = tx[p].open /\ tx'[p].seqs = tx[p].seqs
              /\ tx'[p].todo = tx[p].todo
          BY <2>1, <3>1, <3>2, DrainerTypes DEF TxType, Transaction
        <4>3. /\ tx'[p].row.accepted = tx[p].row.accepted
              /\ tx'[p].row.lastSeq = tx[p].row.lastSeq
              /\ tx'[p].row.status = tx[p].row.status
              /\ tx'[p].row.exists = tx[p].row.exists
              /\ tx'[p].row.attention = tx[p].row.attention
              /\ tx'[p].row.stored = {m \in tx[p].row.stored : m > n}
          BY <3>1, <4>2 DEF Row
        <4> QED
          BY <4>1, <4>2, <4>3 DEF SameBatch
      <3>3. CASE p # r
        BY <2>1, <3>3, DrainerTypes DEF SameBatch, TxType, SrvType
      <3> QED
        BY <3>2, <3>3
    <2> QED
      BY <2>2, <2>3 DEF Quiet
  <1>7. ASSUME NEW r \in Runs, AbortBatch(r) \/ RefuseBatch(r)
        PROVE  Quiet
    BY <1>7, DrainerTypes
       DEF AbortBatch, RefuseBatch, Quiet, SameRow, SameBatch, TxType, Closed
  <1> QED
    BY <1>1, <1>2, <1>3, <1>4, <1>5, <1>6, <1>7, NextIsSteps DEF Steps, BatchStep

LEMMA InitDelivery == Init => DeliveryInv
  BY InitType
     DEF Init, DeliveryInv, StoredIsAccepted, BatchApplied, AnsweredIsAccepted,
         DeliveredWasAccepted, NoRow, Closed

\* The five ways a row or a transaction changes.
LEMMA QuietDelivery ==
    ASSUME StoredIsAccepted, BatchApplied, Quiet
    PROVE  /\ StoredIsAccepted' /\ BatchApplied'
           /\ \A r \in Runs : srv[r].accepted \subseteq srv'[r].accepted
  BY DEF StoredIsAccepted, BatchApplied, Quiet, SameRow, SameBatch

LEMMA BatchDelivery ==
    ASSUME TypeInv, StoredIsAccepted, BatchApplied, BatchStep
    PROVE  /\ StoredIsAccepted' /\ BatchApplied'
           /\ \A r \in Runs : srv[r].accepted \subseteq srv'[r].accepted
  <1>1. ASSUME NEW q \in Requests, BeginBatch(q)
        PROVE  srv' = srv /\ BatchApplied'
    BY <1>1, RequestFacts, DrainerTypes DEF BeginBatch, StoredIsAccepted, BatchApplied, TxType
  <1>2. ASSUME NEW r \in Runs, NEW n \in tx[r].todo, SkipDuplicate(r, n)
        PROVE  srv' = srv /\ BatchApplied'
    BY <1>2, DrainerTypes DEF SkipDuplicate, Known, BatchApplied, TxType, Transaction
  <1>3. ASSUME NEW r \in Runs, NEW n \in tx[r].todo, IngestEvent(r, n)
        PROVE  srv' = srv /\ BatchApplied'
    <2>1. tx[r] \in Transaction /\ tx[r].row \in Row
      BY DrainerTypes DEF TxType, Transaction
    <2>2. /\ tx'[r].open /\ tx'[r].seqs = tx[r].seqs /\ tx'[r].todo = tx[r].todo \ {n}
          /\ tx'[r].row = Ingested(tx[r].row, r, n)
          /\ \A p \in Runs \ {r} : tx'[p] = tx[p]
      BY <1>3, <2>1, DrainerTypes DEF IngestEvent, TxType, Transaction
    <2>3. /\ Ingested(tx[r].row, r, n).accepted = tx[r].row.accepted \cup {n}
          /\ Ingested(tx[r].row, r, n).stored = tx[r].row.stored \cup {n}
      BY <2>1 DEF Ingested, Row
    <2> QED
      BY <1>3, <2>2, <2>3 DEF IngestEvent, BatchApplied
  <1>4. ASSUME NEW r \in Runs, CommitBatch(r)
        PROVE  /\ StoredIsAccepted' /\ BatchApplied'
               /\ \A p \in Runs : srv[p].accepted \subseteq srv'[p].accepted
    BY <1>4, DrainerTypes DEF CommitBatch, StoredIsAccepted, BatchApplied, TxType, SrvType, Closed
  <1> QED
    BY <1>1, <1>2, <1>3, <1>4 DEF BatchStep, StoredIsAccepted

\* A client learns that its POST was answered only from the commit of the very
\* batch it sent, and that it was refused only from its rollback or from a Run
\* the server does not know.
LEMMA AnswerMeans ==
    ASSUME TypeInv, Next, NEW d \in Drainers, pc'[d] = "post", call'[d] \in {"ok", "refused"}
    PROVE  /\ batch'[d] = batch[d] /\ cur'[d] = cur[d]
           /\ \/ pc[d] = "post" /\ call'[d] = call[d]
              \/ \E r \in Runs : CommitBatch(r) /\ tx[r].from = d /\ call'[d] = "ok"
              \/ \E r \in Runs : RefuseBatch(r) /\ tx[r].from = d /\ call'[d] = "refused"
              \/ \E q \in Requests :
                    BeginBatch(q) /\ q.from = d /\ ~srv[q.run].exists /\ call'[d] = "refused"
  <1> USE DrainerTypes DEF PcType, CallType, CurType, BatchType
  <1>1. ASSUME NEW r \in Runs,
               \/ CreateRun(r) \/ (\E k \in DOMAIN EmittedIn : AppendEvent(r, k))
               \/ BackoffExpires(r) \/ RetainEvents(r)
               \/ (\E n \in tx[r].todo : SkipDuplicate(r, n) \/ IngestEvent(r, n))
        PROVE  pc' = pc /\ call' = call /\ batch' = batch /\ cur' = cur
    BY <1>1 DEF CreateRun, AppendEvent, BackoffExpires, RetainEvents, SkipDuplicate, IngestEvent,
                drainVars
  <1>2. ASSUME (\E m \in PruneModes : PruneSelect(m)) \/ PruneDelete
        PROVE  pc' = pc /\ call' = call /\ batch' = batch /\ cur' = cur
    BY <1>2 DEF PruneSelect, PruneDelete, drainVars
  <1>3. ASSUME NEW e \in Drainers,
               \/ StartDrain(e) \/ StartSync(e) \/ Fetch(e) \/ PutAnswered(e) \/ Lose(e)
               \/ DrainNothing(e) \/ (\E r \in Runs : NextGroup(e, r)) \/ FinishBatch(e)
               \/ PostAnswered(e) \/ RequestFailed(e) \/ GiveUpEarly(e) \/ GiveUpWaiting(e)
               \/ Crash(e)
        PROVE  d # e /\ pc'[d] = pc[d] /\ call'[d] = call[d] /\ batch'[d] = batch[d]
                     /\ cur'[d] = cur[d]
    <2>1. call[e] # "none" => pc[e] \in {"put", "post"}
      BY DEF CallIsRequest
    <2>2. CASE StartDrain(e) \/ StartSync(e) \/ Fetch(e)
      BY <2>1, <2>2 DEF StartDrain, StartSync, Fetch
    <2>3. CASE PutAnswered(e) \/ Lose(e) \/ GiveUpEarly(e) \/ GiveUpWaiting(e)
      BY <2>3 DEF PutAnswered, Lose, GiveUpEarly, GiveUpWaiting, drainVars
    <2>4. CASE DrainNothing(e) \/ FinishBatch(e) \/ Crash(e)
      BY <2>1, <2>4 DEF DrainNothing, FinishBatch, Crash, Release
    <2>5. CASE \E r \in Runs : NextGroup(e, r)
      BY <2>1, <2>5 DEF NextGroup
    <2>6. CASE PostAnswered(e) \/ RequestFailed(e)
      BY <2>6 DEF PostAnswered, RequestFailed
    <2> QED
      BY <1>3, <2>2, <2>3, <2>4, <2>5, <2>6
  <1>4. ASSUME NEW q \in Requests, RegisterRun(q) \/ UpdateRun(q) \/ BeginBatch(q)
        PROVE  /\ pc' = pc /\ batch' = batch /\ cur' = cur
               /\ \/ call'[d] = call[d]
                  \/ BeginBatch(q) /\ q.from = d /\ ~srv[q.run].exists /\ call'[d] = "refused"
    BY <1>4, RequestFacts DEF RegisterRun, UpdateRun, BeginBatch, Answer, drainVars
  <1>5. ASSUME NEW r \in Runs, AbortBatch(r) \/ RefuseBatch(r) \/ CommitBatch(r)
        PROVE  /\ pc' = pc /\ batch' = batch /\ cur' = cur
               /\ \/ call'[d] = call[d]
                  \/ CommitBatch(r) /\ tx[r].from = d /\ call'[d] = "ok"
                  \/ RefuseBatch(r) /\ tx[r].from = d /\ call'[d] = "refused"
    BY <1>5 DEF AbortBatch, RefuseBatch, CommitBatch, Reply, drainVars
  <1> QED
    BY <1>1, <1>2, <1>3, <1>4, <1>5, NextIsSteps DEF Steps

\* Only mark_delivered ticks events off, and only those of an answered POST.
LEMMA TickedOff ==
    ASSUME TypeInv, Next, NEW r \in Runs, delivered'[r] # delivered[r]
    PROVE  \E d \in Drainers :
              /\ pc[d] = "post" /\ call[d] = "ok" /\ cur[d] = r
              /\ delivered'[r] = delivered[r] \cup batch[d][r]
  <1>1. ASSUME NEW d \in Drainers, PostAnswered(d)
        PROVE  /\ pc[d] = "post" /\ call[d] = "ok" /\ cur[d] = r
               /\ delivered'[r] = delivered[r] \cup batch[d][r]
    BY <1>1 DEF PostAnswered, TypeInv, TypeOK
  <1>2. ASSUME ~\E d \in Drainers : PostAnswered(d)
        PROVE  delivered' = delivered
    BY <1>2, NextIsSteps
       DEF Steps, CreateRun, AppendEvent, BackoffExpires, RetainEvents, AbortBatch,
           SkipDuplicate, IngestEvent, RefuseBatch, CommitBatch, PruneSelect, PruneDelete,
           StartDrain, StartSync, Fetch, PutAnswered, Lose, DrainNothing, NextGroup,
           FinishBatch, RequestFailed, GiveUpEarly, GiveUpWaiting, Crash, RegisterRun,
           UpdateRun, BeginBatch, localVars
  <1> QED
    BY <1>1, <1>2

LEMMA StepDelivery == DeliveryInv /\ [Next]_vars => DeliveryInv'
  <1>1. ASSUME DeliveryInv, Next PROVE DeliveryInv'
    <2>1. TypeInv /\ TypeInv'
      BY <1>1, StepType DEF DeliveryInv
    <2>2. /\ StoredIsAccepted' /\ BatchApplied'
          /\ \A r \in Runs : srv[r].accepted \subseteq srv'[r].accepted
      BY <1>1, QuietSteps, QuietDelivery, BatchDelivery DEF DeliveryInv
    <2>3. ASSUME NEW d \in Drainers, pc'[d] = "post", call'[d] = "ok"
          PROVE  batch'[d][cur'[d]] \subseteq srv'[cur'[d]].accepted
      <3>1. /\ batch'[d] = batch[d] /\ cur'[d] = cur[d] /\ cur[d] \in Runs
            /\ \/ pc[d] = "post" /\ call[d] = "ok"
               \/ \E r \in Runs : CommitBatch(r) /\ tx[r].from = d
        BY <1>1, <2>1, <2>3, AnswerMeans, DrainerTypes DEF CurType
      <3>2. CASE pc[d] = "post" /\ call[d] = "ok"
        BY <1>1, <2>2, <3>1, <3>2 DEF DeliveryInv, AnsweredIsAccepted
      <3>3. ASSUME NEW r \in Runs, CommitBatch(r), tx[r].from = d
            PROVE  batch[d][cur[d]] \subseteq srv'[cur[d]].accepted
        <4>1. tx[r].open /\ tx[r].todo = {} /\ tx[r].seqs = batch[d][r] /\ cur[d] = r
          BY <2>1, <3>3, DrainerTypes DEF CommitBatch, ServedIsWaiting
        <4>2. batch[d][r] \subseteq tx[r].row.accepted
          BY <1>1, <4>1 DEF DeliveryInv, BatchApplied
        <4>3. srv'[r] = tx[r].row
          BY <2>1, <3>3, DrainerTypes DEF CommitBatch, SrvType
        <4> QED
          BY <4>1, <4>2, <4>3
      <3> QED
        BY <3>1, <3>2, <3>3
    <2>4. AnsweredIsAccepted'
      BY <2>3 DEF AnsweredIsAccepted
    <2>5. ASSUME NEW r \in Runs PROVE delivered'[r] \subseteq srv'[r].accepted
      <3>1. CASE delivered'[r] = delivered[r]
        BY <1>1, <2>2, <3>1 DEF DeliveryInv, DeliveredWasAccepted
      <3>2. CASE delivered'[r] # delivered[r]
        BY <1>1, <2>1, <2>2, <3>2, TickedOff
           DEF DeliveryInv, DeliveredWasAccepted, AnsweredIsAccepted
      <3> QED
        BY <3>1, <3>2
    <2>6. DeliveredWasAccepted'
      BY <2>5 DEF DeliveredWasAccepted
    <2> QED
      BY <2>1, <2>2, <2>4, <2>6 DEF DeliveryInv
  <1>2. ASSUME DeliveryInv, UNCHANGED vars PROVE DeliveryInv'
    BY <1>2, TypeStutter
       DEF vars, localVars, drainVars, DeliveryInv, StoredIsAccepted, BatchApplied,
           AnsweredIsAccepted, DeliveredWasAccepted
  <1> QED
    BY <1>1, <1>2

\* Whatever is lost, retried, answered late or aborted, and for any number of
\* Runs and drainers, an event the machine has ticked off is one the server
\* accepted.
THEOREM DeliveredIsAccepted == Spec => []DeliveredWasAccepted
  <1>1. DeliveryInv => DeliveredWasAccepted
    BY DEF DeliveryInv
  <1> QED
    BY <1>1, InitDelivery, StepDelivery, PTL DEF Spec

----------------------------------------------------------------------------
(* history prune.                                                          *)

\* A Run that is selected or deleted has ended and is ticked off completely.
Complete(r) == status[r] \in TerminalStatuses /\ 1..Len(log[r]) \subseteq delivered[r]

PruneInv ==
    \A r \in Runs :
        /\ r \in pruning => local[r] = "present" /\ Complete(r)
        /\ local[r] = "pruned" => Complete(r)

\* Once a Run has ended its log does not grow, and nothing is ticked on again.
LEMMA StaysComplete ==
    ASSUME TypeInv, Next, NEW r \in Runs, local[r] # "absent", Complete(r)
    PROVE  Complete(r)'
  <1>1. delivered[r] \subseteq delivered'[r]
    BY TickedOff
  <1>2. status'[r] = status[r] /\ log'[r] = log[r]
    <2>1. ASSUME NEW p \in Runs, CreateRun(p)
          PROVE  status' = status /\ log'[r] = log[r]
      BY <2>1 DEF CreateRun, TypeInv, TypeOK
    <2>2. ASSUME NEW p \in Runs, NEW k \in DOMAIN EmittedIn, AppendEvent(p, k)
          PROVE  status'[r] = status[r] /\ log'[r] = log[r]
      BY <2>2 DEF AppendEvent, MayAppend, Complete, TypeInv, TypeOK
    <2>3. ASSUME ~\E p \in Runs : CreateRun(p) \/ \E k \in DOMAIN EmittedIn : AppendEvent(p, k)
          PROVE  status' = status /\ log' = log
      BY <2>3, NextIsSteps
         DEF Steps, BackoffExpires, RetainEvents, AbortBatch, SkipDuplicate, IngestEvent,
             RefuseBatch, CommitBatch, PruneSelect, PruneDelete, StartDrain, StartSync, Fetch,
             PutAnswered, Lose, DrainNothing, NextGroup, FinishBatch, PostAnswered,
             RequestFailed, GiveUpEarly, GiveUpWaiting, Crash, RegisterRun, UpdateRun,
             BeginBatch, localVars
    <2> QED
      BY <2>1, <2>2, <2>3
  <1> QED
    BY <1>1, <1>2 DEF Complete

\* Who is selected, and who is deleted.
LEMMA PruneSteps ==
    ASSUME PruneModes \subseteq {FALSE}, TypeInv, Next, NEW r \in Runs
    PROVE  /\ r \in pruning' => \/ r \in pruning /\ (local[r] # "absent" => local'[r] = local[r])
                                \/ Prunable(r, FALSE) /\ local' = local
           /\ local'[r] = "pruned" => local[r] = "pruned" \/ r \in pruning
           /\ local[r] # "absent" => local'[r] # "absent"
  <1> USE DEF TypeInv, TypeOK
  <1>1. ASSUME NEW m \in PruneModes, PruneSelect(m)
        PROVE  local' = local /\ (r \in pruning' => Prunable(r, FALSE))
    BY <1>1 DEF PruneSelect, Prunable
  <1>2. CASE PruneDelete
    BY <1>2 DEF PruneDelete
  <1>3. ASSUME NEW p \in Runs, CreateRun(p)
        PROVE  pruning' = pruning /\ (r # p => local'[r] = local[r])
               /\ local[p] = "absent" /\ local'[p] = "present"
    BY <1>3 DEF CreateRun
  <1>4. ASSUME ~\E p \in Runs : CreateRun(p), ~\E m \in PruneModes : PruneSelect(m), ~PruneDelete
        PROVE  local' = local /\ pruning' = pruning
    BY <1>4, NextIsSteps
       DEF Steps, AppendEvent, BackoffExpires, RetainEvents, AbortBatch, SkipDuplicate,
           IngestEvent, RefuseBatch, CommitBatch, StartDrain, StartSync, Fetch, PutAnswered,
           Lose, DrainNothing, NextGroup, FinishBatch, PostAnswered, RequestFailed,
           GiveUpEarly, GiveUpWaiting, Crash, RegisterRun, UpdateRun, BeginBatch, localVars
  <1> QED
    BY <1>1, <1>2, <1>3, <1>4

LEMMA StepPrune ==
    ASSUME PruneModes \subseteq {FALSE}
    PROVE  TypeInv /\ PruneInv /\ [Next]_vars => PruneInv'
  <1>1. ASSUME TypeInv, PruneInv, Next, NEW r \in Runs
        PROVE  /\ r \in pruning' => local'[r] = "present" /\ Complete(r)'
               /\ local'[r] = "pruned" => Complete(r)'
    <2>1. Prunable(r, FALSE) => local[r] = "present" /\ Complete(r)
      BY DEF Prunable, Complete
    <2> QED
      BY <1>1, <2>1, PruneSteps, StaysComplete DEF PruneInv
  <1>2. ASSUME PruneInv, UNCHANGED vars PROVE PruneInv'
    BY <1>2 DEF vars, localVars, PruneInv, Complete
  <1> QED
    BY <1>1, <1>2 DEF PruneInv

\* `history prune` without --include-unsynced deletes no Run the server does
\* not have completely, whatever happens between its three steps.
THEOREM PrunedIsUploaded ==
    ASSUME PruneModes \subseteq {FALSE}
    PROVE  Spec => []PrunedWasUploaded
  <1>1. Init => PruneInv
    BY DEF Init, PruneInv
  <1>2. DeliveredWasAccepted /\ PruneInv => PrunedWasUploaded
    BY DEF DeliveredWasAccepted, PruneInv, Complete, PrunedWasUploaded
  <1> QED
    BY <1>1, <1>2, InitType, StepType, StepPrune, DeliveredIsAccepted, PTL DEF Spec
==============================================================================
