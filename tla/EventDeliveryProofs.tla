------------------------- MODULE EventDeliveryProofs -------------------------
(***************************************************************************)
(* Theorems about EventDelivery for every set of Runs, drainers and every  *)
(* value of the bounds.                                                    *)
(***************************************************************************)
EXTENDS EventDelivery, TLAPS

\* Only a drainer that is sending a PUT or a POST has a request outstanding.
CallIsRequest == \A d \in Drainers : call[d] # "none" => pc[d] \in {"put", "post"}

\* The client a transaction will answer is waiting for exactly that batch.
ServedIsWaiting ==
    \A r \in Runs, d \in Drainers :
        tx[r].from = d =>
            /\ call[d] = "serving"
            /\ pc[d] = "post"
            /\ cur[d] = r
            /\ tx[r].open
            /\ tx[r].seqs = batch[d][r]

TypeInv == TypeOK /\ CallIsRequest /\ ServedIsWaiting

LEMMA KindFacts ==
    /\ \A k \in Kinds, s \in Statuses : StatusAfter(s, k) \in Statuses
    /\ \A k \in Kinds, a \in {"NONE", "ACTION_REQUIRED"} :
          AttentionAfter(a, k) \in {"NONE", "ACTION_REQUIRED"}
    /\ \A k \in StatusKinds : EventStatus[k] \in Statuses
    /\ StatusKinds \subseteq Kinds
    /\ TerminalStatuses \subseteq Statuses
    /\ DOMAIN EmittedIn \subseteq Kinds
    /\ "created" \in Kinds
  BY DEF Kinds, StatusKinds, Statuses, TerminalStatuses, EventStatus, StatusAfter,
         AttentionAfter, AttentionKinds, EmittedIn

LEMMA AfterType ==
    ASSUME NEW s \in Statuses, NEW a \in {"NONE", "ACTION_REQUIRED"}, NEW k
    PROVE  StatusAfter(s, k) \in Statuses /\ AttentionAfter(a, k) \in {"NONE", "ACTION_REQUIRED"}
  BY KindFacts DEF StatusAfter, AttentionAfter

LEMMA RowType == NoRow \in Row /\ Closed \in Transaction
  BY DEF NoRow, Row, Closed, Statuses, Transaction

LEMMA InitType == Init => TypeInv
  <1> SUFFICES ASSUME Init PROVE TypeInv
    OBVIOUS
  <1>1. cur \in [Drainers -> Runs]
    BY RunsAreNumbered DEF Init
  <1>2. log \in [Runs -> Seq(Kinds)] /\ cooling \in [Runs -> Seq(SUBSET Nat)]
    BY DEF Init
  <1>3. srv \in [Runs -> Row] /\ tx \in [Runs -> Transaction]
    BY RowType DEF Init
  <1> QED
    BY <1>1, <1>2, <1>3, NobodyDrains
       DEF Init, TypeInv, TypeOK, CallIsRequest, ServedIsWaiting, NoBatch, Closed, Statuses,
           LateRequest


\* A request the server may take up names a Run and a set of seqs, and a client
\* it names is waiting for it.
LEMMA RequestFacts ==
    ASSUME TypeInv, NEW q \in Requests
    PROVE  /\ q.from \in Drainers \cup {NoDrainer}
           /\ q.kind \in {"put", "post"}
           /\ q.run \in Runs
           /\ q.seqs \in SUBSET Nat
           /\ q.from \in Drainers =>
                 /\ call[q.from] = "sent"
                 /\ q.kind = pc[q.from]
                 /\ q.run = cur[q.from]
                 /\ q.seqs = batch[q.from][q.run]
           /\ q.from = NoDrainer => q \in late
  <1>1. CASE q \in late
    BY <1>1, NobodyDrains DEF TypeInv, TypeOK, LateRequest
  <1>2. CASE q \notin late
    <2>1. PICK d \in Drainers : call[d] = "sent" /\ q = Request(d)
      BY <1>2 DEF Requests
    <2> QED
      BY <2>1, NobodyDrains DEF TypeInv, TypeOK, CallIsRequest, Request
  <1> QED
    BY <1>1, <1>2


PcType == pc \in [Drainers -> {"idle", "fetch", "group", "put", "post"}]
CallType == call \in [Drainers -> {"none", "sent", "serving", "ok", "refused", "error"}]
BatchType == batch \in [Drainers -> [Runs -> SUBSET Nat]]
CurType == cur \in [Drainers -> Runs]
TxType == tx \in [Runs -> Transaction]
SrvType == srv \in [Runs -> Row]

LEMMA DrainerTypes ==
    TypeInv => /\ PcType /\ CallType /\ BatchType /\ CurType /\ TxType /\ SrvType
               /\ CallIsRequest /\ ServedIsWaiting
  BY DEF TypeInv, TypeOK, PcType, CallType, BatchType, CurType, TxType, SrvType

\* The request of a waiting client, once abandoned, is a late request; and the
\* transactions of a client that left are still transactions.
LEMMA LateFacts ==
    ASSUME TypeInv, NEW d \in Drainers
    PROVE  /\ call[d] = "sent" => [Request(d) EXCEPT !.from = NoDrainer] \in LateRequest
           /\ Abandoned(d) \in [Runs -> Transaction]
           /\ \A r \in Runs : tx[r].from = d => Abandoned(d)[r].from = NoDrainer
           /\ \A r \in Runs : tx[r].from # d => Abandoned(d)[r] = tx[r]
  <1>1. call[d] = "sent" => [Request(d) EXCEPT !.from = NoDrainer] \in LateRequest
    BY DrainerTypes DEF CallIsRequest, PcType, CurType, BatchType, Request, LateRequest
  <1>2. \A r \in Runs : [tx[r] EXCEPT !.from = NoDrainer] \in Transaction
    BY DrainerTypes DEF TxType, Transaction
  <1>3. Abandoned(d) \in [Runs -> Transaction]
    BY <1>2, DrainerTypes DEF Abandoned, TxType
  <1>4. \A r \in Runs : tx[r].from = d => Abandoned(d)[r].from = NoDrainer
    BY DrainerTypes DEF Abandoned, TxType, Transaction
  <1>5. \A r \in Runs : tx[r].from # d => Abandoned(d)[r] = tx[r]
    BY DEF Abandoned
  <1> QED
    BY <1>1, <1>3, <1>4, <1>5

LEMMA TypeDrainNothing ==
    ASSUME TypeInv, NEW d \in Drainers, DrainNothing(d)
    PROVE  TypeInv'
  <1>1. TypeOK'
    BY NobodyDrains DEF DrainNothing, Release, localVars, drainVars, TypeInv, TypeOK
  <1>2. CallIsRequest'
    BY DrainerTypes, NobodyDrains
       DEF DrainNothing, Release, drainVars, CallIsRequest, PcType, CallType, CurType
  <1>3. ServedIsWaiting'
    BY DrainerTypes, NobodyDrains
       DEF DrainNothing, Release, drainVars, ServedIsWaiting, CallIsRequest, PcType, CallType,
           BatchType, CurType, TxType
  <1> QED
    BY <1>1, <1>2, <1>3 DEF TypeInv

LEMMA TypeNextGroup ==
    ASSUME TypeInv, NEW d \in Drainers, NEW r \in Runs, NextGroup(d, r)
    PROVE  TypeInv'
  <1>1. CASE local[r] = "present"
    <2>1. PcType' /\ CallType' /\ CurType'
      BY <1>1, DrainerTypes DEF NextGroup, PcType, CallType, CurType
    <2>2. TypeOK'
      BY <1>1, <2>1 DEF NextGroup, localVars, TypeInv, TypeOK, PcType, CallType, CurType
    <2>3. CallIsRequest' /\ ServedIsWaiting'
      BY <1>1, DrainerTypes, NobodyDrains
         DEF NextGroup, ServedIsWaiting, CallIsRequest, PcType, CallType, CurType
    <2> QED
      BY <2>2, <2>3 DEF TypeInv
  <1>2. CASE local[r] # "present"
    <2>1. batch' \in [Drainers -> [Runs -> SUBSET Nat]]
      BY <1>2, DrainerTypes DEF NextGroup, BatchType
    <2>2. TypeOK'
      BY <1>2, <2>1 DEF NextGroup, localVars, TypeInv, TypeOK
    <2>3. CallIsRequest' /\ ServedIsWaiting'
      BY <1>2, DrainerTypes, NobodyDrains
         DEF NextGroup, ServedIsWaiting, CallIsRequest, BatchType
    <2> QED
      BY <2>2, <2>3 DEF TypeInv
  <1> QED
    BY <1>1, <1>2

LEMMA TypeFinishBatch ==
    ASSUME TypeInv, NEW d \in Drainers, FinishBatch(d)
    PROVE  TypeInv'
  <1>1. TypeOK'
    BY NobodyDrains DEF FinishBatch, Release, localVars, drainVars, TypeInv, TypeOK
  <1>2. CallIsRequest'
    BY DrainerTypes, NobodyDrains
       DEF FinishBatch, Release, drainVars, CallIsRequest, PcType, CallType, CurType
  <1>3. ServedIsWaiting'
    BY DrainerTypes, NobodyDrains
       DEF FinishBatch, Release, drainVars, ServedIsWaiting, CallIsRequest, PcType, CallType,
           BatchType, CurType, TxType
  <1> QED
    BY <1>1, <1>2, <1>3 DEF TypeInv

LEMMA TypePostAnswered ==
    ASSUME TypeInv, NEW d \in Drainers, PostAnswered(d)
    PROVE  TypeInv'
  <1>1. TypeOK'
    BY NobodyDrains DEF PostAnswered, localVars, drainVars, TypeInv, TypeOK
  <1>2. CallIsRequest'
    BY DrainerTypes, NobodyDrains
       DEF PostAnswered, drainVars, CallIsRequest, PcType, CallType, CurType
  <1>3. ServedIsWaiting'
    BY DrainerTypes, NobodyDrains
       DEF PostAnswered, drainVars, ServedIsWaiting, CallIsRequest, PcType, CallType,
           BatchType, CurType, TxType
  <1> QED
    BY <1>1, <1>2, <1>3 DEF TypeInv

LEMMA TypeRequestFailed ==
    ASSUME TypeInv, NEW d \in Drainers, RequestFailed(d)
    PROVE  TypeInv'
  <1>1. TypeOK'
    BY NobodyDrains DEF RequestFailed, localVars, drainVars, TypeInv, TypeOK
  <1>2. CallIsRequest'
    BY DrainerTypes, NobodyDrains
       DEF RequestFailed, drainVars, CallIsRequest, PcType, CallType, CurType
  <1>3. ServedIsWaiting'
    BY DrainerTypes, NobodyDrains
       DEF RequestFailed, drainVars, ServedIsWaiting, CallIsRequest, PcType, CallType,
           BatchType, CurType, TxType
  <1> QED
    BY <1>1, <1>2, <1>3 DEF TypeInv

LEMMA TypeGiveUpEarly ==
    ASSUME TypeInv, NEW d \in Drainers, GiveUpEarly(d)
    PROVE  TypeInv'
  <1>1. TypeOK'
    BY NobodyDrains, LateFacts DEF GiveUpEarly, Fault, localVars, drainVars, TypeInv, TypeOK
  <1>2. CallIsRequest'
    BY DrainerTypes, NobodyDrains
       DEF GiveUpEarly, Fault, drainVars, CallIsRequest, PcType, CallType, CurType
  <1>3. ServedIsWaiting'
    BY DrainerTypes, NobodyDrains
       DEF GiveUpEarly, Fault, drainVars, ServedIsWaiting, CallIsRequest, PcType, CallType,
           BatchType, CurType, TxType
  <1> QED
    BY <1>1, <1>2, <1>3 DEF TypeInv

LEMMA TypeGiveUpWaiting ==
    ASSUME TypeInv, NEW d \in Drainers, GiveUpWaiting(d)
    PROVE  TypeInv'
  <1>0. Abandoned(d) \in [Runs -> Transaction]
    BY LateFacts
  <1>1. TypeOK'
    BY <1>0 DEF GiveUpWaiting, Fault, localVars, drainVars, TypeInv, TypeOK
  <1>2. CallIsRequest'
    BY DrainerTypes DEF GiveUpWaiting, drainVars, CallIsRequest, CallType
  <1>3. ASSUME NEW r \in Runs, NEW e \in Drainers, tx'[r].from = e
        PROVE  e # d /\ tx'[r] = tx[r]
    BY <1>3, LateFacts, NobodyDrains DEF GiveUpWaiting
  <1>4. ServedIsWaiting'
    BY <1>3, DrainerTypes DEF GiveUpWaiting, drainVars, ServedIsWaiting, CallType
  <1> QED
    BY <1>1, <1>2, <1>4 DEF TypeInv

LEMMA TypeCrash ==
    ASSUME TypeInv, NEW d \in Drainers, Crash(d)
    PROVE  TypeInv'
  <1>0. Abandoned(d) \in [Runs -> Transaction] /\ NoBatch \in [Runs -> SUBSET Nat]
    BY LateFacts DEF NoBatch
  <1>1. late' \subseteq LateRequest
    <2>1. late \subseteq LateRequest
      BY DEF TypeInv, TypeOK
    <2>2. CASE UNCHANGED late
      BY <2>1, <2>2
    <2>3. CASE call[d] = "sent" /\ late' = late \cup {[Request(d) EXCEPT !.from = NoDrainer]}
      BY <2>1, <2>3, LateFacts
    <2> QED
      BY <2>2, <2>3 DEF Crash
  <1>2. TypeOK'
    BY <1>0, <1>1 DEF Crash, Fault, Release, localVars, TypeInv, TypeOK
  <1>3. CallIsRequest'
    BY DrainerTypes DEF Crash, Release, CallIsRequest, PcType, CallType
  <1>4. ASSUME NEW r \in Runs, NEW e \in Drainers, tx'[r].from = e
        PROVE  e # d /\ tx'[r] = tx[r]
    BY <1>4, LateFacts, NobodyDrains DEF Crash
  <1>5. ServedIsWaiting'
    BY <1>4, DrainerTypes
       DEF Crash, Release, ServedIsWaiting, PcType, CallType, BatchType, CurType
  <1> QED
    BY <1>2, <1>3, <1>5 DEF TypeInv

LEMMA TypeRegisterRun ==
    ASSUME TypeInv, NEW q \in Requests, RegisterRun(q)
    PROVE  TypeInv'
  <1>0. srv' \in [Runs -> Row]
    <2>1. \A r \in Runs : [srv[r] EXCEPT !.exists = TRUE] \in Row
      BY DrainerTypes DEF SrvType, Row
    <2>2. q.run \in Runs
      BY RequestFacts
    <2>3. srv' = srv \/ srv' = [srv EXCEPT ![q.run].exists = TRUE]
      BY DEF RegisterRun
    <2> QED
      BY <2>1, <2>2, <2>3, DrainerTypes DEF SrvType
  <1>1. TypeOK'
    BY NobodyDrains, RequestFacts, <1>0 DEF RegisterRun, Answer, localVars, drainVars, TypeInv, TypeOK
  <1>2. CallIsRequest'
    BY DrainerTypes, NobodyDrains, RequestFacts
       DEF RegisterRun, Answer, drainVars, CallIsRequest, PcType, CallType, CurType
  <1>3. ServedIsWaiting'
    BY DrainerTypes, NobodyDrains, RequestFacts
       DEF RegisterRun, Answer, drainVars, ServedIsWaiting, CallIsRequest, PcType, CallType,
           BatchType, CurType, TxType
  <1> QED
    BY <1>1, <1>2, <1>3 DEF TypeInv

LEMMA TypeUpdateRun ==
    ASSUME TypeInv, NEW q \in Requests, UpdateRun(q)
    PROVE  TypeInv'
  <1>0. srv' \in [Runs -> Row]
    <2>1. \A r \in Runs : [srv[r] EXCEPT !.attention = "NONE"] \in Row
      BY DrainerTypes DEF SrvType, Row
    <2>2. q.run \in Runs
      BY RequestFacts
    <2>3. srv' = srv \/ srv' = [srv EXCEPT ![q.run].attention = "NONE"]
      BY DEF UpdateRun
    <2> QED
      BY <2>1, <2>2, <2>3, DrainerTypes DEF SrvType
  <1>1. TypeOK'
    BY NobodyDrains, RequestFacts, <1>0 DEF UpdateRun, Answer, localVars, drainVars, TypeInv, TypeOK
  <1>2. CallIsRequest'
    BY DrainerTypes, NobodyDrains, RequestFacts
       DEF UpdateRun, Answer, drainVars, CallIsRequest, PcType, CallType, CurType
  <1>3. ServedIsWaiting'
    BY DrainerTypes, NobodyDrains, RequestFacts
       DEF UpdateRun, Answer, drainVars, ServedIsWaiting, CallIsRequest, PcType, CallType,
           BatchType, CurType, TxType
  <1> QED
    BY <1>1, <1>2, <1>3 DEF TypeInv

LEMMA TypeBeginBatch ==
    ASSUME TypeInv, NEW q \in Requests, BeginBatch(q)
    PROVE  TypeInv'
  <1>0. /\ q.from \in Drainers \cup {NoDrainer} /\ q.run \in Runs /\ q.seqs \in SUBSET Nat
        /\ q.from \in Drainers => /\ call[q.from] = "sent" /\ pc[q.from] = "post"
                                  /\ q.run = cur[q.from] /\ q.seqs = batch[q.from][q.run]
    BY RequestFacts DEF BeginBatch
  <1>1. CASE srv[q.run].exists
    <2>1. tx' = [tx EXCEPT ![q.run] = [open |-> TRUE, from |-> q.from, seqs |-> q.seqs,
                                       todo |-> q.seqs, row |-> srv[q.run]]]
      BY <1>1 DEF BeginBatch
    <2>2. tx' \in [Runs -> Transaction]
      <3>1. srv[q.run] \in Row
        BY <1>0, DrainerTypes DEF SrvType
      <3>2. [open |-> TRUE, from |-> q.from, seqs |-> q.seqs, todo |-> q.seqs,
             row |-> srv[q.run]] \in Transaction
        BY <1>0, <3>1 DEF Transaction
      <3> QED
        BY <2>1, <3>2, DrainerTypes DEF TxType
    <2>3. call' = IF q.from = NoDrainer THEN call ELSE [call EXCEPT ![q.from] = "serving"]
      BY <1>1 DEF BeginBatch, Answer
    <2>4. TypeOK'
      BY <1>0, <2>2, <2>3 DEF BeginBatch, Answer, localVars, drainVars, TypeInv, TypeOK
    <2>5. CallIsRequest'
      BY <1>0, <2>3, DrainerTypes DEF BeginBatch, drainVars, CallIsRequest, CallType
    <2>6. ASSUME NEW r \in Runs, NEW d \in Drainers, tx'[r].from = d
          PROVE  /\ call'[d] = "serving" /\ pc[d] = "post" /\ cur[d] = r
                 /\ tx'[r].open /\ tx'[r].seqs = batch[d][r]
      <3>1. CASE r = q.run
        <4>1. q.from = d
          BY <2>1, <2>6, <3>1, DrainerTypes DEF TxType
        <4> QED
          BY <1>0, <2>1, <2>3, <3>1, <4>1, NobodyDrains, DrainerTypes DEF TxType, CallType
      <3>2. CASE r # q.run
        <4>1. tx'[r] = tx[r]
          BY <2>1, <3>2, DrainerTypes DEF TxType
        <4>2. d # q.from /\ call[d] = "serving"
          BY <1>0, <2>6, <4>1, DrainerTypes DEF ServedIsWaiting
        <4> QED
          BY <2>3, <2>6, <4>1, <4>2, DrainerTypes DEF ServedIsWaiting, CallType
      <3> QED
        BY <3>1, <3>2
    <2>7. ServedIsWaiting'
      BY <2>6 DEF BeginBatch, drainVars, ServedIsWaiting
    <2> QED
      BY <2>4, <2>5, <2>7 DEF TypeInv
  <1>2. CASE ~srv[q.run].exists
    <2>1. call' = IF q.from = NoDrainer THEN call ELSE [call EXCEPT ![q.from] = "refused"]
      BY <1>2 DEF BeginBatch, Answer
    <2>2. TypeOK'
      BY <1>0, <1>2, <2>1 DEF BeginBatch, Answer, localVars, drainVars, TypeInv, TypeOK
    <2>3. CallIsRequest'
      BY <1>0, <2>1, DrainerTypes DEF BeginBatch, drainVars, CallIsRequest, CallType
    <2>4. ServedIsWaiting'
      BY <1>0, <1>2, <2>1, DrainerTypes DEF BeginBatch, drainVars, ServedIsWaiting, CallType
    <2> QED
      BY <2>2, <2>3, <2>4 DEF TypeInv
  <1> QED
    BY <1>1, <1>2

LEMMA TypeSkipDuplicate ==
    ASSUME TypeInv, NEW r \in Runs, NEW n \in tx[r].todo, SkipDuplicate(r, n)
    PROVE  TypeInv'
  <1>0. tx' \in [Runs -> Transaction]
    BY DrainerTypes DEF SkipDuplicate, TxType, Transaction
  <1>1. TypeOK'
    BY NobodyDrains, <1>0 DEF SkipDuplicate, localVars, drainVars, TypeInv, TypeOK
  <1>2. CallIsRequest'
    BY DrainerTypes, NobodyDrains
       DEF SkipDuplicate, drainVars, CallIsRequest, PcType, CallType, CurType
  <1>3. ServedIsWaiting'
    BY DrainerTypes, NobodyDrains
       DEF SkipDuplicate, drainVars, ServedIsWaiting, CallIsRequest, PcType, CallType,
           BatchType, CurType, TxType
  <1> QED
    BY <1>1, <1>2, <1>3 DEF TypeInv

LEMMA TypeIngestEvent ==
    ASSUME TypeInv, NEW r \in Runs, NEW n \in tx[r].todo, IngestEvent(r, n)
    PROVE  TypeInv'
  <1>0. tx' \in [Runs -> Transaction]
    <2>1. tx[r] \in Transaction /\ tx[r].row \in Row /\ n \in Nat
      BY DrainerTypes DEF TxType, Transaction
    <2>2. /\ StatusAfter(tx[r].row.status, log[r][n]) \in Statuses
          /\ AttentionAfter(tx[r].row.attention, log[r][n]) \in {"NONE", "ACTION_REQUIRED"}
      BY <2>1, KindFacts, AfterType DEF Row
    <2>4. Ingested(tx[r].row, r, n) \in Row
      BY <2>1, <2>2 DEF Row, Ingested
    <2>5. tx'[r] \in Transaction
      BY <2>1, <2>4, DrainerTypes DEF IngestEvent, TxType, Transaction
    <2> QED
      BY <2>5, DrainerTypes DEF IngestEvent, TxType
  <1>1. TypeOK'
    BY NobodyDrains, <1>0 DEF IngestEvent, localVars, drainVars, TypeInv, TypeOK
  <1>2. CallIsRequest'
    BY DrainerTypes, NobodyDrains
       DEF IngestEvent, drainVars, CallIsRequest, PcType, CallType, CurType
  <1>3. ServedIsWaiting'
    BY DrainerTypes, NobodyDrains
       DEF IngestEvent, drainVars, ServedIsWaiting, CallIsRequest, PcType, CallType,
           BatchType, CurType, TxType
  <1> QED
    BY <1>1, <1>2, <1>3 DEF TypeInv

LEMMA TypeRefuseBatch ==
    ASSUME TypeInv, NEW r \in Runs, RefuseBatch(r)
    PROVE  TypeInv'
  <1>0. PICK outcome \in {"ok", "refused", "error"} : call' = Reply(r, outcome)
    BY DEF RefuseBatch
  <1>1. tx' \in [Runs -> Transaction] /\ srv' \in [Runs -> Row]
    BY RowType, DrainerTypes DEF RefuseBatch, TxType, SrvType, Transaction
  <1>2. /\ call' \in [Drainers -> {"none", "sent", "serving", "ok", "refused", "error"}]
        /\ \A d \in Drainers : call'[d] # call[d] => tx[r].from = d
    BY <1>0, DrainerTypes DEF Reply, CallType
  <1>3. TypeOK'
    BY <1>1, <1>2 DEF RefuseBatch, Fault, localVars, drainVars, TypeInv, TypeOK
  <1>4. CallIsRequest'
    BY <1>2, DrainerTypes DEF RefuseBatch, drainVars, CallIsRequest, ServedIsWaiting
  <1>5. ASSUME NEW q \in Runs, NEW d \in Drainers, tx'[q].from = d
        PROVE  tx'[q] = tx[q] /\ call'[d] = call[d]
    <2>1. q # r /\ tx'[q] = tx[q]
      BY <1>5, NobodyDrains, DrainerTypes DEF RefuseBatch, TxType, Closed
    <2> QED
      BY <1>2, <1>5, <2>1, DrainerTypes DEF ServedIsWaiting
  <1>6. ServedIsWaiting'
    BY <1>5, DrainerTypes DEF RefuseBatch, drainVars, ServedIsWaiting
  <1> QED
    BY <1>3, <1>4, <1>6 DEF TypeInv

LEMMA TypeAbortBatch ==
    ASSUME TypeInv, NEW r \in Runs, AbortBatch(r)
    PROVE  TypeInv'
  <1>0. PICK outcome \in {"ok", "refused", "error"} : call' = Reply(r, outcome)
    BY DEF AbortBatch
  <1>1. tx' \in [Runs -> Transaction] /\ srv' \in [Runs -> Row]
    BY RowType, DrainerTypes DEF AbortBatch, TxType, SrvType, Transaction
  <1>2. /\ call' \in [Drainers -> {"none", "sent", "serving", "ok", "refused", "error"}]
        /\ \A d \in Drainers : call'[d] # call[d] => tx[r].from = d
    BY <1>0, DrainerTypes DEF Reply, CallType
  <1>3. TypeOK'
    BY <1>1, <1>2 DEF AbortBatch, Fault, localVars, drainVars, TypeInv, TypeOK
  <1>4. CallIsRequest'
    BY <1>2, DrainerTypes DEF AbortBatch, drainVars, CallIsRequest, ServedIsWaiting
  <1>5. ASSUME NEW q \in Runs, NEW d \in Drainers, tx'[q].from = d
        PROVE  tx'[q] = tx[q] /\ call'[d] = call[d]
    <2>1. q # r /\ tx'[q] = tx[q]
      BY <1>5, NobodyDrains, DrainerTypes DEF AbortBatch, TxType, Closed
    <2> QED
      BY <1>2, <1>5, <2>1, DrainerTypes DEF ServedIsWaiting
  <1>6. ServedIsWaiting'
    BY <1>5, DrainerTypes DEF AbortBatch, drainVars, ServedIsWaiting
  <1> QED
    BY <1>3, <1>4, <1>6 DEF TypeInv

LEMMA TypeCommitBatch ==
    ASSUME TypeInv, NEW r \in Runs, CommitBatch(r)
    PROVE  TypeInv'
  <1>0. PICK outcome \in {"ok", "refused", "error"} : call' = Reply(r, outcome)
    BY DEF CommitBatch
  <1>1. tx' \in [Runs -> Transaction] /\ srv' \in [Runs -> Row]
    BY RowType, DrainerTypes DEF CommitBatch, TxType, SrvType, Transaction
  <1>2. /\ call' \in [Drainers -> {"none", "sent", "serving", "ok", "refused", "error"}]
        /\ \A d \in Drainers : call'[d] # call[d] => tx[r].from = d
    BY <1>0, DrainerTypes DEF Reply, CallType
  <1>3. TypeOK'
    BY <1>1, <1>2 DEF CommitBatch, Fault, localVars, drainVars, TypeInv, TypeOK
  <1>4. CallIsRequest'
    BY <1>2, DrainerTypes DEF CommitBatch, drainVars, CallIsRequest, ServedIsWaiting
  <1>5. ASSUME NEW q \in Runs, NEW d \in Drainers, tx'[q].from = d
        PROVE  tx'[q] = tx[q] /\ call'[d] = call[d]
    <2>1. q # r /\ tx'[q] = tx[q]
      BY <1>5, NobodyDrains, DrainerTypes DEF CommitBatch, TxType, Closed
    <2> QED
      BY <1>2, <1>5, <2>1, DrainerTypes DEF ServedIsWaiting
  <1>6. ServedIsWaiting'
    BY <1>5, DrainerTypes DEF CommitBatch, drainVars, ServedIsWaiting
  <1> QED
    BY <1>3, <1>4, <1>6 DEF TypeInv

LEMMA TypeRetainEvents ==
    ASSUME TypeInv, NEW r \in Runs, RetainEvents(r)
    PROVE  TypeInv'
  <1>0. PICK n \in srv[r].stored :
           /\ srv' = [srv EXCEPT ![r].stored = {m \in @ : m > n}]
           /\ tx' = [tx EXCEPT ![r].row.stored = {m \in @ : m > n}]
    BY DEF RetainEvents
  <1>1. srv' \in [Runs -> Row]
    <2>1. [srv[r] EXCEPT !.stored = {m \in @ : m > n}] \in Row
      BY DrainerTypes DEF SrvType, Row
    <2> QED
      BY <1>0, <2>1, DrainerTypes DEF SrvType
  <1>2. tx' \in [Runs -> Transaction]
    <2>1. tx[r] \in Transaction /\ tx[r].row \in Row
      BY DrainerTypes DEF TxType, Transaction
    <2>2. [tx[r].row EXCEPT !.stored = {m \in @ : m > n}] \in Row
      BY <2>1 DEF Row
    <2>3. [tx[r] EXCEPT !.row.stored = {m \in @ : m > n}] \in Transaction
      BY <2>1, <2>2 DEF Transaction
    <2> QED
      BY <1>0, <2>3, DrainerTypes DEF TxType
  <1>3. TypeOK'
    BY <1>1, <1>2 DEF TypeInv, TypeOK, RetainEvents, localVars, drainVars
  <1>4. \A p \in Runs : tx'[p].from = tx[p].from /\ tx'[p].open = tx[p].open
                         /\ tx'[p].seqs = tx[p].seqs
    BY <1>0, DrainerTypes DEF TxType, Transaction
  <1>5. CallIsRequest' /\ ServedIsWaiting'
    BY <1>4, DrainerTypes DEF CallIsRequest, ServedIsWaiting, RetainEvents, drainVars
  <1> QED
    BY <1>3, <1>5 DEF TypeInv

\* The machine's own actions: only the local tables and the pool of pending
\* events move.
LEMMA TypeMachine ==
    ASSUME TypeInv
    PROVE  /\ \A r \in Runs : CreateRun(r) => TypeInv'
           /\ \A r \in Runs, k \in DOMAIN EmittedIn : AppendEvent(r, k) => TypeInv'
           /\ \A m \in PruneModes : PruneSelect(m) => TypeInv'
           /\ PruneDelete => TypeInv'
           /\ \A r \in Runs : BackoffExpires(r) => TypeInv'
  <1> USE DEF TypeInv, TypeOK, CallIsRequest, ServedIsWaiting, drainVars
  <1>1. ASSUME NEW r \in Runs, CreateRun(r) PROVE TypeInv'
    <2>1. <<"created">> \in Seq(Kinds)
      BY KindFacts
    <2> QED
      BY <1>1, <2>1 DEF CreateRun
  <1>2. ASSUME NEW r \in Runs, NEW k \in DOMAIN EmittedIn, AppendEvent(r, k) PROVE TypeInv'
    <2>1. k \in Kinds /\ StatusAfter(status[r], k) \in Statuses
      BY KindFacts
    <2> QED
      BY <1>2, <2>1 DEF AppendEvent
  <1>3. ASSUME NEW m \in PruneModes, PruneSelect(m) PROVE TypeInv'
    BY <1>3 DEF PruneSelect
  <1>4. ASSUME PruneDelete PROVE TypeInv'
    BY <1>4 DEF PruneDelete
  <1>5. ASSUME NEW r \in Runs, BackoffExpires(r) PROVE TypeInv'
    BY <1>5 DEF BackoffExpires
  <1> QED
    BY <1>1, <1>2, <1>3, <1>4, <1>5

\* The steps of a drainer that touch one or two of its variables only.
LEMMA TypeDrainer ==
    ASSUME TypeInv, NEW d \in Drainers, StartDrain(d) \/ StartSync(d) \/ Fetch(d)
                                         \/ PutAnswered(d) \/ Lose(d)
    PROVE  TypeInv'
  <1> USE DEF TypeInv, TypeOK, CallIsRequest, ServedIsWaiting
  <1>1. CASE StartDrain(d)
    BY <1>1 DEF StartDrain, localVars
  <1>2. CASE StartSync(d)
    BY <1>2 DEF StartSync
  <1>3. CASE Fetch(d)
    BY <1>3 DEF Fetch, localVars, Pending
  <1>4. CASE PutAnswered(d)
    BY <1>4 DEF PutAnswered
  <1>5. CASE Lose(d)
    BY <1>5 DEF Lose, Fault, localVars, drainVars
  <1> QED
    BY <1>1, <1>2, <1>3, <1>4, <1>5

LEMMA TypeStutter ==
    ASSUME TypeInv, UNCHANGED vars
    PROVE  TypeInv'
  BY DEF vars, localVars, drainVars, TypeInv, TypeOK, CallIsRequest, ServedIsWaiting

\* The disjuncts of Next.
Steps ==
    \/ \E r \in Runs :
          \/ CreateRun(r)
          \/ \E k \in DOMAIN EmittedIn : AppendEvent(r, k)
          \/ BackoffExpires(r)
          \/ RetainEvents(r)
          \/ AbortBatch(r)
          \/ \E n \in tx[r].todo : SkipDuplicate(r, n) \/ IngestEvent(r, n)
          \/ RefuseBatch(r)
          \/ CommitBatch(r)
    \/ \E m \in PruneModes : PruneSelect(m)
    \/ PruneDelete
    \/ \E d \in Drainers :
          \/ StartDrain(d) \/ StartSync(d) \/ Fetch(d) \/ PutAnswered(d) \/ Lose(d)
          \/ DrainNothing(d)
          \/ \E r \in Runs : NextGroup(d, r)
          \/ FinishBatch(d)
          \/ PostAnswered(d)
          \/ RequestFailed(d)
          \/ GiveUpEarly(d)
          \/ GiveUpWaiting(d)
          \/ Crash(d)
    \/ \E q \in Requests : RegisterRun(q) \/ UpdateRun(q) \/ BeginBatch(q)

LEMMA NextIsSteps == Next => Steps
  BY DEF Next, Steps, AppendNext, PruneNext, DrainStep, FaultNext, ServerStep

LEMMA StepType == TypeInv /\ [Next]_vars => TypeInv'
  <1>1. ASSUME TypeInv, Next PROVE TypeInv'
    BY <1>1, NextIsSteps, TypeMachine, TypeDrainer, TypeDrainNothing, TypeNextGroup,
       TypeFinishBatch, TypePostAnswered, TypeRequestFailed, TypeGiveUpEarly,
       TypeGiveUpWaiting, TypeCrash, TypeRegisterRun, TypeUpdateRun, TypeBeginBatch,
       TypeSkipDuplicate, TypeIngestEvent, TypeRefuseBatch, TypeAbortBatch,
       TypeCommitBatch, TypeRetainEvents
       DEF Steps
  <1> QED
    BY <1>1, TypeStutter

\* Every variable keeps its shape in every behaviour.
THEOREM TypeCorrect == Spec => []TypeOK
  <1>1. TypeInv => TypeOK
    BY DEF TypeInv
  <1> QED
    BY <1>1, InitType, StepType, PTL DEF Spec
==============================================================================
