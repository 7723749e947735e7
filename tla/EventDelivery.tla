---------------------------- MODULE EventDelivery ----------------------------
(***************************************************************************)
(* How the events of a Run get from the machine's SQLite outbox to the     *)
(* server's projection.                                                    *)
(*                                                                         *)
(*   machine   EventQueue (persistence/store.py): the event log of each    *)
(*             Run, its delivered flags and its backoff;                   *)
(*   drainers  the upload loops of the Workers and `runbuoy sync`, which   *)
(*             share one file lease (networking/client.py);                *)
(*   network   requests and answers may be lost, and a request the client  *)
(*             gave up on may still reach the server later;                *)
(*   server    PUT /v1/runs/{id} and POST /v1/runs/{id}/events:batch, the  *)
(*             second one a transaction over the batch on the locked row.  *)
(*                                                                         *)
(* An event is named by its Run and its seq; log[r][n] is its kind.  The   *)
(* kind never changes, so a request carries the seqs only.                 *)
(***************************************************************************)
EXTENDS RunEvents, Sequences, FiniteSets

CONSTANTS
    Runs,            \* Run ids, ordered like the UUIDv7 strings they stand for
    Drainers,        \* processes that may drain the outbox
    NoDrainer,       \* the lease is free, or nobody waits for the answer
    UsedKinds,       \* the event kinds this instance appends
    MaxEvents,       \* bound: events of one Run
    BatchSize,       \* Config.batch_size
    MaxActiveRuns,   \* Settings.max_active_runs_per_machine
    MaxFaults,       \* bound: lost or refused calls, crashes
    LateKinds,       \* requests that may arrive after the client gave up: put, post
    MaxLate,         \* bound: such requests travelling at a time
    PruneModes,      \* values of `history prune --include-unsynced`
    EventRetention   \* the server deletes events of terminal Runs

ASSUME RunsAreNumbered == Runs \subseteq Nat /\ Runs # {}
ASSUME NobodyDrains == NoDrainer \notin Drainers
ASSUME BoundsAreNumbers ==
    /\ {MaxEvents, BatchSize, MaxActiveRuns, MaxFaults, MaxLate} \subseteq Nat
    /\ BatchSize # 0
    /\ PruneModes \subseteq BOOLEAN
    /\ EventRetention \in BOOLEAN

VARIABLES
    \* SQLite: runs and events tables
    local,       \* local[r]: absent, present or pruned (the row is gone)
    log,         \* log[r][n]: kind of event n of r
    status,      \* runs.status
    remoteInit,  \* runs.remote_initialized
    delivered,   \* delivered[r]: seqs with events.delivered = 1
    cooling,     \* cooling[r]: failed batches, in the order their backoff ends
    pruning,     \* Runs `history prune` selected and has not deleted yet
    \* drainers
    lease,       \* holder of the flock on the outbox lease file
    pc,          \* pc[d]: idle, fetch, group, put or post
    batch,       \* batch[d][r]: seqs of the current batch not yet dealt with
    cur,         \* cur[d]: Run of the outstanding request
    short,       \* short[d]: this flush delivered fewer than BatchSize events
    call,        \* call[d]: none, sent, serving, ok, refused or error
    \* network and server
    late,        \* requests whose client no longer waits
    srv,         \* srv[r]: the server's row for r and its RunEvent rows
    tx,          \* tx[r]: the open events:batch transaction on r
    faults       \* faults so far

localVars == <<local, log, status, remoteInit, delivered, cooling, pruning>>
drainVars == <<lease, pc, batch, cur, short>>
vars == <<localVars, drainVars, call, late, srv, tx, faults>>

NoBatch == [r \in Runs |-> {}]

NoRow == [exists |-> FALSE, status |-> "CREATED", attention |-> "NONE",
          lastSeq |-> 0, stored |-> {}, accepted |-> {}]

Closed == [open |-> FALSE, from |-> NoDrainer, seqs |-> {}, todo |-> {}, row |-> NoRow]

Init ==
    /\ local = [r \in Runs |-> "absent"]
    /\ log = [r \in Runs |-> <<>>]
    /\ status = [r \in Runs |-> "CREATED"]
    /\ remoteInit = [r \in Runs |-> FALSE]
    /\ delivered = [r \in Runs |-> {}]
    /\ cooling = [r \in Runs |-> <<>>]
    /\ pruning = {}
    /\ lease = NoDrainer
    /\ pc = [d \in Drainers |-> "idle"]
    /\ batch = [d \in Drainers |-> NoBatch]
    /\ cur = [d \in Drainers |-> CHOOSE r \in Runs : TRUE]
    /\ short = [d \in Drainers |-> FALSE]
    /\ call = [d \in Drainers |-> "none"]
    /\ late = {}
    /\ srv = [r \in Runs |-> NoRow]
    /\ tx = [r \in Runs |-> Closed]
    /\ faults = 0

----------------------------------------------------------------------------
(* The machine's event log.                                                *)

\* create_run: the runs row and its run.created event, in one transaction.
CreateRun(r) ==
    /\ local[r] = "absent"
    /\ local' = [local EXCEPT ![r] = "present"]
    /\ log' = [log EXCEPT ![r] = <<"created">>]
    /\ UNCHANGED <<status, remoteInit, delivered, cooling, pruning,
                   drainVars, call, late, srv, tx, faults>>

\* The local statuses in which the Worker or the CLI emits each kind of event.
EmittedIn ==
    [starting  |-> {"CREATED"},
     started   |-> {"STARTING"},
     progress  |-> {"STARTING", "RUNNING"},
     attention |-> {"STARTING", "RUNNING"},
     succeeded |-> {"RUNNING"},
     cancelled |-> {"RUNNING"},
     failed    |-> {"STARTING", "RUNNING"},
     lost      |-> {"CREATED", "STARTING", "RUNNING"}]

MayAppend(r, kind) ==
    /\ status[r] \notin TerminalStatuses
    /\ status[r] \in EmittedIn[kind]

\* append_event: refused once the Run is terminal; otherwise the event gets
\* the next seq and the runs row its status, in one transaction.
AppendEvent(r, kind) ==
    /\ local[r] = "present"
    /\ MayAppend(r, kind)
    /\ Len(log[r]) < MaxEvents
    /\ log' = [log EXCEPT ![r] = Append(@, kind)]
    /\ status' = [status EXCEPT ![r] = StatusAfter(@, kind)]
    /\ UNCHANGED <<local, remoteInit, delivered, cooling, pruning,
                   drainVars, call, late, srv, tx, faults>>

Cooling(r) == UNION {cooling[r][i] : i \in DOMAIN cooling[r]}

\* The rows pending_events may return: undelivered and past next_attempt_at.
Pending(r) ==
    IF local[r] = "present"
    THEN {n \in 1..Len(log[r]) : n \notin delivered[r] /\ n \notin Cooling(r)}
    ELSE {}

\* next_attempt_at passes.  The delay grows with the largest attempt_count of
\* the Run, so the batches of a Run become eligible in the order they failed.
BackoffExpires(r) ==
    /\ cooling[r] # <<>>
    /\ cooling' = [cooling EXCEPT ![r] = Tail(@)]
    /\ UNCHANGED <<local, log, status, remoteInit, delivered, pruning,
                   drainVars, call, late, srv, tx, faults>>

\* Mutant of Prunable: the last event stands for all of them.
PrunableByLast(r, includeUnsynced) ==
    /\ local[r] = "present"
    /\ status[r] \in TerminalStatuses
    /\ includeUnsynced \/ Len(log[r]) \in delivered[r]

\* terminal_runs_before: ended, and without undelivered events unless asked.
Prunable(r, includeUnsynced) ==
    /\ local[r] = "present"
    /\ status[r] \in TerminalStatuses
    /\ includeUnsynced \/ 1..Len(log[r]) \subseteq delivered[r]

\* history prune, first half: terminal_runs_before selects the candidates.
PruneSelect(includeUnsynced) ==
    /\ pruning = {}
    /\ pruning' = {r \in Runs : Prunable(r, includeUnsynced)}
    /\ pruning' # {}
    /\ UNCHANGED <<local, log, status, remoteInit, delivered, cooling,
                   drainVars, call, late, srv, tx, faults>>

\* history prune, second half: delete_runs for the Runs whose files could be
\* removed; the user may also answer no.
PruneDelete ==
    /\ pruning # {}
    /\ \E removed \in SUBSET pruning :
          /\ local' = [r \in Runs |-> IF r \in removed THEN "pruned" ELSE local[r]]
          /\ cooling' = [r \in Runs |-> IF r \in removed THEN <<>> ELSE cooling[r]]
    /\ pruning' = {}
    /\ UNCHANGED <<log, status, remoteInit, delivered,
                   drainVars, call, late, srv, tx, faults>>

----------------------------------------------------------------------------
(* Drainers.                                                               *)

\* Mutant of LeaseFree: every process drains when it likes.
LeaseIgnored == TRUE

LeaseFree == lease = NoDrainer

\* outbox_lease acquired by the upload loop of a Worker.
StartDrain(d) ==
    /\ pc[d] = "idle"
    /\ LeaseFree
    /\ lease' = d
    /\ pc' = [pc EXCEPT ![d] = "fetch"]
    /\ UNCHANGED <<localVars, batch, cur, short, call, late, srv, tx, faults>>

\* outbox_lease acquired by `runbuoy sync`, which first makes every
\* undelivered event eligible (retry_all_pending_now).
StartSync(d) ==
    /\ pc[d] = "idle"
    /\ LeaseFree
    /\ lease' = d
    /\ pc' = [pc EXCEPT ![d] = "fetch"]
    /\ cooling' = [r \in Runs |-> <<>>]
    /\ UNCHANGED <<local, log, status, remoteInit, delivered, pruning,
                   batch, cur, short, call, late, srv, tx, faults>>

PendingEvents == UNION {{<<r, n>> : n \in Pending(r)} : r \in Runs}

Before(e, f) == e[1] < f[1] \/ (e[1] = f[1] /\ e[2] < f[2])

\* pending_events: the first BatchSize rows ORDER BY run_id, seq.
FirstPending(B) ==
    /\ Cardinality(B) <= BatchSize
    /\ B # PendingEvents => Cardinality(B) = BatchSize
    /\ \A e \in B, f \in PendingEvents \ B : Before(e, f)

\* flush_pending reads the next batch and groups it by Run.
Fetch(d) ==
    /\ pc[d] = "fetch"
    /\ PendingEvents # {}
    /\ \E B \in SUBSET PendingEvents :
          /\ FirstPending(B)
          /\ batch' = [batch EXCEPT ![d] =
                          [r \in Runs |-> {n \in Pending(r) : <<r, n>> \in B}]]
          /\ short' = [short EXCEPT ![d] = Cardinality(B) < BatchSize]
    /\ pc' = [pc EXCEPT ![d] = "group"]
    /\ UNCHANGED <<localVars, lease, cur, call, late, srv, tx, faults>>

\* Mutant of Release: the lease file stays locked.
ReleaseNothing(d) ==
    /\ pc' = [pc EXCEPT ![d] = "idle"]
    /\ UNCHANGED lease

Release(d) ==
    /\ pc' = [pc EXCEPT ![d] = "idle"]
    /\ lease' = NoDrainer

\* flush_pending finds nothing to send: drain_pending ends.
DrainNothing(d) ==
    /\ pc[d] = "fetch"
    /\ PendingEvents = {}
    /\ Release(d)
    /\ UNCHANGED <<localVars, batch, cur, short, call, late, srv, tx, faults>>

\* flush_pending turns to the next Run of the batch: PUT if the Run was never
\* registered, POST otherwise, and nothing if the Run was pruned meanwhile.
NextGroup(d, r) ==
    /\ pc[d] = "group"
    /\ batch[d][r] # {}
    /\ \A q \in Runs : q < r => batch[d][q] = {}
    /\ \/ /\ local[r] = "present"
          /\ pc' = [pc EXCEPT ![d] = IF remoteInit[r] THEN "post" ELSE "put"]
          /\ cur' = [cur EXCEPT ![d] = r]
          /\ call' = [call EXCEPT ![d] = "sent"]
          /\ UNCHANGED <<batch, short>>
       \/ /\ local[r] # "present"
          /\ batch' = [batch EXCEPT ![d][r] = {}]
          /\ short' = [short EXCEPT ![d] = TRUE]
          /\ UNCHANGED <<pc, cur, call>>
    /\ UNCHANGED <<localVars, lease, late, srv, tx, faults>>

\* drain_pending: another batch only if this one was full and all delivered.
FinishBatch(d) ==
    /\ pc[d] = "group"
    /\ batch[d] = NoBatch
    /\ \/ short[d] /\ Release(d)
       \/ ~short[d] /\ pc' = [pc EXCEPT ![d] = "fetch"] /\ UNCHANGED lease
    /\ UNCHANGED <<localVars, batch, cur, short, call, late, srv, tx, faults>>

\* upsert_run answered: mark_remote_initialized, then the events follow.
PutAnswered(d) ==
    /\ pc[d] = "put"
    /\ call[d] = "ok"
    /\ remoteInit' = [remoteInit EXCEPT ![cur[d]] = @ \/ local[cur[d]] = "present"]
    /\ pc' = [pc EXCEPT ![d] = "post"]
    /\ call' = [call EXCEPT ![d] = "sent"]
    /\ UNCHANGED <<local, log, status, delivered, cooling, pruning,
                   lease, batch, cur, short, late, srv, tx, faults>>

\* upload_events answered: mark_delivered for the whole group.
PostAnswered(d) ==
    /\ pc[d] = "post"
    /\ call[d] = "ok"
    /\ delivered' = [delivered EXCEPT ![cur[d]] = @ \cup batch[d][cur[d]]]
    /\ batch' = [batch EXCEPT ![d][cur[d]] = {}]
    /\ pc' = [pc EXCEPT ![d] = "group"]
    /\ call' = [call EXCEPT ![d] = "none"]
    /\ UNCHANGED <<local, log, status, remoteInit, cooling, pruning,
                   lease, cur, short, late, srv, tx, faults>>

\* Any HTTP or transport error: mark_failed backs off exactly the events of
\* this group; events appended meanwhile stay eligible.
RequestFailed(d) ==
    /\ call[d] \in {"refused", "error"}
    /\ cooling' = [cooling EXCEPT ![cur[d]] =
                      IF local[cur[d]] = "present" THEN Append(@, batch[d][cur[d]]) ELSE @]
    /\ batch' = [batch EXCEPT ![d][cur[d]] = {}]
    /\ short' = [short EXCEPT ![d] = TRUE]
    /\ pc' = [pc EXCEPT ![d] = "group"]
    /\ call' = [call EXCEPT ![d] = "none"]
    /\ UNCHANGED <<local, log, status, remoteInit, delivered, pruning,
                   lease, cur, late, srv, tx, faults>>

----------------------------------------------------------------------------
(* Network and crashes of the machine.                                     *)

Request(d) == [from |-> d, kind |-> pc[d], run |-> cur[d], seqs |-> batch[d][cur[d]]]

Requests == {Request(d) : d \in {e \in Drainers : call[e] = "sent"}} \cup late

Fault ==
    /\ faults < MaxFaults
    /\ faults' = faults + 1

\* The request or its answer is lost, or the server refuses it without looking
\* at the Run (rate limit, credential, 5xx).
Lose(d) ==
    /\ Fault
    /\ call[d] \in {"sent", "ok"}
    /\ call' = [call EXCEPT ![d] = "error"]
    /\ UNCHANGED <<localVars, drainVars, late, srv, tx>>

\* The client times out while its request is on the way; it arrives later.
GiveUpEarly(d) ==
    /\ Fault
    /\ call[d] = "sent"
    /\ Request(d).kind \in LateKinds
    /\ Cardinality(late) < MaxLate
    /\ late' = late \cup {[Request(d) EXCEPT !.from = NoDrainer]}
    /\ call' = [call EXCEPT ![d] = "error"]
    /\ UNCHANGED <<localVars, drainVars, srv, tx>>

Abandoned(d) ==
    [r \in Runs |-> IF tx[r].from = d THEN [tx[r] EXCEPT !.from = NoDrainer] ELSE tx[r]]

\* The client times out while the server works on its batch.
GiveUpWaiting(d) ==
    /\ Fault
    /\ call[d] = "serving"
    /\ tx' = Abandoned(d)
    /\ call' = [call EXCEPT ![d] = "error"]
    /\ UNCHANGED <<localVars, drainVars, late, srv>>

\* The process dies: the kernel drops its flock, its request may still arrive.
Crash(d) ==
    /\ Fault
    /\ pc[d] # "idle"
    /\ Release(d)
    /\ batch' = [batch EXCEPT ![d] = NoBatch]
    /\ call' = [call EXCEPT ![d] = "none"]
    /\ tx' = Abandoned(d)
    /\ \/ UNCHANGED late
       \/ /\ call[d] = "sent"
          /\ Request(d).kind \in LateKinds
          /\ Cardinality(late) < MaxLate
          /\ late' = late \cup {[Request(d) EXCEPT !.from = NoDrainer]}
    /\ UNCHANGED <<localVars, cur, short, srv>>

----------------------------------------------------------------------------
(* The server.                                                             *)

\* The request leaves the network; a waiting client learns the outcome.
Answer(q, outcome) ==
    /\ late' = late \ {q}
    /\ call' = IF q.from = NoDrainer THEN call ELSE [call EXCEPT ![q.from] = outcome]

ActiveRuns == {r \in Runs : srv[r].exists /\ srv[r].status \notin TerminalStatuses}

\* PUT on an unknown Run: insert it, unless the Machine has too many active.
RegisterRun(q) ==
    /\ q.kind = "put"
    /\ ~srv[q.run].exists
    /\ IF Cardinality(ActiveRuns) < MaxActiveRuns
       THEN /\ srv' = [srv EXCEPT ![q.run].exists = TRUE]
            /\ Answer(q, "ok")
       ELSE /\ Answer(q, "refused")
            /\ UNCHANGED srv
    /\ UNCHANGED <<localVars, drainVars, tx, faults>>

\* PUT on a known Run: refused if it is terminal (the client always sends
\* CREATED), otherwise the body's attention_status, NONE, overwrites the row's.
UpdateRun(q) ==
    /\ q.kind = "put"
    /\ srv[q.run].exists
    /\ ~tx[q.run].open
    /\ IF srv[q.run].status \in TerminalStatuses
       THEN /\ Answer(q, "refused")
            /\ UNCHANGED srv
       ELSE /\ srv' = [srv EXCEPT ![q.run].attention = "NONE"]
            /\ Answer(q, "ok")
    /\ UNCHANGED <<localVars, drainVars, tx, faults>>

\* POST events:batch: lock the row and start with a copy of it, or 404.
BeginBatch(q) ==
    /\ q.kind = "post"
    /\ ~tx[q.run].open
    /\ IF srv[q.run].exists
       THEN /\ tx' = [tx EXCEPT ![q.run] =
                         [open |-> TRUE, from |-> q.from, seqs |-> q.seqs,
                          todo |-> q.seqs, row |-> srv[q.run]]]
            /\ Answer(q, "serving")
       ELSE /\ Answer(q, "refused")
            /\ UNCHANGED tx
    /\ UNCHANGED <<localVars, drainVars, srv, faults>>

IsNext(r, n) == n \in tx[r].todo /\ \A m \in tx[r].todo : n <= m

\* Mutants of Known: duplicates recognised by seq, and not at all.
KnownBySeq(row, n) == n <= row.lastSeq
KnownNever(row, n) == FALSE

Known(row, n) == n \in row.stored

\* ingest_events, one event that is already stored under its event_id.
SkipDuplicate(r, n) ==
    /\ tx[r].open
    /\ IsNext(r, n)
    /\ Known(tx[r].row, n)
    /\ tx' = [tx EXCEPT ![r].todo = @ \ {n}]
    /\ UNCHANGED <<localVars, drainVars, call, late, srv, faults>>

\* Mutant of Ingestible: any order.
IngestibleAnyOrder(row, r, n) == Accepts(row.status, log[r][n])

Ingestible(row, r, n) == n > row.lastSeq /\ Accepts(row.status, log[r][n])

\* Mutant of Ingested: the event type lands in the status column.
IngestedRaw(row, r, n) ==
    [row EXCEPT !.stored = @ \cup {n}, !.lastSeq = n, !.status = log[r][n]]

\* The event row is added and the columns of the Run follow its payload.
Ingested(row, r, n) ==
    [row EXCEPT
        !.stored = @ \cup {n},
        !.accepted = @ \cup {n},
        !.lastSeq = n,
        !.status = StatusAfter(@, log[r][n]),
        !.attention = AttentionAfter(@, log[r][n])]

\* ingest_events, one new event: stored, and applied to the projection.
IngestEvent(r, n) ==
    /\ tx[r].open
    /\ IsNext(r, n)
    /\ ~Known(tx[r].row, n)
    /\ Ingestible(tx[r].row, r, n)
    /\ tx' = [tx EXCEPT ![r].todo = @ \ {n}, ![r].row = Ingested(@, r, n)]
    /\ UNCHANGED <<localVars, drainVars, call, late, srv, faults>>

Reply(r, outcome) ==
    IF tx[r].from = NoDrainer THEN call ELSE [call EXCEPT ![tx[r].from] = outcome]

\* ingest_events raises 409 (stale seq or illegal transition): the whole batch
\* is rolled back.
RefuseBatch(r) ==
    /\ tx[r].open
    /\ \E n \in tx[r].todo :
          /\ IsNext(r, n)
          /\ ~Known(tx[r].row, n)
          /\ ~Ingestible(tx[r].row, r, n)
    /\ tx' = [tx EXCEPT ![r] = Closed]
    /\ call' = Reply(r, "refused")
    /\ UNCHANGED <<localVars, drainVars, late, srv, faults>>

\* The database or the API process fails inside the transaction.
AbortBatch(r) ==
    /\ Fault
    /\ tx[r].open
    /\ tx' = [tx EXCEPT ![r] = Closed]
    /\ call' = Reply(r, "error")
    /\ UNCHANGED <<localVars, drainVars, late, srv>>

CommitBatch(r) ==
    /\ tx[r].open
    /\ tx[r].todo = {}
    /\ srv' = [srv EXCEPT ![r] = tx[r].row]
    /\ tx' = [tx EXCEPT ![r] = Closed]
    /\ call' = Reply(r, "ok")
    /\ UNCHANGED <<localVars, drainVars, late, faults>>

\* cleanup_retention: the oldest RunEvent rows of a terminal Run go, without a
\* lock on the Run: a transaction on it stops seeing them, too.
RetainEvents(r) ==
    /\ EventRetention
    /\ srv[r].status \in TerminalStatuses
    /\ \E n \in srv[r].stored :
          /\ srv' = [srv EXCEPT ![r].stored = {m \in @ : m > n}]
          /\ tx' = [tx EXCEPT ![r].row.stored = {m \in @ : m > n}]
    /\ UNCHANGED <<localVars, drainVars, call, late, faults>>

----------------------------------------------------------------------------
AppendNext ==
    \E r \in Runs :
        \/ CreateRun(r)
        \/ \E kind \in UsedKinds \cap DOMAIN EmittedIn : AppendEvent(r, kind)

PruneNext ==
    \/ \E mode \in PruneModes : PruneSelect(mode)
    \/ PruneDelete

DrainStep(d) ==
    \/ Fetch(d)
    \/ DrainNothing(d)
    \/ \E r \in Runs : NextGroup(d, r)
    \/ FinishBatch(d)
    \/ PutAnswered(d)
    \/ PostAnswered(d)
    \/ RequestFailed(d)

FaultNext ==
    \/ \E d \in Drainers :
          Lose(d) \/ GiveUpEarly(d) \/ GiveUpWaiting(d) \/ Crash(d)
    \/ \E r \in Runs : AbortBatch(r)

ServerStep ==
    \/ \E q \in Requests : RegisterRun(q) \/ UpdateRun(q) \/ BeginBatch(q)
    \/ \E r \in Runs :
          \/ \E n \in tx[r].todo : SkipDuplicate(r, n) \/ IngestEvent(r, n)
          \/ RefuseBatch(r)
          \/ CommitBatch(r)

Next ==
    \/ AppendNext
    \/ PruneNext
    \/ \E r \in Runs : BackoffExpires(r) \/ RetainEvents(r)
    \/ \E d \in Drainers : StartDrain(d) \/ StartSync(d) \/ DrainStep(d)
    \/ FaultNext
    \/ ServerStep

Spec == Init /\ [][Next]_vars

\* A drainer polls while any Worker lives, backoffs run out, and requests that
\* meet no fault are answered.  Nothing is assumed of the commands that append
\* events, of sync, of prune or of retention.
Fairness ==
    /\ \A d \in Drainers : WF_vars(StartDrain(d)) /\ WF_vars(DrainStep(d))
    /\ \A r \in Runs : WF_vars(BackoffExpires(r))
    /\ WF_vars(ServerStep)

FairSpec == Spec /\ Fairness

----------------------------------------------------------------------------
(* Properties.                                                             *)

LateRequest == [from : {NoDrainer}, kind : {"put", "post"}, run : Runs, seqs : SUBSET Nat]

Row == [exists : BOOLEAN, status : Statuses, attention : {"NONE", "ACTION_REQUIRED"},
        lastSeq : Nat, stored : SUBSET Nat, accepted : SUBSET Nat]

Transaction == [open : BOOLEAN, from : Drainers \cup {NoDrainer},
                seqs : SUBSET Nat, todo : SUBSET Nat, row : Row]

\* Every variable has the shape its comment gives it.
TypeOK ==
    /\ local \in [Runs -> {"absent", "present", "pruned"}]
    /\ log \in [Runs -> Seq(Kinds)]
    /\ status \in [Runs -> Statuses]
    /\ remoteInit \in [Runs -> BOOLEAN]
    /\ delivered \in [Runs -> SUBSET Nat]
    /\ cooling \in [Runs -> Seq(SUBSET Nat)]
    /\ pruning \subseteq Runs
    /\ lease \in Drainers \cup {NoDrainer}
    /\ pc \in [Drainers -> {"idle", "fetch", "group", "put", "post"}]
    /\ batch \in [Drainers -> [Runs -> SUBSET Nat]]
    /\ cur \in [Drainers -> Runs]
    /\ short \in [Drainers -> BOOLEAN]
    /\ call \in [Drainers -> {"none", "sent", "serving", "ok", "refused", "error"}]
    /\ late \subseteq LateRequest
    /\ srv \in [Runs -> Row]
    /\ tx \in [Runs -> Transaction]
    /\ faults \in Nat

\* An event the machine has ticked off was accepted by the server, whatever was
\* lost, retried or answered late (mark_delivered, client.py:179).
DeliveredWasAccepted == \A r \in Runs : delivered[r] \subseteq srv[r].accepted

\* A Run pruned without --include-unsynced is complete on the server, although
\* prune selects, asks and deletes in separate steps (history_prune).
PrunedWasUploaded ==
    \A r \in Runs : local[r] = "pruned" => 1..Len(log[r]) \subseteq srv[r].accepted

\* n is the newest event of S that carries a value of the given kind set.
Newest(S, r, kinds, n) ==
    /\ n \in S
    /\ log[r][n] \in kinds
    /\ \A m \in S : m > n => log[r][m] \notin kinds

\* "Ordered events are the sole source of projection state" (client.py:78-79,
\* api.py:756-758): attention is the one carried by the newest event about it.
AttentionFollowsEvents ==
    \A r \in Runs : \A n \in srv[r].accepted :
        Newest(srv[r].accepted, r, AttentionKinds, n)
            => srv[r].attention = AttentionAfter("NONE", log[r][n])

\* "Duplicates are accepted idempotently" (architecture.md:69): a batch whose
\* events the server has stored and not yet deleted by age (retention.py:78) is
\* not refused when a lost answer makes the client send it again.
DuplicatesAccepted ==
    \A d \in Drainers :
        pc[d] = "post" /\ call[d] = "refused"
            => ~(batch[d][cur[d]] \subseteq srv[cur[d]].stored)

\* "Terminal events ... remain in the local outbox until acknowledged" and
\* "events drain after recovery" (architecture.md:70, 77): the end of a Run
\* reaches the server once faults stop.
TerminalReachesServer ==
    \A r \in Runs : \A s \in TerminalStatuses :
        (local[r] = "present" /\ status[r] = s) ~> (srv[r].status = s)

\* An undelivered event the server can no longer take.
Overtaken(r) ==
    \E n \in 1..Len(log[r]) :
        n \notin delivered[r] /\ n \notin srv[r].stored /\ n <= srv[r].lastSeq

\* A Run none of whose pending events was overtaken by a younger one drains
\* completely once faults stop, even beside a Run that is stuck.
InOrderRunsDrain ==
    \A r \in Runs :
        []~Overtaken(r) =>
            [](local[r] = "present" => <>(\/ local[r] = "pruned"
                                          \/ 1..Len(log[r]) \subseteq delivered[r]))

\* The machine and the server together implement RunProjection: the server
\* takes only events newer than all it has accepted, shows the status of the
\* newest one, and never changes the status of an ended Run
\* (architecture.md:69-71), whatever is lost, resent, late or deleted by age.
Projection ==
    INSTANCE RunProjection WITH
        applied <- [r \in Runs |-> srv[r].accepted],
        shown   <- [r \in Runs |-> srv[r].status]

ImplementsProjection == Projection!Spec
==============================================================================
