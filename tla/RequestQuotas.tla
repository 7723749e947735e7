--------------------------- MODULE RequestQuotas ----------------------------
(***************************************************************************)
(* How concurrent requests are kept within the limits of a machine and its *)
(* Workspace: the number of active Runs, counted under a lock row (api.py: *)
(* upsert_run, webhook_run_upsert; abuse.py: acquire_quota_lock), and the  *)
(* notifications of a day, counted by a bucket (services.py:               *)
(* create_notification; abuse.py: enforce_notification_daily_quota).       *)
(*                                                                         *)
(* A caller is one open transaction of the server, on behalf of a CLI or   *)
(* of a webhook.  A row it has written or locked is held until it ends,    *)
(* the rows of others are seen as committed.  The clean-up of abuse.py     *)
(* deletes lock rows nobody has used for long; like any DELETE it waits    *)
(* for a held row and then looks at it again.  Any transaction may be      *)
(* rolled back: a lost connection, or PostgreSQL ends a wait cycle, for    *)
(* which there is one between a notification for a Run and the terminal    *)
(* event of the same Run.                                                  *)
(*                                                                         *)
(* Left out: rate limits (a bucket per caller, committed on its own), the  *)
(* other users of the lock (machines, webhooks, pairing sessions, the same *)
(* way), what is written in a Run, the end of the day.                     *)
(***************************************************************************)
EXTENDS Naturals, FiniteSets

CONSTANTS
    Callers,
    Runs,
    Keys,        \* idempotency keys of notifications
    MaxActive,   \* settings.max_active_runs_per_machine
    MaxPerDay,   \* settings.max_notifications_per_workspace_day
    None

ASSUME LimitsArePositive == MaxActive \in Nat \ {0} /\ MaxPerDay \in Nat \ {0}
ASSUME NoneIsNothing == None \notin Runs \union Keys \union Callers
ASSUME RunsAreFinite == IsFiniteSet(Runs)

VARIABLES
    run,      \* "none", "active" or "terminal"
    lockRow,  \* the quota_locks row: "none", "fresh" or "stale"
    bucket,   \* request_count of the bucket of the day
    notes,    \* keys of the notifications of the day; the automatic one of a
              \* Run has the Run as its key
    req       \* the open transactions

vars == <<run, lockRow, bucket, notes, req>>

NoRequest == [op |-> "none", at |-> "idle", run |-> None, key |-> None, terminal |-> FALSE]

Init ==
    /\ run = [r \in Runs |-> "none"]
    /\ lockRow = "none" /\ bucket = 0 /\ notes = {}
    /\ req = [c \in Callers |-> NoRequest]

Start(c, new) == req[c] = NoRequest /\ req' = [req EXCEPT ![c] = new]
Step(c, at) == req' = [req EXCEPT ![c].at = at]
End(c) == req' = [req EXCEPT ![c] = NoRequest]

----------------------------------------------------------------------------
(* Rows that are held.                                                     *)

LockHolders == {c \in Callers : req[c].at \in {"holding", "counted"}}
BucketHolders == {c \in Callers : req[c].at = "charged"}
RunHeld(r) == \E c \in Callers : req[c].op = "finish" /\ req[c].run = r

\* Any transaction may be rolled back.  A lock row it has inserted goes with it,
\* and who waits for it inserts it again: the row is left in place here.
Rollback(c) ==
    /\ req[c] # NoRequest /\ End(c)
    /\ UNCHANGED <<run, lockRow, bucket, notes>>

----------------------------------------------------------------------------
(* upsert_run and webhook_run_upsert.                                      *)

\* The Run is looked for first; for one that exists nothing here changes.
BeginUpsert(c, r, terminal) ==
    /\ run[r] = "none"
    /\ Start(c, [NoRequest EXCEPT !.op = "upsert", !.at = "begun", !.run = r,
                                  !.terminal = terminal])
    /\ UNCHANGED <<run, lockRow, bucket, notes>>

\* acquire_quota_lock: INSERT .. ON CONFLICT DO NOTHING ...
InsertLock(c) ==
    /\ req[c].at = "begun" /\ req[c].op = "upsert"
    /\ IF lockRow = "none"
       THEN lockRow' = "fresh" /\ Step(c, "holding")
       ELSE UNCHANGED lockRow /\ Step(c, "locking")
    /\ UNCHANGED <<run, bucket, notes>>

\* Mutant of LockFree: the row is read without FOR UPDATE.
LockFreeAlways == TRUE

LockFree == LockHolders = {}

\* ... and SELECT .. FOR UPDATE, which waits; a row that was cleaned up meanwhile is an error.
SelectLock(c) ==
    /\ req[c].at = "locking"
    /\ IF lockRow = "none" THEN UNCHANGED lockRow /\ End(c)
       ELSE LockFree /\ lockRow' = "fresh" /\ Step(c, "holding")
    /\ UNCHANGED <<run, bucket, notes>>

Active == {r \in Runs : run[r] = "active"}

\* Mutant of Admitted: the limit is passed by one.
AdmittedOneMore(r, terminal) == run[r] = "none" /\ (terminal \/ Cardinality(Active) <= MaxActive)

\* The Run is looked for again under the lock, then the active ones are counted;
\* a webhook may create a Run that is terminal already.
Admitted(r, terminal) == run[r] = "none" /\ (terminal \/ Cardinality(Active) < MaxActive)

Count(c) ==
    /\ req[c].at = "holding"
    /\ IF Admitted(req[c].run, req[c].terminal) THEN Step(c, "counted") ELSE End(c)
    /\ UNCHANGED <<run, lockRow, bucket, notes>>

CreateRun(c) ==
    /\ req[c].at = "counted"
    /\ run' = [run EXCEPT ![req[c].run] = IF req[c].terminal THEN "terminal" ELSE "active"]
    /\ End(c)
    /\ UNCHANGED <<lockRow, bucket, notes>>

\* cleanup_abuse_state: time passes, then the lock row is deleted.
AgeLock ==
    /\ lockRow = "fresh" /\ LockHolders = {} /\ lockRow' = "stale"
    /\ UNCHANGED <<run, bucket, notes, req>>

\* Mutant of Deletable: the row is not looked at again after the wait.
DeletableUnseen == lockRow # "none"

Deletable == lockRow = "stale" /\ LockHolders = {}

CleanLock ==
    /\ Deletable /\ lockRow' = "none"
    /\ UNCHANGED <<run, bucket, notes, req>>

----------------------------------------------------------------------------
(* Notifications.                                                          *)

\* post_notification and webhook_notification: an existing one is the answer;
\* r is the Run it names, or None.
BeginNotify(c, k, r) ==
    /\ r # None => run[r] # "none"
    /\ k \notin notes
    /\ Start(c, [NoRequest EXCEPT !.op = "notify", !.at = "begun", !.key = k, !.run = r])
    /\ UNCHANGED <<run, lockRow, bucket, notes>>

\* ingest_events with the terminal event of a Run it holds; it asks for the
\* automatic notification inside a savepoint.
BeginFinish(c, r) ==
    /\ run[r] = "active" /\ ~RunHeld(r)
    /\ Start(c, [NoRequest EXCEPT !.op = "finish", !.at = "begun", !.key = r, !.run = r])
    /\ UNCHANGED <<run, lockRow, bucket, notes>>

\* Mutant of Charged: the bucket is committed before the notification.
ChargedAtOnce(n) == bucket' = n

\* _increment_bucket: the new count is part of the transaction.
Charged(n) == UNCHANGED bucket

\* enforce_notification_daily_quota: waits for the row of the bucket.
Charge(c) ==
    /\ req[c].at = "begun" /\ req[c].op \in {"notify", "finish"}
    /\ BucketHolders = {} /\ bucket < MaxPerDay
    /\ Charged(bucket + 1) /\ Step(c, "charged")
    /\ UNCHANGED <<run, lockRow, notes>>

\* Over the limit a request ends with 429, a terminal event goes on without
\* its notification; one without a notification does not ask.
RefuseNotify(c) ==
    /\ req[c].at = "begun" /\ req[c].op = "notify"
    /\ BucketHolders = {} /\ bucket >= MaxPerDay
    /\ End(c)
    /\ UNCHANGED <<run, lockRow, bucket, notes>>

FinishWithout(c) ==
    /\ req[c].at = "begun" /\ req[c].op = "finish"
    /\ run' = [run EXCEPT ![req[c].run] = "terminal"]
    /\ End(c)
    /\ UNCHANGED <<lockRow, bucket, notes>>

\* Mutant of Unique: the constraint on the key is missing, and a repetition is
\* merged with the notification that is there.
UniqueMissing(k) == TRUE

\* uq_notifications_workspace_dedupe.
Unique(k) == k \notin notes

\* The notification is inserted and everything is committed.  The foreign key
\* waits while another transaction holds the Run.
Insert(c) ==
    /\ req[c].at = "charged"
    /\ req[c].op = "notify" /\ req[c].run # None => ~RunHeld(req[c].run)
    /\ IF Unique(req[c].key)
       THEN /\ notes' = notes \union {req[c].key}
            /\ bucket' = bucket + 1
            /\ run' = IF req[c].op = "finish" THEN [run EXCEPT ![req[c].run] = "terminal"] ELSE run
       ELSE UNCHANGED <<notes, bucket, run>>
    /\ End(c)
    /\ UNCHANGED lockRow

----------------------------------------------------------------------------
Next ==
    \/ \E c \in Callers :
        \/ Rollback(c)
        \/ \E r \in Runs : \E terminal \in BOOLEAN : BeginUpsert(c, r, terminal)
        \/ InsertLock(c) \/ SelectLock(c) \/ Count(c) \/ CreateRun(c)
        \/ \E k \in Keys, r \in Runs \union {None} : BeginNotify(c, k, r)
        \/ \E r \in Runs : BeginFinish(c, r)
        \/ Charge(c) \/ RefuseNotify(c) \/ FinishWithout(c) \/ Insert(c)
    \/ AgeLock \/ CleanLock

Spec == Init /\ [][Next]_vars

----------------------------------------------------------------------------
(* Properties.                                                             *)

\* Every variable has the shape its comment gives it; the bounds are kept.
TypeOK ==
    /\ run \in [Runs -> {"none", "active", "terminal"}]
    /\ lockRow \in {"none", "fresh", "stale"}
    /\ bucket \in 0 .. MaxPerDay
    /\ notes \subseteq Keys \union Runs
    /\ req \in [Callers -> [op : {"none", "upsert", "notify", "finish"},
                            at : {"idle", "begun", "locking", "holding", "counted", "charged"},
                            run : Runs \union {None}, key : Keys \union Runs \union {None},
                            terminal : BOOLEAN]]

\* However many registrations of CLIs and webhooks overlap, and although the
\* lock row is deleted and made again, a machine never has more active Runs
\* than its limit (acquire_quota_lock, upsert_run, webhook_run_upsert).
ActiveBounded == Cardinality(Active) <= MaxActive

\* A registration that was admitted is for a Run that does not exist: two of
\* them for one Run never meet the primary key (the second look of upsert_run).
AdmittedIsNew == \A c \in Callers : req[c].at = "counted" => run[req[c].run] = "none"

\* The bucket counts the notifications there are: neither a repetition with
\* the same key, nor a rollback, nor a Run that ends without one is charged.
BucketCountsNotes == bucket = Cardinality(notes)

=============================================================================
