-------------------------- MODULE LiveActivityPush --------------------------
(***************************************************************************)
(* How the state of Runs reaches the Live Activities of one device.        *)
(*                                                                         *)
(*   event handler  ingests one event of a Run and queues pushes           *)
(*                  (services.py: ingest_events, schedule_run_pushes);     *)
(*   push workers   take a queued row, send it to APNs and record the      *)
(*                  answer (outbox.py: process_one);                       *)
(*   phone          registers its tokens and reports its activities        *)
(*                  (api.py; the app and APNs are external).               *)
(*                                                                         *)
(* A handler is one transaction: it reads at Begin and writes at Commit,   *)
(* under READ COMMITTED.  A worker holds its row FOR UPDATE while it sends,*)
(* so a Commit that writes the row waits and then overwrites it.  The      *)
(* event handler holds its Run FOR UPDATE, so nobody else can insert a row *)
(* that refers to the Run meanwhile.  Races says which of these overlaps,  *)
(* and which faults, may happen.                                           *)
(*                                                                         *)
(* Left out: payloads (a row stands for the snapshot at its last write),   *)
(* priorities and delays (any pending row may be next), preferences other  *)
(* than LiveRuns, "stale" activities (treated as active), deletion of      *)
(* finished rows.                                                          *)
(***************************************************************************)
EXTENDS RunEvents, Integers, Sequences, FiniteSets, SequencesExt

CONSTANTS
    Runs,
    LiveRuns,      \* Runs whose policy is not disabled
    Workers,
    Activities,    \* activities the phone may create
    MaxPerDevice,  \* settings.live_activity_max_per_device
    MaxAttempts,   \* settings.outbox_max_attempts
    Races,         \* a subset of RaceKinds
    EventKinds,    \* kinds of events that arrive
    MaxRows,       \* bound: no progress event and no sync beyond so many rows
    MaxGen,        \* bound: generations of a token
    MaxCrashes     \* bound: workers that end between APNs' answer and commit

\* "sending": a handler runs while a worker sends; "registering": the event
\* handler and a call of the phone overlap; "early": a START is due before
\* run.started arrives (immediate policy, slow upload); "expiry": a push or a
\* placeholder outlives its time; "refusal": APNs refuses for a reason other
\* than the token; "deadlock": PostgreSQL aborts a worker, not a handler; "crash":
\* a worker dies; "quota": the Workspace may have used up its notifications of
\* the day.
RaceKinds == {"sending", "registering", "early", "expiry", "refusal",
              "deadlock", "crash", "quota"}

ASSUME RacesAreKnown == Races \subseteq RaceKinds
ASSUME EventKindsAreKnown == EventKinds \subseteq Kinds
ASSUME LiveRunsAreRuns == LiveRuns \subseteq Runs
ASSUME LimitsArePositive ==
    MaxPerDevice \in Nat \ {0} /\ MaxAttempts \in Nat \ {0}
ASSUME SetsAreFinite == IsFiniteSet(Runs) /\ IsFiniteSet(Activities)
ASSUME BoundsAreNatural == MaxRows \in Nat /\ MaxGen \in Nat /\ MaxCrashes \in Nat

VARIABLES
    status,       \* Run.execution_status
    fallback,     \* Runs with a terminal-fallback notification
    refused,      \* history: Runs whose notification the daily quota refused
    outbox,       \* push_outbox, in order of creation
    binding,      \* live_activity_bindings of real activities
    deviceToken,  \* generation of the push-to-start token, 0: none
    deviceGen,    \* push_to_start_token_generation
    ingest,       \* the open event transaction
    call,         \* the open transaction of a call of the phone
    worker,       \* what each worker is sending, with APNs' answer
    activity,     \* the activities on the phone
    phoneGen,     \* newest push-to-start token of the phone
    told,         \* generations of it that reached the server
    ended,        \* activities for which APNs accepted an END
    crashes

serverVars == <<status, fallback, refused, outbox, binding, deviceToken, deviceGen>>
phoneVars == <<activity, phoneGen, told>>
vars == <<serverVars, ingest, call, worker, phoneVars, ended, crashes>>

None == "none"

ASSUME NoneIsNoName == None \notin Runs \cup Activities

\* A row: place is the state of the "pending:<row id>" binding an accepted
\* START leaves, hits counts what APNs accepted of it.
NewRow(kind, r, a) ==
    [kind |-> kind, run |-> r, act |-> a, status |-> "pending",
     attempts |-> 0, place |-> None, hits |-> 0]

NoBinding == [state |-> None, token |-> 0, gen |-> 0, dead |-> FALSE]
NoActivity == [run |-> None, phase |-> "unborn", gen |-> 0, told |-> {}]

Idle == [row |-> 0, kind |-> None, answer |-> None]
NoIngest == [run |-> None, kind |-> None]
NoCall == [kind |-> None]

Init ==
    /\ status = [r \in Runs |-> "CREATED"]
    /\ fallback = {} /\ refused = {}
    /\ outbox = <<>>
    /\ binding = [a \in Activities |-> NoBinding]
    /\ phoneGen = 1
    /\ \/ deviceToken = 0 /\ deviceGen = 0 /\ told = {}
       \/ deviceToken = 1 /\ deviceGen = 1 /\ told = {1}
    /\ ingest = NoIngest /\ call = NoCall
    /\ worker = [w \in Workers |-> Idle]
    /\ activity = [a \in Activities |-> NoActivity]
    /\ ended = {} /\ crashes = 0

----------------------------------------------------------------------------
(* Rows and locks.                                                         *)

Terminal(s) == s \in TerminalStatuses

Pending(i) == outbox[i].status = "pending"

\* Mutant of PendingStarts: no START is ever found.
PendingStartsMissed(r) == {}

\* Pending rows with the key live-start:<run>:<device>.
PendingStarts(r) ==
    {i \in DOMAIN outbox : outbox[i].kind = "START" /\ outbox[i].run = r /\ Pending(i)}

\* Mutant of PendingLive: a START shares the key.
PendingLiveAny(r) == {i \in DOMAIN outbox : outbox[i].run = r /\ Pending(i)}

\* Rows with the key live:<run>:<device>.
PendingLive(r) ==
    {i \in DOMAIN outbox : outbox[i].kind # "START" /\ outbox[i].run = r /\ Pending(i)}

\* session.scalar of such a query: one of the rows, 0 if there is none.
OneOf(rows) == IF rows = {} THEN {0} ELSE rows

\* Rows a worker holds FOR UPDATE.
Held == {worker[w].row : w \in Workers} \ {0}

Sending == Held # {}

HandlerMayBegin ==
    /\ "sending" \in Races \/ ~Sending
    /\ "registering" \in Races \/ (ingest = NoIngest /\ call = NoCall)

\* Mutant of Coalesced: the row keeps its kind.
CoalescedAsIs(found, job) ==
    outbox \o SetToSeq({NewRow(job[r].kind, r, job[r].act) : r \in {r \in DOMAIN job : found[r] = 0}})

\* _coalesce_outbox for one push per Run of job, found being the pending row
\* read before.  The row found takes the new kind and payload, not the new
\* target, and whatever its status has become meanwhile.  A second activity of
\* a Run shares the row of the first.
Coalesced(found, job) ==
    [i \in DOMAIN outbox |->
        IF \E r \in DOMAIN job : found[r] = i
        THEN [outbox[i] EXCEPT !.kind = job[outbox[i].run].kind]
        ELSE outbox[i]]
    \o SetToSeq({NewRow(job[r].kind, r, job[r].act) : r \in {r \in DOMAIN job : found[r] = 0}})

\* The rows such a write has to lock.
Locks(found, rs) == {found[r] : r \in rs} \ {0}

----------------------------------------------------------------------------
(* Events of a Run.                                                        *)

StartKinds == {"starting", "started"}

\* A Worker records each status once.
IsNew(r, kind) == kind \in StatusKinds => EventStatus[kind] # status[r]

\* The event handler reads the Run, its pending STARTs and the pending row of
\* its activities.  Events of one batch are taken one transaction each.
BeginIngest(r, kind) ==
    /\ ingest = NoIngest
    /\ HandlerMayBegin
    /\ IsNew(r, kind) /\ Accepts(status[r], kind)
    /\ kind = "progress" => Len(outbox) < MaxRows
    /\ \E live \in OneOf(PendingLive(r)) :
          ingest' = [run |-> r, kind |-> kind, starts |-> PendingStarts(r), live |-> live]
    /\ UNCHANGED <<serverVars, call, worker, phoneVars, ended, crashes>>

\* starting or started: queue a START, or refresh the pending one.
CommitStart ==
    /\ ingest # NoIngest
    /\ ingest.kind \in StartKinds
    /\ LET r == ingest.run
           wanted == r \in LiveRuns /\ deviceToken # 0 IN
          /\ wanted => ingest.starts \cap Held = {}
          /\ status' = [status EXCEPT ![r] = StatusAfter(@, ingest.kind)]
          /\ outbox' = IF wanted /\ ingest.starts = {}
                       THEN Append(outbox, NewRow("START", r, None))
                       ELSE outbox
    /\ ingest' = NoIngest
    /\ UNCHANGED <<fallback, refused, binding, deviceToken, deviceGen, call, worker,
                   phoneVars, ended, crashes>>

\* Bindings an update or END of the Run goes to.
Deliverable(r) ==
    {a \in Activities : /\ activity[a].run = r
                        /\ binding[a].state = "active"
                        /\ ~binding[a].dead
                        /\ binding[a].token # 0}

\* Mutant of Withdrawn: pending STARTs stay.
WithdrawnNever(box, starts) == box

\* The pending STARTs of a Run that ended are cancelled.
Withdrawn(box, starts) ==
    [i \in DOMAIN box |->
        IF i \in starts THEN [box[i] EXCEPT !.status = "cancelled"] ELSE box[i]]

\* Mutants of StartWasSent: a START that is queued counts; none counts.
StartWasQueued(starts, r) ==
    \E i \in DOMAIN outbox : outbox[i].kind = "START" /\ outbox[i].run = r
StartWasNever(starts, r) == FALSE

\* sent_start_exists, after the cancellations are flushed.
StartWasSent(starts, r) ==
    \E i \in DOMAIN outbox \ starts :
        outbox[i].kind = "START" /\ outbox[i].run = r /\ outbox[i].status = "sent"

\* A notification instead of an activity: for a failure, and for a success
\* after more than 5 seconds.
NeedsFallback(r, s) ==
    IF StartWasSent(ingest.starts, r) THEN {FALSE}
    ELSE IF s \in {"FAILED", "LOST"} THEN {TRUE}
    ELSE IF s = "SUCCEEDED" THEN BOOLEAN ELSE {FALSE}

\* _create_fallback_notification: the quota of the day does not stop the event,
\* only the notification is rolled back.
Notify(r) ==
    \/ fallback' = fallback \cup {r} /\ UNCHANGED refused
    \/ "quota" \in Races /\ refused' = refused \cup {r} /\ UNCHANGED fallback

\* Every other event goes to the bindings that can be reached; the last one
\* withdraws pending STARTs, may leave a notification and ends activities.
CommitEvent ==
    /\ ingest # NoIngest
    /\ ingest.kind \notin StartKinds
    /\ LET r == ingest.run
           s == StatusAfter(status[r], ingest.kind)
           kind == IF Terminal(s) THEN "END" ELSE "UPDATE"
           live == [x \in {r} |-> ingest.live]
           to == Deliverable(r)
           held == ingest.starts \cup (IF to = {} THEN {} ELSE Locks(live, {r})) IN
          /\ held \cap Held = {}
          /\ status' = [status EXCEPT ![r] = s]
          /\ \E a \in IF to = {} THEN {None} ELSE to :
                LET job == IF to = {} THEN <<>> ELSE [x \in {r} |-> [kind |-> kind, act |-> a]]
                    box == Coalesced(live, job) IN
                outbox' = IF Terminal(s) THEN Withdrawn(box, ingest.starts) ELSE box
          /\ IF Terminal(s)
             THEN \E needed \in NeedsFallback(r, s) :
                     IF needed THEN Notify(r) ELSE UNCHANGED <<fallback, refused>>
             ELSE UNCHANGED <<fallback, refused>>
    /\ ingest' = NoIngest
    /\ UNCHANGED <<binding, deviceToken, deviceGen, call, worker, phoneVars, ended, crashes>>

----------------------------------------------------------------------------
(* Push workers.                                                           *)

\* Mutant of MayTake: the row is read without FOR UPDATE SKIP LOCKED.
MayTakeUnlocked(i) == Pending(i)

MayTake(i) == Pending(i) /\ i \notin Held

\* Any pending row may be next.  A START is due five seconds after
\* run.starting: normally that is after run.started.
Due(i) ==
    /\ MayTake(i)
    /\ outbox[i].kind = "START" =>
          "early" \in Races \/ status[outbox[i].run] \notin {"CREATED", "STARTING"}
    /\ \E w \in Workers : worker[w] = Idle
    /\ "sending" \in Races \/ (ingest = NoIngest /\ call = NoCall)

\* Activities the device shows, for all the server knows.
Placeholders == {i \in DOMAIN outbox : outbox[i].place = "active"}
LiveBindings == {a \in Activities : binding[a].state = "active" /\ ~binding[a].dead}
HasCapacity == Cardinality(Placeholders) + Cardinality(LiveBindings) < MaxPerDevice

\* Generation of the token a row would be sent to, 0 if there is none.
TokenFor(i) ==
    IF outbox[i].kind = "START" THEN deviceToken
    ELSE IF binding[outbox[i].act].dead THEN 0 ELSE binding[outbox[i].act].token

WorkerOnly == UNCHANGED <<status, fallback, refused, deviceToken, deviceGen, ingest, call, worker,
                          phoneVars, ended, crashes>>

\* The payload expired before it was sent.
Expire(i) ==
    /\ "expiry" \in Races
    /\ Due(i)
    /\ outbox' = [outbox EXCEPT ![i].status = "expired"]
    /\ binding' = IF outbox[i].kind = "END"
                  THEN [binding EXCEPT ![outbox[i].act].state = "expired"]
                  ELSE binding
    /\ WorkerOnly

\* The device is full.
Suppress(i) ==
    /\ Due(i)
    /\ outbox[i].kind = "START" /\ ~HasCapacity
    /\ outbox' = [outbox EXCEPT ![i].status = "suppressed"]
    /\ UNCHANGED binding
    /\ WorkerOnly

\* There is no token.
Unreachable(i) ==
    /\ Due(i)
    /\ outbox[i].kind = "START" => HasCapacity
    /\ TokenFor(i) = 0
    /\ outbox' = [outbox EXCEPT ![i].status = "cancelled"]
    /\ UNCHANGED binding
    /\ WorkerOnly

\* APNs knows the newest token of an activity that is shown, and of the phone.
TokenIsCurrent(i) ==
    IF outbox[i].kind = "START" THEN TokenFor(i) = phoneGen
    ELSE /\ activity[outbox[i].act].phase = "shown"
         /\ TokenFor(i) = activity[outbox[i].act].gen

Answers(i) ==
    IF TokenIsCurrent(i)
    THEN {"accepted", "retry"} \cup (IF "refusal" \in Races THEN {"refused"} ELSE {})
    ELSE {"invalid"}

\* provider.send returns; nothing is recorded yet.
Send(w, i) ==
    /\ worker[w] = Idle
    /\ Due(i)
    /\ outbox[i].kind = "START" => HasCapacity
    /\ TokenFor(i) # 0
    /\ \E answer \in Answers(i) :
          /\ worker' = [worker EXCEPT ![w] = [row |-> i, kind |-> outbox[i].kind,
                                              answer |-> answer]]
          /\ outbox' = IF answer = "accepted" THEN [outbox EXCEPT ![i].hits = @ + 1] ELSE outbox
          /\ ended' = IF answer = "accepted" /\ outbox[i].kind = "END"
                      THEN ended \cup {outbox[i].act} ELSE ended
    /\ UNCHANGED <<status, fallback, refused, binding, deviceToken, deviceGen, ingest, call,
                   phoneVars, crashes>>

MayRetry(attempts) == attempts < MaxAttempts

\* Mutant of Attempted: attempt_count is never raised.
AttemptedNever(n) == n

Attempted(n) == n + 1

RowAfter(row, kind, answer) ==
    [row EXCEPT
        !.attempts = Attempted(@),
        !.status = CASE answer = "accepted" -> "sent"
                     [] answer = "retry" /\ MayRetry(Attempted(row.attempts)) -> "pending"
                     [] OTHER -> "failed",
        !.place = IF answer = "accepted" /\ kind = "START" THEN "active" ELSE @]

ForgetsToken(answer) == answer = "invalid"

BindingAfter(b, kind, answer) ==
    CASE answer = "accepted" /\ kind = "END" -> [b EXCEPT !.state = "ended"]
      [] ForgetsToken(answer) -> [b EXCEPT !.state = "invalidated", !.dead = TRUE, !.token = 0]
      [] OTHER -> b

\* The binding of an accepted START refers to the Run: while the event handler
\* holds the Run, the insert waits.
NeedsRun(w) == worker[w].kind = "START" /\ worker[w].answer = "accepted"

RunIsFree(r) == ingest.run # r

\* The answer is recorded, by the kind the worker read and by the row's target.
Settle(w) ==
    /\ worker[w] # Idle
    /\ NeedsRun(w) => RunIsFree(outbox[worker[w].row].run)
    /\ LET done == worker[w]
           row == outbox[done.row] IN
          /\ outbox' = [outbox EXCEPT ![done.row] = RowAfter(row, done.kind, done.answer)]
          /\ binding' = IF done.kind = "START" THEN binding
                        ELSE [binding EXCEPT ![row.act] = BindingAfter(@, done.kind, done.answer)]
          /\ deviceToken' = IF done.kind = "START" /\ ForgetsToken(done.answer)
                            THEN 0 ELSE deviceToken
    /\ worker' = [worker EXCEPT ![w] = Idle]
    /\ UNCHANGED <<status, fallback, refused, deviceGen, ingest, call, phoneVars, ended, crashes>>

\* A worker ends before it commits: its row is pending again.
WorkerEnds(w) ==
    /\ crashes < MaxCrashes
    /\ worker' = [worker EXCEPT ![w] = Idle]
    /\ crashes' = crashes + 1

\* The handler waits for the row of a worker that waits for the handler's Run:
\* PostgreSQL aborts one of them.  The machine sends the event again; a worker
\* ends, though APNs has its push.
Deadlock(w) ==
    /\ NeedsRun(w)
    /\ ingest # NoIngest
    /\ worker[w].row \in ingest.starts
    /\ \/ ingest' = NoIngest /\ UNCHANGED <<worker, crashes>>
       \/ "deadlock" \in Races /\ WorkerEnds(w) /\ UNCHANGED ingest
    /\ UNCHANGED <<serverVars, call, phoneVars, ended>>

\* The worker dies after APNs answered.
Crash(w) ==
    /\ "crash" \in Races
    /\ worker[w] # Idle
    /\ WorkerEnds(w)
    /\ UNCHANGED <<serverVars, ingest, call, phoneVars, ended>>

\* cleanup_retention: a START whose activity never reported.
ExpirePlaceholder(i) ==
    /\ "expiry" \in Races
    /\ i \in Placeholders
    /\ outbox' = [outbox EXCEPT ![i].place = "expired"]
    /\ UNCHANGED <<status, fallback, refused, binding, deviceToken, deviceGen, ingest, call, worker,
                   phoneVars, ended, crashes>>

----------------------------------------------------------------------------
(* Calls of the phone.                                                     *)

\* PUT push-to-start-token, one short transaction: an older generation is refused.
RegisterDevice(g) ==
    /\ "sending" \in Races \/ ~Sending
    /\ g \in (1..phoneGen) \ told
    /\ told' = told \cup {g}
    /\ IF g < deviceGen THEN UNCHANGED <<deviceToken, deviceGen>>
       ELSE deviceToken' = g /\ deviceGen' = g
    /\ UNCHANGED <<status, fallback, refused, outbox, binding, ingest, call, worker,
                   activity, phoneGen, ended, crashes>>

\* The statuses and the pending rows a call reads; each is used if it has to be.
Reads(kind, report) ==
    \E live \in [Runs -> 0..Len(outbox)] :
        /\ \A r \in Runs : live[r] \in OneOf(PendingLive(r))
        /\ call' = [kind |-> kind, report |-> report, status |-> status, live |-> live]

\* PUT live-activities/{id}/update-token.
BeginRegister(a, g) ==
    /\ call = NoCall
    /\ HandlerMayBegin
    /\ activity[a].phase = "shown"
    /\ g \in (1..activity[a].gen) \ activity[a].told
    /\ Reads("register", [x \in {a} |-> [phase |-> "shown", gen |-> g]])
    /\ UNCHANGED <<serverVars, ingest, worker, phoneVars, ended, crashes>>

\* POST activity-sync: every activity shown, and some that are over.
BeginSync ==
    /\ call = NoCall
    /\ HandlerMayBegin
    /\ Len(outbox) < MaxRows
    /\ \E over \in SUBSET {a \in Activities : activity[a].phase = "over"} :
          LET all == {a \in Activities : activity[a].phase = "shown"} \cup over IN
          Reads("sync", [a \in all |-> [phase |-> activity[a].phase, gen |-> activity[a].gen]])
    /\ UNCHANGED <<serverVars, ingest, worker, phoneVars, ended, crashes>>

\* Placeholders a first report of an activity replaces: one per Run.
Replaced(new) ==
    {i \in Placeholders : \E a \in new : activity[a].run = outbox[i].run}

\* The rows with one placeholder of each Run of new replaced.
WithReplaced(box, new) ==
    LET one == {Min({i \in Replaced(new) : outbox[i].run = r}) :
                   r \in {outbox[i].run : i \in Replaced(new)}} IN
    [i \in DOMAIN box |-> IF i \in one THEN [box[i] EXCEPT !.place = "replaced"] ELSE box[i]]

\* register_activity_update_token on one binding.
Registered(b, g) ==
    IF g >= b.gen THEN [state |-> "active", token |-> g, gen |-> g, dead |-> FALSE] ELSE b

\* sync_activities on one reported binding: invalidated_at stays.
Synced(b, item) ==
    LET new == item.gen # 0 /\ item.gen >= b.gen IN
    [state |-> IF item.phase = "shown" THEN "active" ELSE "ended",
     token |-> IF new THEN item.gen ELSE b.token,
     gen |-> IF new THEN item.gen ELSE b.gen,
     dead |-> b.dead]

BindingFrom(c, a) ==
    LET b == binding[a] IN
    CASE a \notin DOMAIN c.report /\ c.kind = "register" -> b
      [] a \notin DOMAIN c.report /\ c.kind = "sync" ->
            IF b.state = "active" THEN [b EXCEPT !.state = "ended"] ELSE b
      [] a \in DOMAIN c.report /\ c.kind = "register" -> Registered(b, c.report[a].gen)
      [] OTHER -> Synced(b, c.report[a])

\* Mutant of QueuedFor: an activity that is late for the end is not ended.
QueuedForRunning(c, a) ==
    /\ c.report[a].phase = "shown"
    /\ BindingFrom(c, a).token # 0
    /\ c.kind = "register" => c.report[a].gen >= binding[a].gen
    /\ ~Terminal(c.status[activity[a].run])

\* Reported activities for which the call may queue a push: always an END,
\* an UPDATE if the phone is behind.
QueuedFor(c, a) ==
    /\ c.report[a].phase = "shown"
    /\ BindingFrom(c, a).token # 0
    /\ c.kind = "register" => c.report[a].gen >= binding[a].gen

\* The call writes and answers: one push per Run it queues for.
CommitCall ==
    /\ call # NoCall
    /\ LET queued == {a \in DOMAIN call.report : QueuedFor(call, a)}
           runs == {activity[a].run : a \in queued}
           over == {r \in runs : Terminal(call.status[r])} IN
       \E some \in SUBSET runs : \E to \in [some -> queued] :
          /\ over \subseteq some
          /\ \A r \in some : activity[to[r]].run = r
          /\ Locks(call.live, some) \cap Held = {}
          /\ \A r \in some : call.live[r] = 0 => RunIsFree(r)
          /\ LET job == [r \in some |-> [kind |-> IF r \in over THEN "END" ELSE "UPDATE",
                                         act |-> to[r]]]
                 new == {a \in DOMAIN call.report : binding[a].state = None} IN
             /\ \A a \in new : RunIsFree(activity[a].run)
             /\ outbox' = WithReplaced(Coalesced(call.live, job), new)
    /\ binding' = [a \in Activities |-> BindingFrom(call, a)]
    /\ activity' = [a \in Activities |->
                       IF call.kind = "register" /\ a \in DOMAIN call.report
                       THEN [activity[a] EXCEPT !.told = @ \cup {call.report[a].gen}]
                       ELSE activity[a]]
    /\ call' = NoCall
    /\ UNCHANGED <<status, fallback, refused, deviceToken, deviceGen, ingest, worker,
                   phoneGen, told, ended, crashes>>

----------------------------------------------------------------------------
(* The phone.                                                              *)

Shown(a) == activity[a].phase = "shown"

\* What APNs accepted of a row: the first, the second time, ...
Hits(i) == {i} \X (1..outbox[i].hits)

StartRows(r) == {i \in DOMAIN outbox : outbox[i].kind = "START" /\ outbox[i].run = r}

\* An accepted START makes one activity, or none if it is lost.
Starts(r) == Cardinality(UNION {Hits(i) : i \in StartRows(r)})

PhoneOnly == UNCHANGED <<serverVars, ingest, call, worker, ended, crashes>>

Appear(a, r) ==
    /\ activity[a].phase = "unborn"
    /\ Cardinality({b \in Activities : activity[b].run = r}) < Starts(r)
    /\ activity' = [activity EXCEPT ![a].run = r, ![a].phase = "shown"]
    /\ UNCHANGED <<phoneGen, told>>
    /\ PhoneOnly

\* The activity gets a push token, or another one.
NewToken(a) ==
    /\ Shown(a)
    /\ activity[a].gen < MaxGen
    /\ activity' = [activity EXCEPT ![a].gen = @ + 1]
    /\ UNCHANGED <<phoneGen, told>>
    /\ PhoneOnly

\* It is ended by a push, by the app or by the user.
Disappear(a) ==
    /\ Shown(a)
    /\ activity' = [activity EXCEPT ![a].phase = "over"]
    /\ UNCHANGED <<phoneGen, told>>
    /\ PhoneOnly

NewDeviceToken ==
    /\ phoneGen < MaxGen
    /\ phoneGen' = phoneGen + 1
    /\ UNCHANGED <<activity, told>>
    /\ PhoneOnly

----------------------------------------------------------------------------
Ingest == \E r \in Runs, kind \in EventKinds : BeginIngest(r, kind)

Dispatch ==
    \E i \in DOMAIN outbox :
        Expire(i) \/ Suppress(i) \/ Unreachable(i) \/ \E w \in Workers : Send(w, i)

Register == \E a \in Activities, g \in 1..MaxGen : BeginRegister(a, g)

Phone ==
    \/ \E a \in Activities : (\E r \in Runs : Appear(a, r)) \/ NewToken(a) \/ Disappear(a)
    \/ NewDeviceToken

Next ==
    \/ Ingest \/ CommitStart \/ CommitEvent
    \/ Dispatch
    \/ \E w \in Workers : Settle(w) \/ Deadlock(w) \/ Crash(w)
    \/ \E i \in DOMAIN outbox : ExpirePlaceholder(i)
    \/ \E g \in 1..MaxGen : RegisterDevice(g)
    \/ Register \/ BeginSync \/ CommitCall
    \/ Phone

Spec == Init /\ [][Next]_vars

\* Handlers and workers finish what they began, the worker loop takes what is
\* due, the app retries a registration until it is answered, ActivityKit issues
\* a token and applies an END.  Strong fairness where the model keeps handlers
\* and workers apart.
Fairness ==
    /\ WF_vars(CommitStart \/ CommitEvent)
    /\ WF_vars(CommitCall)
    /\ WF_vars(\E w \in Workers : Settle(w))
    /\ SF_vars(Dispatch)
    /\ SF_vars(Register)
    /\ \A a \in Activities : WF_vars(activity[a].gen = 0 /\ NewToken(a))
    /\ \A a \in Activities : WF_vars(a \in ended /\ Disappear(a))

FairSpec == Spec /\ Fairness

----------------------------------------------------------------------------
(* Properties.                                                             *)

RowStatuses == {"pending", "sent", "cancelled", "suppressed", "failed", "expired"}

Row == [kind : {"START", "UPDATE", "END"}, run : Runs, act : Activities \cup {None},
        status : RowStatuses, attempts : Nat, hits : Nat,
        place : {None, "active", "replaced", "expired"}]

BindingRow == [state : {None, "active", "ended", "invalidated", "expired"},
               token : Nat, gen : Nat, dead : BOOLEAN]

OnPhone == [run : Runs \cup {None}, phase : {"unborn", "shown", "over"},
            gen : Nat, told : SUBSET Nat]

\* Every variable has the shape its comment gives it, and only an update or an
\* END has a binding for its target.
TypeOK ==
    /\ status \in [Runs -> Statuses]
    /\ fallback \subseteq Runs /\ refused \subseteq Runs
    /\ outbox \in Seq(Row)
    /\ \A i \in DOMAIN outbox : outbox[i].kind = "START" <=> outbox[i].act = None
    /\ binding \in [Activities -> BindingRow]
    /\ deviceToken \in Nat /\ deviceGen \in Nat
    /\ ingest = NoIngest \/ (ingest.run \in Runs /\ ingest.kind \in Kinds)
    /\ call = NoCall \/ (call.kind \in {"register", "sync"} /\ DOMAIN call.report \subseteq Activities)
    /\ \A w \in Workers : worker[w] = Idle \/ worker[w].row \in DOMAIN outbox
    /\ activity \in [Activities -> OnPhone]
    /\ phoneGen \in Nat /\ told \subseteq Nat
    /\ ended \subseteq Activities
    /\ crashes \in Nat

\* APNs accepts a row once, and once more for each worker that ended before it
\* had recorded the answer: two workers never send the same row, and a row is
\* not sent again after its answer was recorded.
Repeats == UNION {Hits(i) \ {<<i, outbox[i].hits>>} : i \in DOMAIN outbox}

SentOnce == Cardinality(Repeats) <= crashes

\* A Run gets one activity, though run.starting and run.started both ask for it.
OneStart == \A r \in Runs : Starts(r) <= 1

\* A failed Run is silent only if the daily quota refused its notification: if
\* no START was accepted for it, a notification stands in (server.md, "Automatic"),
\* which the quota may roll back without stopping the event (services.py:343-363,
\* test_notification_quota_does_not_block_terminal_projection).
NeverSilent ==
    \A r \in Runs :
        status[r] \in {"FAILED", "LOST"} => Starts(r) > 0 \/ r \in fallback \cup refused

\* The notification stands in for an activity and does not come beside it
\* (server.md, "Automatic": only without a START that was sent).
NotBoth == \A r \in fallback : Starts(r) = 0

\* No START is sent once the end of its Run is recorded.
NoLateStart ==
    [][\A i \in DOMAIN outbox :
          outbox[i].kind = "START" /\ outbox'[i].hits > outbox[i].hits
          => ~Terminal(status[outbox[i].run])]_vars

\* An activity the server can reach is told that its Run ended: the END is
\* queued, was accepted, or was given up by APNs or by its time limit
\* (server.md: the end goes through LIVE_END once the start is sent and a
\* token is there; a token that comes late is followed by an end).
EndNotLost ==
    \A a \in Activities :
        /\ Shown(a) /\ Terminal(status[activity[a].run])
        /\ binding[a].state = "active" /\ ~binding[a].dead /\ binding[a].token # 0
        => \/ a \in ended
           \/ \E i \in DOMAIN outbox :
                 /\ outbox[i].kind = "END" /\ outbox[i].act = a
                 /\ outbox[i].status \in {"pending", "failed", "expired"}

Waiting(i) == i \in DOMAIN outbox /\ Pending(i)

Starting(i) == outbox[i].kind = "START" /\ status[outbox[i].run] = "STARTING"

\* Every queued push is decided, however often APNs is unavailable (process_batch,
\* outbox.py).  A START is due once its Run has started, see "early".  Beyond
\* MaxRows a Run gets two rows at most: an UPDATE and an END.
OutboxDrains == \A i \in 1..(MaxRows + 2) : (Waiting(i) /\ ~Starting(i)) ~> ~Waiting(i)

\* The activity of a Run that ended goes away, unless APNs refused the END or
\* the END expired.
EndArrives ==
    \A a \in Activities :
        (Shown(a) /\ Terminal(status[activity[a].run]))
        ~> (~Shown(a) \/ \E i \in DOMAIN outbox :
               /\ outbox[i].kind = "END" /\ outbox[i].act = a
               /\ outbox[i].status \in {"failed", "expired"})
==============================================================================
