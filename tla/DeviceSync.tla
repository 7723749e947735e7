----------------------------- MODULE DeviceSync -----------------------------
(***************************************************************************)
(* How the app keeps a copy of its Workspace.                              *)
(*                                                                         *)
(*   server  every transaction that changes what the app shows also bumps  *)
(*           the revision of the Workspace (sync.py); a sync answers "not  *)
(*           modified" or the whole bounded projection, older terminal     *)
(*           Runs come in pages (api.py).                                  *)
(*   app     RunBuoyStore: one refresh and one "load more" at a time, each *)
(*           suspended while it waits; the cache file; reset and restart.  *)
(*                                                                         *)
(* The server reads a consistent snapshot: it holds the row of the         *)
(* Workspace FOR SHARE, which every writer has to update.  A transaction   *)
(* and the code between two awaits are one step each.                      *)
(*                                                                         *)
(* Left out: messages (paged like Runs, never updated), the per-machine    *)
(* history filter, servers without /sync, ages and sorting, how the load   *)
(* state is shown.                                                         *)
(***************************************************************************)
EXTENDS Integers, FiniteSets

CONSTANTS
    Runs,          \* Runs of the first identity
    Machines,
    Window,        \* SYNC_SNAPSHOT_LIMIT: terminal Runs in a snapshot
    PageSize,      \* limit of /history/runs
    PageTries,     \* pages one "load more" asks for at most
    Identities,    \* bound: how often the app gets a new identity
    MaxRevision,   \* bound: changes on the server
    MaxFaults,     \* bound: lost answers, kills of the app, clearings
    Paging         \* whether the user loads older history

ASSUME RunsAreFinite == IsFiniteSet(Runs)
ASSUME SizesArePositive ==
    /\ Window \in Nat \ {0} /\ PageSize \in Nat \ {0} /\ PageTries \in Nat \ {0}
    /\ Identities \in Nat \ {0}
ASSUME BoundsAreNatural == MaxRevision \in Nat /\ MaxFaults \in Nat /\ Paging \in BOOLEAN

VARIABLES
    revision,   \* workspaces.revision
    run,        \* runs
    machines,   \* machines not revoked
    owner,      \* identity the Workspace belongs to
    identity,   \* DeviceIdentity of the app, 0: none
    born,       \* identities given so far
    resetting,  \* pendingLocalReset
    mem,        \* what RunBuoyStore holds and shows
    cache,      \* LocalCacheStore
    restore,    \* the contents that restoreCache has read and not yet shown
    up,         \* the app runs
    refresh,    \* refreshTask
    load,       \* loadMoreHistoryRuns
    faults

serverVars == <<revision, run, machines, owner>>
identityVars == <<identity, born, resetting>>
tasks == <<refresh, load>>
vars == <<serverVars, identityVars, mem, cache, restore, up, tasks, faults>>

\* seq: Run.last_seq; at: the time of its last event once it has ended, which is
\* the time of the machine; 0: active.
NoRun == [seq |-> 0, at |-> 0]
Retired == [seq |-> 0, at |-> -1]
Known(r, of) == of[r].seq > 0
Active(r, of) == Known(r, of) /\ of[r].at = 0
Finished(r, of) == of[r].at > 0

NoCursor == -1

\* more: the server has terminal Runs that finished before `older`; of: whose
\* data it is; crossed: a "load more" has overlapped a snapshot or a clearing
\* (both say what happened and are read by properties only).
Empty == [runs |-> [r \in Runs |-> NoRun], machines |-> {}, cursor |-> NoCursor,
          older |-> 0, more |-> FALSE, of |-> 0, crossed |-> FALSE]

NoFile == [runs |-> "no file"]
NoTask == [pc |-> "idle"]

Init ==
    /\ revision = 0 /\ run = [r \in Runs |-> NoRun] /\ machines = {} /\ owner = 0
    /\ identity = 0 /\ born = 0 /\ resetting = FALSE
    /\ mem = Empty /\ cache = NoFile /\ restore = NoFile /\ up = TRUE
    /\ refresh = NoTask /\ load = NoTask
    /\ faults = 0

----------------------------------------------------------------------------
(* The server.                                                             *)

\* Mutant of Bumped: unpairing does not move the revision.
BumpedBut(what) == IF what = "machine" THEN revision ELSE revision + 1

\* Mutant of Bumped: the handler and what it calls both move it.
BumpedTwice(what) == revision + 2

\* bump_workspace_revision in the transaction of the change.
Bumped(what) == revision + 1

\* Times at which a Run may have ended; two at the same time differ in their ID.
Times == (1 .. Cardinality(Runs)) \ {run[r].at : r \in Runs}

Change(what) ==
    /\ owner # 0 /\ revision < MaxRevision
    /\ revision' = Bumped(what)
    /\ UNCHANGED <<owner, identityVars, mem, cache, restore, up, tasks, faults>>

\* upsert_run and ingest_events: a Run starts, moves on, or ends; its events may
\* come long after they occurred, so that it is not the newest that has ended.
ChangeRun(r) ==
    /\ owner = 1 /\ ~Finished(r, run) /\ run[r] # Retired
    /\ \E at \in {0} \union (IF Known(r, run) THEN Times ELSE {}) :
         run' = [run EXCEPT ![r] = [seq |-> @.seq + 1, at |-> at]]
    /\ Change("run")
    /\ UNCHANGED machines

\* cleanup_retention deletes a terminal Run that is old and has no activity;
\* nobody sends events for it any more.
RetireRun(r) ==
    /\ Finished(r, run)
    /\ run' = [run EXCEPT ![r] = Retired]
    /\ Change("retention")
    /\ UNCHANGED machines

\* claim_pairing_session, _revoke_machine.
ChangeMachine(m) ==
    /\ machines' = IF m \in machines THEN machines \ {m} ELSE machines \union {m}
    /\ Change("machine")
    /\ UNCHANGED run

\* The first n of the Runs rs, newest first.
Newest(n, rs) == {r \in rs : Cardinality({q \in rs : run[q].at > run[r].at}) < n}

Oldest(rs) == CHOOSE at \in {run[r].at : r \in rs} : \A r \in rs : run[r].at >= at

FinishedBefore(at) == {r \in Runs : Finished(r, run) /\ (at = 0 \/ run[r].at < at)}

\* Items of an answer and the cursor that continues after them.
Items(shown, terminal, all) ==
    [runs |-> [r \in Runs |-> IF r \in shown THEN run[r] ELSE NoRun],
     more |-> terminal # all,
     older |-> IF terminal # all THEN Oldest(terminal) ELSE 0]

\* sync_snapshot for the cursor the app has sent.
SyncAnswer(cursor) ==
    IF cursor > revision THEN [kind |-> "conflict"]
    ELSE IF cursor = revision THEN [kind |-> "same"]
    ELSE LET all == FinishedBefore(0)
             window == Newest(Window, all)
         IN [kind |-> "snapshot", machines |-> machines, cursor |-> revision,
             page |-> Items(window \union {r \in Runs : Active(r, run)}, window, all)]

\* list_run_history.
HistoryAnswer(older) ==
    LET all == FinishedBefore(older)
        page == Newest(PageSize, all)
    IN Items(page, page, all)

----------------------------------------------------------------------------
(* The copy of the app.                                                    *)

Shown(copy) == {r \in Runs : Known(r, copy)}

\* mergeRuns: an answer does not replace a newer state of a Run.
Kept(r, current, incoming) ==
    IF current[r].seq > incoming[r].seq THEN current[r] ELSE incoming[r]

\* mergeRuns for an answer, and which Runs that are not in it stay.
Merged(current, incoming, staying) ==
    [r \in Runs |-> IF Known(r, incoming) THEN Kept(r, current, incoming)
                    ELSE IF r \in staying THEN current[r] ELSE NoRun]

\* Mutant of Applied: the position in the history is left as it was.
AppliedKeepsOlder(a) ==
    [mem EXCEPT !.runs = Merged(mem.runs, a.page.runs, {}), !.machines = a.machines,
                !.cursor = a.cursor, !.of = refresh.of, !.crossed = load # NoTask]

\* Mutant of Applied: the cursor is set beyond the snapshot (an off-by-one).
AppliedBeyond(a) ==
    [runs |-> Merged(mem.runs, a.page.runs, {}), machines |-> a.machines,
     cursor |-> a.cursor + 1, older |-> a.page.older, more |-> a.page.more,
     of |-> refresh.of, crossed |-> load # NoTask]

\* apply: a snapshot replaces everything else that is shown.
Applied(a) ==
    [runs |-> Merged(mem.runs, a.page.runs, {}), machines |-> a.machines,
     cursor |-> a.cursor, older |-> a.page.older, more |-> a.page.more,
     of |-> refresh.of, crossed |-> load # NoTask]

\* clearInMemoryState.
Cleared == [Empty EXCEPT !.crossed = load # NoTask]

\* refresh and performRefresh up to the request; a second call joins the task.
BeginRefresh ==
    /\ up /\ identity # 0 /\ refresh = NoTask
    /\ refresh' = [pc |-> "asked", cursor |-> mem.cursor, of |-> identity]
    /\ UNCHANGED <<serverVars, identityVars, mem, cache, restore, up, load, faults>>

\* The server answers while the credential is accepted.
AnswerRefresh ==
    /\ refresh.pc = "asked" /\ refresh.of = owner
    /\ refresh' = [pc |-> "answered", answer |-> SyncAnswer(refresh.cursor), of |-> owner]
    /\ UNCHANGED <<serverVars, identityVars, mem, cache, restore, up, load, faults>>

\* The rest of performRefresh; whether the identity is still there is not looked at.
EndRefresh ==
    /\ refresh.pc = "answered"
    /\ mem' = IF refresh.answer.kind = "snapshot" THEN Applied(refresh.answer) ELSE mem
    /\ cache' = IF refresh.answer.kind = "conflict" THEN cache ELSE mem'
    /\ refresh' = NoTask
    /\ UNCHANGED <<serverVars, identityVars, restore, up, load, faults>>

\* No answer, or 401: the app keeps what it has.
FailRefresh ==
    /\ refresh.pc # "idle"
    /\ \/ refresh.of # owner /\ UNCHANGED faults
       \/ faults < MaxFaults /\ faults' = faults + 1
    /\ refresh' = NoTask
    /\ UNCHANGED <<serverVars, identityVars, mem, cache, restore, up, load>>

\* loadMoreHistoryRuns, where canLoadMoreRuns.
BeginLoad ==
    /\ Paging /\ up /\ identity # 0 /\ load = NoTask /\ mem.more
    /\ load' = [pc |-> "asked", older |-> mem.older, left |-> PageTries,
                seen |-> Shown(mem.runs), of |-> identity]
    /\ UNCHANGED <<serverVars, identityVars, mem, cache, restore, up, refresh, faults>>

AnswerLoad ==
    /\ load.pc = "asked" /\ load.of = owner
    /\ load' = [pc |-> "answered", answer |-> HistoryAnswer(load.older), left |-> load.left - 1,
                seen |-> load.seen, of |-> owner]
    /\ UNCHANGED <<serverVars, identityVars, mem, cache, restore, up, refresh, faults>>

\* A page is merged: terminal Runs stay, active ones do not.  The task goes on
\* until it has shown something new.
EndPage ==
    /\ load.pc = "answered"
    /\ LET page == load.answer
           terminal == {r \in Runs : Finished(r, mem.runs)}
           merged == [mem EXCEPT !.runs = Merged(@, page.runs, terminal),
                                 !.of = IF load.of = identity THEN @ ELSE load.of]
           done == \/ ~(Shown(merged.runs) \subseteq load.seen)
                   \/ ~page.more \/ load.left = 0
       IN IF done
          THEN /\ mem' = [merged EXCEPT !.older = page.older, !.more = page.more]
               /\ cache' = mem'
               /\ load' = NoTask
          ELSE /\ mem' = merged
               /\ load' = [pc |-> "asked", older |-> page.older, left |-> load.left,
                           seen |-> load.seen, of |-> load.of]
               /\ UNCHANGED cache
    /\ UNCHANGED <<serverVars, identityVars, restore, up, refresh, faults>>

FailLoad ==
    /\ load.pc # "idle"
    /\ \/ load.of # owner /\ UNCHANGED faults
       \/ faults < MaxFaults /\ faults' = faults + 1
    /\ load' = NoTask
    /\ UNCHANGED <<serverVars, identityVars, mem, cache, restore, up, refresh>>

----------------------------------------------------------------------------
(* Identity, cache and restarts.                                           *)

\* bootstrapDevice: first finishes a reset that could not clear the cache.
Bootstrap ==
    /\ up /\ identity = 0 /\ born < Identities
    /\ born' = born + 1 /\ identity' = born + 1 /\ owner' = born + 1
    /\ revision' = 0 /\ run' = [r \in Runs |-> NoRun] /\ machines' = {}
    /\ IF resetting THEN mem' = Cleared /\ cache' = NoFile ELSE UNCHANGED <<mem, cache>>
    /\ resetting' = FALSE
    /\ UNCHANGED <<restore, up, tasks, faults>>

\* resetDevice, deleteWorkspace and clearLocalIdentityAndData; the cache file
\* may resist.
Reset ==
    /\ up /\ identity # 0 /\ born < Identities
    /\ identity' = 0 /\ owner' = 0
    /\ revision' = 0 /\ run' = [r \in Runs |-> NoRun] /\ machines' = {}
    /\ mem' = Cleared
    /\ \/ cache' = NoFile /\ UNCHANGED <<resetting, faults>>
       \/ resetting' = TRUE /\ faults < MaxFaults /\ faults' = faults + 1 /\ UNCHANGED cache
    /\ UNCHANGED <<born, restore, up, tasks>>

ClearCache ==
    /\ up /\ faults < MaxFaults /\ faults' = faults + 1
    /\ cache' = NoFile /\ mem' = Cleared
    /\ UNCHANGED <<serverVars, identityVars, restore, up, tasks>>

Kill ==
    /\ up /\ faults < MaxFaults /\ faults' = faults + 1
    /\ up' = FALSE /\ mem' = Empty /\ restore' = NoFile
    /\ refresh' = NoTask /\ load' = NoTask
    /\ UNCHANGED <<serverVars, identityVars, cache>>

\* restoreCache: reads the file when the app starts, shows it when it is read;
\* a refresh may run in between.
Launch ==
    /\ ~up /\ up' = TRUE /\ restore' = cache
    /\ UNCHANGED <<serverVars, identityVars, mem, cache, tasks, faults>>

RestoreCache ==
    /\ restore # NoFile
    /\ mem' = [restore EXCEPT !.crossed = @ \/ load # NoTask]
    /\ restore' = NoFile
    /\ UNCHANGED <<serverVars, identityVars, cache, up, tasks, faults>>

----------------------------------------------------------------------------
Next ==
    \/ \E r \in Runs : ChangeRun(r) \/ RetireRun(r)
    \/ \E m \in Machines : ChangeMachine(m)
    \/ BeginRefresh \/ AnswerRefresh \/ EndRefresh \/ FailRefresh
    \/ BeginLoad \/ AnswerLoad \/ EndPage \/ FailLoad
    \/ Bootstrap \/ Reset \/ ClearCache \/ Kill \/ Launch \/ RestoreCache

Spec == Init /\ [][Next]_vars

\* The app refreshes every 10 to 300 s while it runs, and is opened again.
Fairness ==
    /\ WF_vars(BeginRefresh) /\ WF_vars(AnswerRefresh) /\ WF_vars(EndRefresh)
    /\ WF_vars(refresh.pc # "idle" /\ refresh.of # owner /\ FailRefresh)
    /\ WF_vars(Launch) /\ WF_vars(RestoreCache)

FairSpec == Spec /\ Fairness

----------------------------------------------------------------------------
(* Properties.                                                             *)

Counts == [seq : Nat, at : Nat \union {-1}]

Copies == [runs : [Runs -> Counts], machines : SUBSET Machines, cursor : Nat \union {NoCursor},
           older : Nat, more : BOOLEAN, of : 0 .. Identities, crossed : BOOLEAN]

\* Every variable has the shape its comment gives it; the bounds are kept.
TypeOK ==
    /\ revision \in 0 .. MaxRevision /\ run \in [Runs -> Counts] /\ machines \subseteq Machines
    /\ owner \in 0 .. Identities /\ identity \in {0, owner} /\ born \in 0 .. Identities
    /\ resetting \in BOOLEAN /\ up \in BOOLEAN /\ faults \in 0 .. MaxFaults
    /\ mem \in Copies
    /\ cache = NoFile \/ cache \in Copies
    /\ restore = NoFile \/ restore \in Copies
    /\ refresh.pc \in {"idle", "asked", "answered"}
    /\ load.pc \in {"idle", "asked", "answered"}
    /\ load # NoTask => load.left \in 0 .. PageTries /\ load.of \in 1 .. born

UpToDate == up /\ identity # 0 /\ mem.of = identity /\ mem.cursor = revision

\* When the server would answer "not modified", the machines and the newest
\* terminal Runs that the app shows are those of the server (sync_snapshot and
\* every bump_workspace_revision), also after restarts.
CursorMeansCurrent ==
    UpToDate =>
        /\ mem.machines = machines
        /\ \A r \in Newest(Window, FinishedBefore(0)) : mem.runs[r] = run[r]

\* ... and the older Runs it does not show are those "load more" will ask for,
\* unless a load overlapped a snapshot.
HistoryHasNoGap ==
    UpToDate /\ ~mem.crossed =>
        \A r \in Runs : Finished(r, run) =>
            Known(r, mem.runs) \/ (mem.more /\ run[r].at < mem.older)

\* ... and every active Run is shown: "All clear" is only said without one.
AllClearIsTrue == UpToDate => \A r \in Runs : Active(r, run) => Known(r, mem.runs)

\* Once the server is quiet the app shows its state, unless an answer for an
\* identity that was removed came late and was kept.
Converges == <>[](identity = 0 \/ mem.of \notin {0, identity} \/ UpToDate)

=============================================================================
