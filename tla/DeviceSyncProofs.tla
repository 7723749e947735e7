-------------------------- MODULE DeviceSyncProofs --------------------------
(***************************************************************************)
(* Type correctness of DeviceSync, and what the cursor and the position in *)
(* the history mean, for every set of Runs and machines, every size of     *)
(* window and page and every bound.                                        *)
(***************************************************************************)
EXTENDS DeviceSync, FiniteSetTheorems, TLAPS

\* The actions of Next, as one flat disjunction.
LEMMA Actions ==
    ASSUME Next
    PROVE  \/ \E r \in Runs : ChangeRun(r)
           \/ \E r \in Runs : RetireRun(r)
           \/ \E m \in Machines : ChangeMachine(m)
           \/ BeginRefresh \/ AnswerRefresh \/ EndRefresh \/ FailRefresh
           \/ BeginLoad \/ AnswerLoad \/ EndPage \/ FailLoad
           \/ Bootstrap \/ Reset \/ ClearCache \/ Kill \/ Launch \/ RestoreCache
  BY DEF Next

----------------------------------------------------------------------------
(* The newest of a set of Runs.                                            *)

\* A Run of at least the age of one that is left out is left out as well: the
\* Runs left out ended before those shown.
LEMMA NewestFirst ==
    ASSUME run \in [Runs -> Counts], NEW n \in Nat, NEW rs \in SUBSET Runs,
           NEW q \in Newest(n, rs), NEW r \in rs \ Newest(n, rs)
    PROVE  run[r].at < run[q].at
<1>. DEFINE after(x) == {p \in rs : run[p].at > run[x].at}
<1>1. \A x \in Runs : run[x].at \in Int
  BY DEF Counts
<1>2. SUFFICES ASSUME run[q].at <= run[r].at PROVE FALSE
  BY <1>1 DEF Newest
<1>3. q \in rs /\ Cardinality(after(q)) < n /\ ~(Cardinality(after(r)) < n)
  BY DEF Newest
<1>4. after(r) \subseteq after(q)
  BY <1>1, <1>2, <1>3
<1>5. IsFiniteSet(after(q))
  BY RunsAreFinite, FS_Subset
<1>6. /\ Cardinality(after(r)) <= Cardinality(after(q))
      /\ Cardinality(after(q)) \in Nat /\ Cardinality(after(r)) \in Nat
  BY <1>4, <1>5, FS_Subset, FS_CardinalityType
<1>. QED
  BY <1>3, <1>6

\* A set of numbers that is not empty has a least one.
LEMMA LeastOf ==
    ASSUME NEW T \in SUBSET Nat, T # {}
    PROVE  \E x \in T : \A t \in T : x <= t
<1>. DEFINE R == OpToRel(<, Nat)
<1>1. IsWellFoundedOn(R, Nat)
  BY NatLessThanWellFounded
<1>2. PICK x \in T : \A y \in T : ~ (<<y, x>> \in R)
  <2>. HIDE DEF R
  <2>1. T \subseteq Nat
    OBVIOUS
  <2>. QED
    BY <1>1, <2>1, WFMin
<1>3. \A y \in T : ~ (y < x)
  BY <1>2 DEF OpToRel
<1>. QED
  BY <1>3

\* Runs that ended leave somebody who was last, and the window shows it.
LEMMA NewestExists ==
    ASSUME run \in [Runs -> Counts], \A r \in Runs : run[r].at <= Cardinality(Runs),
           NEW n \in Nat \ {0}, NEW rs \in SUBSET Runs, rs # {}
    PROVE  Newest(n, rs) # {}
<1>. DEFINE C == Cardinality(Runs)
            T == {C - run[r].at : r \in rs}
<1>1. C \in Nat
  BY RunsAreFinite, FS_CardinalityType
<1>2. \A x \in Runs : run[x].at \in Int
  BY DEF Counts
<1>3. T \in SUBSET Nat /\ T # {}
  BY <1>1, <1>2
<1>4. PICK least \in T : \A t \in T : least <= t
  BY <1>3, LeastOf
<1>5. PICK r \in rs : least = C - run[r].at
  BY <1>4
<1>6. {q \in rs : run[q].at > run[r].at} = {}
  <2>1. SUFFICES ASSUME NEW q \in rs, run[q].at > run[r].at PROVE FALSE
    OBVIOUS
  <2>2. C - run[q].at \in T /\ C - run[q].at < least
    BY <1>1, <1>2, <1>5, <2>1
  <2>. QED
    <3>1. C - run[q].at \in Int /\ least \in Int
      BY <1>1, <1>2, <1>3
    <3>. QED
      BY <1>4, <2>2, <3>1
<1>7. r \in Newest(n, rs)
  BY <1>6, FS_EmptySet DEF Newest
<1>. QED
  BY <1>7

\* The oldest of some Runs is one of them.
LEMMA OldestIsOne ==
    ASSUME run \in [Runs -> Counts], NEW rs \in SUBSET Runs, rs # {},
           \A r \in rs : run[r].at \in Nat
    PROVE  /\ \E q \in rs : Oldest(rs) = run[q].at
           /\ \A r \in rs : Oldest(rs) <= run[r].at
<1>. DEFINE T == {run[r].at : r \in rs}
<1>1. T \in SUBSET Nat /\ T # {}
  OBVIOUS
<1>2. PICK least \in T : \A t \in T : least <= t
  BY <1>1, LeastOf
<1>3. \A r \in rs : run[r].at >= least
  BY <1>1, <1>2
<1>4. Oldest(rs) \in T /\ \A r \in rs : run[r].at >= Oldest(rs)
  BY <1>2, <1>3 DEF Oldest
<1>. QED
  BY <1>1, <1>4

----------------------------------------------------------------------------
(* Types.                                                                  *)

\* The items of an answer, the answers of the server and the two tasks.
Pages == [runs : [Runs -> Counts], more : BOOLEAN, older : Nat]

Refusals == [kind : {"conflict", "same"}]

Snapshots == [kind : {"snapshot"}, machines : SUBSET Machines, cursor : Nat, page : Pages]

RefreshAsked == [pc : {"asked"}, cursor : Nat \union {NoCursor}, of : 1 .. born]

RefreshAnswered == [pc : {"answered"}, answer : Refusals \union Snapshots, of : 1 .. born]

LoadAsked ==
    [pc : {"asked"}, older : Nat, left : 1 .. PageTries, seen : SUBSET Runs, of : 1 .. born]

LoadAnswered ==
    [pc : {"answered"}, answer : Pages, left : 0 .. PageTries, seen : SUBSET Runs, of : 1 .. born]

RefreshType == refresh = NoTask \/ refresh \in RefreshAsked \/ refresh \in RefreshAnswered

LoadType == load = NoTask \/ load \in LoadAsked \/ load \in LoadAnswered

\* What ended has a place in time, and started before.
RunType ==
    /\ run \in [Runs -> Counts]
    /\ \A r \in Runs : /\ run[r].at <= Cardinality(Runs)
                       /\ run[r].at > 0 => run[r].seq > 0
                       /\ run[r].at < 0 => run[r] = Retired

ServerType ==
    /\ revision \in 0 .. MaxRevision /\ RunType /\ machines \subseteq Machines
    /\ born \in 0 .. Identities /\ owner \in {0, born} /\ identity = owner

CopyType(c) == c \in Copies /\ c.of \in 0 .. born

FileType(f) == f = NoFile \/ CopyType(f)

AppType ==
    /\ resetting \in BOOLEAN /\ up \in BOOLEAN /\ faults \in 0 .. MaxFaults
    /\ CopyType(mem) /\ FileType(cache) /\ FileType(restore)

TypeInv == ServerType /\ AppType /\ RefreshType /\ LoadType

\* The older of two states of a Run is not lost.
LEMMA MergedType ==
    ASSUME NEW current \in [Runs -> Counts], NEW incoming \in [Runs -> Counts], NEW staying
    PROVE  Merged(current, incoming, staying) \in [Runs -> Counts]
<1>1. NoRun \in Counts
  BY DEF NoRun, Counts
<1>. QED
  BY <1>1 DEF Merged, Kept

\* Items of an answer; where there is more, the position says so.
LEMMA ItemsType ==
    ASSUME RunType, NEW shown \in SUBSET Runs, NEW all \in SUBSET Runs,
           \A r \in all : Finished(r, run), NEW n \in Nat \ {0}
    PROVE  LET items == Items(shown, Newest(n, all), all) IN
           items \in Pages /\ (items.more => items.older > 0)
<1>. DEFINE terminal == Newest(n, all)
            items == Items(shown, terminal, all)
<1>1. NoRun \in Counts
  BY DEF NoRun, Counts
<1>2. [r \in Runs |-> IF r \in shown THEN run[r] ELSE NoRun] \in [Runs -> Counts]
  BY <1>1 DEF RunType
<1>3. terminal # all => Oldest(terminal) \in Nat /\ Oldest(terminal) > 0
  <2>1. SUFFICES ASSUME terminal # all PROVE Oldest(terminal) \in Nat /\ Oldest(terminal) > 0
    OBVIOUS
  <2>2. terminal \subseteq all /\ all # {}
    BY <2>1 DEF Newest
  <2>3. terminal # {}
    BY <2>2, NewestExists DEF RunType
  <2>4. \A r \in terminal : run[r].at \in Nat /\ run[r].at > 0
    BY <2>2 DEF RunType, Counts, Finished
  <2>5. \E q \in terminal : Oldest(terminal) = run[q].at
    BY <2>2, <2>3, <2>4, OldestIsOne DEF RunType
  <2>. QED
    BY <2>4, <2>5
<1>4. items = [runs |-> [r \in Runs |-> IF r \in shown THEN run[r] ELSE NoRun],
               more |-> terminal # all,
               older |-> IF terminal # all THEN Oldest(terminal) ELSE 0]
  BY DEF Items
<1>. HIDE DEF terminal, items
<1>5. items.more => terminal # all /\ items.older = Oldest(terminal)
  BY <1>4
<1>6. items \in Pages
  BY <1>2, <1>3, <1>4 DEF Pages
<1>. QED
  BY <1>3, <1>5, <1>6 DEF items, terminal

\* What a refresh and a page of the history are answered with.
LEMMA SyncAnswerType ==
    ASSUME ServerType, NEW cursor \in Nat \union {NoCursor}
    PROVE  /\ SyncAnswer(cursor) \in Refusals \union Snapshots
           /\ SyncAnswer(cursor).kind = "snapshot" =>
                 LET all == FinishedBefore(0) IN
                 /\ SyncAnswer(cursor).machines = machines
                 /\ SyncAnswer(cursor).cursor = revision
                 /\ SyncAnswer(cursor).page =
                       Items(Newest(Window, all) \union {r \in Runs : Active(r, run)},
                             Newest(Window, all), all)
<1>. DEFINE all == FinishedBefore(0)
            page == Items(Newest(Window, all) \union {r \in Runs : Active(r, run)},
                          Newest(Window, all), all)
<1>1. CASE cursor > revision
  BY <1>1 DEF SyncAnswer, Refusals
<1>2. CASE ~(cursor > revision) /\ cursor = revision
  BY <1>2 DEF SyncAnswer, Refusals
<1>3. CASE ~(cursor > revision) /\ cursor # revision
  <2>1. SyncAnswer(cursor) = [kind |-> "snapshot", machines |-> machines,
                              cursor |-> revision, page |-> page]
    BY <1>3 DEF SyncAnswer
  <2>2. all \subseteq Runs /\ \A r \in all : Finished(r, run)
    BY DEF FinishedBefore
  <2>3. Newest(Window, all) \union {r \in Runs : Active(r, run)} \subseteq Runs
    BY <2>2 DEF Newest
  <2>4. page \in Pages
    BY <2>2, <2>3, ItemsType, SizesArePositive DEF ServerType
  <2>. HIDE DEF page, all
  <2>5. revision \in Nat /\ machines \in SUBSET Machines
    BY DEF ServerType
  <2>6. SyncAnswer(cursor) \in Snapshots
    BY <2>1, <2>4, <2>5 DEF Snapshots
  <2>. QED
    BY <2>1, <2>6 DEF page, all
<1>. QED
  BY <1>1, <1>2, <1>3

LEMMA HistoryAnswerType ==
    ASSUME ServerType, NEW older \in Nat
    PROVE  /\ HistoryAnswer(older) \in Pages
           /\ HistoryAnswer(older).more => HistoryAnswer(older).older > 0
<1>1. FinishedBefore(older) \subseteq Runs /\ \A r \in FinishedBefore(older) : Finished(r, run)
  BY DEF FinishedBefore
<1>2. Newest(PageSize, FinishedBefore(older)) \subseteq Runs
  BY <1>1 DEF Newest
<1>. QED
  BY <1>1, <1>2, ItemsType, SizesArePositive DEF HistoryAnswer, ServerType

\* The copies an action of the app can leave behind: nothing, ...
LEMMA EmptyType == born \in Nat => CopyType(Empty) /\ CopyType(Cleared)
<1>. SUFFICES ASSUME born \in Nat PROVE CopyType(Empty) /\ CopyType(Cleared)
  OBVIOUS
<1>1. [r \in Runs |-> NoRun] \in [Runs -> Counts]
  BY DEF NoRun, Counts
<1>2. 0 \in 0 .. Identities /\ NoCursor \in Nat \union {NoCursor}
  BY SizesArePositive
<1>3. Empty \in Copies /\ Empty.of = 0
  BY <1>1, <1>2 DEF Empty, Copies
<1>4. Cleared = [Empty EXCEPT !.crossed = (load # NoTask)] /\ (load # NoTask) \in BOOLEAN
  BY DEF Cleared
<1>5. Cleared \in Copies /\ Cleared.of = 0
  BY <1>3, <1>4 DEF Copies
<1>. QED
  BY <1>3, <1>5 DEF CopyType

\* ... a snapshot, ...
LEMMA AppliedType ==
    ASSUME TypeInv, refresh.pc = "answered", refresh.answer.kind = "snapshot"
    PROVE  /\ refresh.answer \in Snapshots /\ refresh \in RefreshAnswered
           /\ CopyType(Applied(refresh.answer))
<1>1. refresh \in RefreshAnswered
  BY DEF TypeInv, RefreshType, RefreshAsked, NoTask
<1>2. refresh.answer \in Snapshots /\ refresh.of \in 1 .. born
  BY <1>1 DEF RefreshAnswered, Refusals
<1>. DEFINE a == refresh.answer
<1>3. /\ a.page \in Pages /\ a.machines \in SUBSET Machines /\ a.cursor \in Nat
  BY <1>2 DEF Snapshots
<1>4. /\ a.page.runs \in [Runs -> Counts] /\ a.page.older \in Nat /\ a.page.more \in BOOLEAN
      /\ mem.runs \in [Runs -> Counts]
  BY <1>3 DEF Pages, TypeInv, AppType, CopyType, Copies
<1>5. Merged(mem.runs, a.page.runs, {}) \in [Runs -> Counts]
  BY <1>4, MergedType
<1>6. refresh.of \in 0 .. born /\ refresh.of \in 0 .. Identities
  BY <1>2, SizesArePositive DEF TypeInv, ServerType
<1>7. Applied(a) = [runs |-> Merged(mem.runs, a.page.runs, {}), machines |-> a.machines,
                    cursor |-> a.cursor, older |-> a.page.older, more |-> a.page.more,
                    of |-> refresh.of, crossed |-> load # NoTask]
  BY DEF Applied
<1>8. (load # NoTask) \in BOOLEAN
  OBVIOUS
<1>9. Applied(a) \in Copies
  <2>. HIDE DEF a
  <2>. QED
    BY <1>3, <1>4, <1>5, <1>6, <1>7, <1>8 DEF Copies
<1>10. Applied(a).of = refresh.of
  BY <1>7
<1>. QED
  BY <1>1, <1>2, <1>6, <1>9, <1>10 DEF CopyType

\* ... a page merged into what was there, ...
WithPage ==
    [mem EXCEPT !.runs = Merged(@, load.answer.runs, {r \in Runs : Finished(r, mem.runs)}),
                !.of = IF load.of = identity THEN @ ELSE load.of]

LEMMA WithPageType ==
    ASSUME TypeInv, load.pc = "answered"
    PROVE  /\ load \in LoadAnswered /\ load.answer \in Pages
           /\ CopyType(WithPage)
           /\ CopyType([WithPage EXCEPT !.older = load.answer.older, !.more = load.answer.more])
<1>1. load \in LoadAnswered
  BY DEF TypeInv, LoadType, LoadAsked, NoTask
<1>2. load.answer \in Pages /\ load.of \in 1 .. born
  BY <1>1 DEF LoadAnswered
<1>. DEFINE merged == Merged(mem.runs, load.answer.runs, {r \in Runs : Finished(r, mem.runs)})
            of == IF load.of = identity THEN mem.of ELSE load.of
<1>3. mem \in Copies /\ mem.of \in 0 .. born /\ mem.runs \in [Runs -> Counts]
  BY DEF TypeInv, AppType, CopyType, Copies
<1>4. /\ load.answer.runs \in [Runs -> Counts] /\ load.answer.older \in Nat
      /\ load.answer.more \in BOOLEAN
  BY <1>2 DEF Pages
<1>5. merged \in [Runs -> Counts]
  BY <1>3, <1>4, MergedType
<1>6. of \in 0 .. born /\ of \in 0 .. Identities
  BY <1>2, <1>3, SizesArePositive DEF TypeInv, ServerType
<1>7. WithPage = [mem EXCEPT !.runs = merged, !.of = of]
  BY DEF WithPage
<1>. HIDE DEF merged, of
<1>8. WithPage \in Copies /\ WithPage.of = of
  BY <1>3, <1>5, <1>6, <1>7 DEF Copies
<1>9. /\ [WithPage EXCEPT !.older = load.answer.older, !.more = load.answer.more] \in Copies
      /\ [WithPage EXCEPT !.older = load.answer.older, !.more = load.answer.more].of = of
  BY <1>4, <1>8 DEF Copies
<1>. QED
  BY <1>1, <1>2, <1>6, <1>8, <1>9 DEF CopyType

\* ... the file.
LEMMA RestoredType ==
    ASSUME NEW c, CopyType(c)
    PROVE  CopyType([c EXCEPT !.crossed = @ \/ load # NoTask])
<1>1. c \in Copies /\ c.crossed \in BOOLEAN
  BY DEF CopyType, Copies
<1>. DEFINE crossed == c.crossed \/ load # NoTask
<1>2. crossed \in BOOLEAN
  BY <1>1
<1>. HIDE DEF crossed
<1>3. [c EXCEPT !.crossed = crossed] \in Copies /\ [c EXCEPT !.crossed = crossed].of = c.of
  BY <1>1, <1>2 DEF Copies
<1>. QED
  BY <1>3 DEF CopyType, crossed

\* Steps of the server change neither the app nor whose data is what.
LEMMA StepTypeServer ==
    ASSUME TypeInv, \/ \E r \in Runs : ChangeRun(r) \/ RetireRun(r)
                    \/ \E m \in Machines : ChangeMachine(m)
    PROVE  TypeInv'
<1>1. PICK what \in {"run", "retention", "machine"} : Change(what)
  BY DEF ChangeRun, RetireRun, ChangeMachine
<1>2. /\ revision' \in 0 .. MaxRevision
      /\ UNCHANGED <<owner, identity, born, resetting, mem, cache, restore, up, refresh, load, faults>>
  BY <1>1, BoundsAreNatural
     DEF Change, Bumped, identityVars, tasks, TypeInv, ServerType
<1>3. RunType' /\ (machines \subseteq Machines)'
  <2>1. CASE \E r \in Runs : ChangeRun(r)
    <3>1. PICK r \in Runs : ChangeRun(r)
      BY <2>1
    <3>2. PICK at \in {0} \union (IF Known(r, run) THEN Times ELSE {}) :
             run' = [run EXCEPT ![r] = [seq |-> run[r].seq + 1, at |-> at]]
      BY <3>1 DEF ChangeRun
    <3>3. Cardinality(Runs) \in Nat
      BY RunsAreFinite, FS_CardinalityType
    <3>4. at \in Nat /\ at <= Cardinality(Runs)
      BY <3>2, <3>3 DEF Times
    <3>5. run[r].seq \in Nat
      BY DEF TypeInv, ServerType, RunType, Counts
    <3>6. [seq |-> run[r].seq + 1, at |-> at] \in Counts
      BY <3>4, <3>5 DEF Counts
    <3>7. run' \in [Runs -> Counts]
      BY <3>2, <3>6 DEF TypeInv, ServerType, RunType
    <3>8. \A q \in Runs : run'[q] = IF q = r THEN [seq |-> run[r].seq + 1, at |-> at] ELSE run[q]
      BY <3>2 DEF TypeInv, ServerType, RunType
    <3>9. \A q \in Runs : /\ run'[q].at <= Cardinality(Runs)
                          /\ run'[q].at > 0 => run'[q].seq > 0
                          /\ run'[q].at < 0 => run'[q] = Retired
      BY <3>4, <3>5, <3>8 DEF TypeInv, ServerType, RunType
    <3>. QED
      BY <3>1, <3>7, <3>9 DEF ChangeRun, TypeInv, ServerType, RunType
  <2>2. CASE \E r \in Runs : RetireRun(r)
    <3>1. PICK r \in Runs : run' = [run EXCEPT ![r] = Retired] /\ machines' = machines
      BY <2>2 DEF RetireRun
    <3>2. Retired \in Counts /\ Retired.at = -1
      BY DEF Retired, Counts
    <3>3. Cardinality(Runs) \in Nat
      BY RunsAreFinite, FS_CardinalityType
    <3>. QED
      BY <3>1, <3>2, <3>3 DEF TypeInv, ServerType, RunType
  <2>3. CASE \E m \in Machines : ChangeMachine(m)
    BY <2>3 DEF ChangeMachine, TypeInv, ServerType, RunType
  <2>. QED
    BY <2>1, <2>2, <2>3
<1>4. ServerType'
  BY <1>2, <1>3, SizesArePositive DEF TypeInv, ServerType
<1>5. AppType'
  BY <1>2 DEF TypeInv, AppType, CopyType, FileType
<1>. QED
  BY <1>2, <1>4, <1>5
     DEF TypeInv, RefreshType, LoadType, RefreshAsked, RefreshAnswered, LoadAsked, LoadAnswered

\* Steps of the app leave the server alone, and every copy is one of those above.
AppStep ==
    \/ BeginRefresh \/ AnswerRefresh \/ EndRefresh \/ FailRefresh
    \/ BeginLoad \/ AnswerLoad \/ EndPage \/ FailLoad
    \/ ClearCache \/ Kill \/ Launch \/ RestoreCache

LEMMA AppStepQuiet ==
    ASSUME AppStep
    PROVE  UNCHANGED <<serverVars, identityVars>>
<1>1. CASE BeginRefresh \/ AnswerRefresh \/ EndRefresh \/ FailRefresh
  BY <1>1 DEF BeginRefresh, AnswerRefresh, EndRefresh, FailRefresh
<1>2. CASE BeginLoad \/ AnswerLoad \/ FailLoad
  BY <1>2 DEF BeginLoad, AnswerLoad, FailLoad
<1>3. CASE EndPage
  BY <1>3 DEF EndPage
<1>4. CASE ClearCache \/ Kill \/ Launch \/ RestoreCache
  BY <1>4 DEF ClearCache, Kill, Launch, RestoreCache
<1>. QED
  BY <1>1, <1>2, <1>3, <1>4 DEF AppStep

\* Where the copies of a step come from.
CopyMoves ==
    /\ \/ mem' = mem /\ (load' = load \/ load' = NoTask \/ BeginLoad \/ AnswerLoad)
       \/ mem' = Empty /\ load' = NoTask
       \/ mem' = Cleared /\ load' = load
       \/ /\ refresh.pc = "answered" /\ refresh.answer.kind = "snapshot"
          /\ mem' = Applied(refresh.answer) /\ load' = load
       \/ /\ restore # NoFile /\ load' = load
          /\ mem' = [restore EXCEPT !.crossed = @ \/ load # NoTask]
       \/ /\ load.pc = "answered" /\ load.answer.more
          /\ mem' = WithPage
          /\ load' = [pc |-> "asked", older |-> load.answer.older, left |-> load.left,
                      seen |-> load.seen, of |-> load.of]
       \/ /\ load.pc = "answered"
          /\ mem' = [WithPage EXCEPT !.older = load.answer.older, !.more = load.answer.more]
          /\ load' = NoTask
    /\ cache' \in {cache, NoFile, mem'}
    /\ restore' \in {restore, NoFile, cache}

LEMMA AppStepMoves ==
    ASSUME AppStep
    PROVE  CopyMoves
<1>1. CASE BeginRefresh \/ AnswerRefresh \/ FailRefresh
  BY <1>1 DEF BeginRefresh, AnswerRefresh, FailRefresh, CopyMoves
<1>2. CASE BeginLoad \/ AnswerLoad \/ FailLoad
  BY <1>2 DEF BeginLoad, AnswerLoad, FailLoad, CopyMoves
<1>3. CASE EndRefresh
  BY <1>3 DEF EndRefresh, CopyMoves
<1>4. CASE EndPage
  <2>. DEFINE done == \/ ~(Shown(WithPage.runs) \subseteq load.seen)
                      \/ ~load.answer.more \/ load.left = 0
  <2>1. /\ load.pc = "answered" /\ UNCHANGED restore
        /\ IF done
           THEN /\ mem' = [WithPage EXCEPT !.older = load.answer.older,
                                           !.more = load.answer.more]
                /\ cache' = mem'
                /\ load' = NoTask
           ELSE /\ mem' = WithPage
                /\ load' = [pc |-> "asked", older |-> load.answer.older, left |-> load.left,
                            seen |-> load.seen, of |-> load.of]
                /\ UNCHANGED cache
    BY <1>4 DEF EndPage, WithPage
  <2>2. ~done => load.answer.more
    OBVIOUS
  <2>. HIDE DEF done
  <2>. QED
    BY <2>1, <2>2 DEF CopyMoves
<1>5. CASE ClearCache \/ Kill \/ Launch \/ RestoreCache
  BY <1>5 DEF ClearCache, Kill, Launch, RestoreCache, CopyMoves, tasks
<1>. QED
  BY <1>1, <1>2, <1>3, <1>4, <1>5 DEF AppStep

LEMMA AppStepCopies ==
    ASSUME TypeInv, AppStep
    PROVE  CopyType(mem)' /\ FileType(cache)' /\ FileType(restore)'
<1>1. CopyMoves /\ UNCHANGED born
  BY AppStepMoves, AppStepQuiet DEF identityVars
<1>2. CopyType(mem')
  <2>1. born \in Nat
    BY DEF TypeInv, ServerType
  <2>2. CopyType(mem) /\ CopyType(Empty) /\ CopyType(Cleared)
    BY <2>1, EmptyType DEF TypeInv, AppType
  <2>3. restore # NoFile => CopyType([restore EXCEPT !.crossed = @ \/ load # NoTask])
    BY RestoredType DEF TypeInv, AppType, FileType
  <2>. QED
    BY <1>1, <2>2, <2>3, AppliedType, WithPageType DEF CopyMoves
<1>3. FileType(cache') /\ FileType(restore')
  BY <1>1, <1>2 DEF CopyMoves, FileType, TypeInv, AppType
<1>. QED
  BY <1>1, <1>2, <1>3 DEF CopyType, FileType

\* A refresh and a load are asked, answered and ended.
LEMMA AppStepTasks ==
    ASSUME TypeInv, AppStep
    PROVE  RefreshType' /\ LoadType'
<1>0. UNCHANGED <<born, owner, identity>>
  BY AppStepQuiet DEF identityVars, serverVars
<1>1. CASE BeginRefresh
  <2>1. /\ refresh' = [pc |-> "asked", cursor |-> mem.cursor, of |-> identity] /\ load' = load
        /\ identity # 0
    BY <1>1 DEF BeginRefresh
  <2>2. mem.cursor \in Nat \union {NoCursor} /\ identity \in 1 .. born
    BY <2>1 DEF TypeInv, AppType, CopyType, Copies, ServerType
  <2>3. refresh' \in RefreshAsked
    BY <2>1, <2>2 DEF RefreshAsked
  <2>. QED
    BY <1>0, <2>1, <2>3
       DEF TypeInv, RefreshType, LoadType, RefreshAsked, LoadAsked, LoadAnswered
<1>2. CASE AnswerRefresh
  <2>1. /\ refresh' = [pc |-> "answered", answer |-> SyncAnswer(refresh.cursor), of |-> owner]
        /\ refresh.pc = "asked" /\ refresh.of = owner /\ load' = load
    BY <1>2 DEF AnswerRefresh
  <2>2. refresh \in RefreshAsked
    BY <2>1 DEF TypeInv, RefreshType, RefreshAnswered, NoTask
  <2>3. refresh.cursor \in Nat \union {NoCursor} /\ owner \in 1 .. born
    BY <2>1, <2>2 DEF RefreshAsked
  <2>4. SyncAnswer(refresh.cursor) \in Refusals \union Snapshots
    BY <2>3, SyncAnswerType DEF TypeInv
  <2>5. refresh' \in RefreshAnswered
    BY <2>1, <2>3, <2>4 DEF RefreshAnswered
  <2>. QED
    BY <1>0, <2>1, <2>5
       DEF TypeInv, RefreshType, LoadType, RefreshAnswered, LoadAsked, LoadAnswered
<1>3. CASE EndRefresh \/ FailRefresh
  BY <1>0, <1>3
     DEF EndRefresh, FailRefresh, TypeInv, RefreshType, LoadType, LoadAsked, LoadAnswered
<1>4. CASE BeginLoad
  <2>1. /\ load' = [pc |-> "asked", older |-> mem.older, left |-> PageTries,
                    seen |-> Shown(mem.runs), of |-> identity]
        /\ refresh' = refresh /\ identity # 0
    BY <1>4 DEF BeginLoad
  <2>2. mem.older \in Nat /\ identity \in 1 .. born /\ Shown(mem.runs) \in SUBSET Runs
    BY <2>1 DEF TypeInv, AppType, CopyType, Copies, ServerType, Shown
  <2>3. PageTries \in 1 .. PageTries
    BY SizesArePositive
  <2>4. load' \in LoadAsked
    BY <2>1, <2>2, <2>3 DEF LoadAsked
  <2>. QED
    BY <1>0, <2>1, <2>4
       DEF TypeInv, RefreshType, LoadType, LoadAsked, RefreshAsked, RefreshAnswered
<1>5. CASE AnswerLoad
  <2>1. /\ load' = [pc |-> "answered", answer |-> HistoryAnswer(load.older),
                    left |-> load.left - 1, seen |-> load.seen, of |-> owner]
        /\ load.pc = "asked" /\ load.of = owner /\ refresh' = refresh
    BY <1>5 DEF AnswerLoad
  <2>2. load \in LoadAsked
    BY <2>1 DEF TypeInv, LoadType, LoadAnswered, NoTask
  <2>3. /\ load.older \in Nat /\ load.left \in 1 .. PageTries /\ load.seen \in SUBSET Runs
        /\ owner \in 1 .. born
    BY <2>1, <2>2 DEF LoadAsked
  <2>4. HistoryAnswer(load.older) \in Pages
    BY <2>3, HistoryAnswerType DEF TypeInv
  <2>5. load.left - 1 \in 0 .. PageTries
    BY <2>3, SizesArePositive
  <2>6. load' \in LoadAnswered
    BY <2>1, <2>3, <2>4, <2>5 DEF LoadAnswered
  <2>. QED
    BY <1>0, <2>1, <2>6
       DEF TypeInv, RefreshType, LoadType, LoadAnswered, RefreshAsked, RefreshAnswered
<1>6. CASE EndPage
  <2>1. /\ load.pc = "answered" /\ refresh' = refresh
        /\ \/ load' = NoTask
           \/ /\ load.left # 0
              /\ load' = [pc |-> "asked", older |-> load.answer.older, left |-> load.left,
                          seen |-> load.seen, of |-> load.of]
    BY <1>6 DEF EndPage
  <2>2. load \in LoadAnswered /\ load.answer \in Pages
    BY <2>1, WithPageType
  <2>3. /\ load.answer.older \in Nat /\ load.left \in 0 .. PageTries
        /\ load.seen \in SUBSET Runs /\ load.of \in 1 .. born
    BY <2>2 DEF LoadAnswered, Pages
  <2>4. load' = NoTask \/ load' \in LoadAsked
    BY <2>1, <2>3, SizesArePositive DEF LoadAsked
  <2>. QED
    BY <1>0, <2>1, <2>4
       DEF TypeInv, RefreshType, LoadType, LoadAsked, RefreshAsked, RefreshAnswered
<1>7. CASE FailLoad
  BY <1>0, <1>7
     DEF FailLoad, TypeInv, RefreshType, LoadType, RefreshAsked, RefreshAnswered
<1>8. CASE ClearCache \/ Kill \/ Launch \/ RestoreCache
  BY <1>0, <1>8
     DEF ClearCache, Kill, Launch, RestoreCache, tasks, TypeInv, RefreshType, LoadType,
         RefreshAsked, RefreshAnswered, LoadAsked, LoadAnswered
<1>. QED
  BY <1>1, <1>2, <1>3, <1>4, <1>5, <1>6, <1>7, <1>8 DEF AppStep

LEMMA StepType ==
    ASSUME TypeInv, [Next]_vars
    PROVE  TypeInv'
<1>1. CASE \/ \E r \in Runs : ChangeRun(r) \/ RetireRun(r)
           \/ \E m \in Machines : ChangeMachine(m)
  BY <1>1, StepTypeServer
<1>2. CASE Bootstrap \/ Reset
  <2>1. /\ revision' = 0 /\ run' = [r \in Runs |-> NoRun] /\ machines' = {}
        /\ UNCHANGED <<restore, up, refresh, load>>
    BY <1>2 DEF Bootstrap, Reset, tasks
  <2>2. /\ born' \in born .. Identities /\ owner' \in {0, born'} /\ identity' = owner'
        /\ resetting' \in BOOLEAN /\ faults' \in 0 .. MaxFaults
    <3>1. /\ born \in 0 .. Identities /\ owner \in {0, born}
          /\ faults \in 0 .. MaxFaults /\ resetting \in BOOLEAN
      BY DEF TypeInv, ServerType, AppType
    <3>2. CASE Bootstrap
      <4>1. /\ born' = born + 1 /\ born < Identities /\ owner' = born' /\ identity' = owner'
            /\ resetting' = FALSE /\ faults' = faults
        BY <3>2 DEF Bootstrap
      <4>2. born' \in born .. Identities /\ faults' \in 0 .. MaxFaults
        BY <3>1, <4>1, SizesArePositive
      <4>3. resetting' \in BOOLEAN
        BY <4>1
      <4>. QED
        BY <4>1, <4>2, <4>3
    <3>3. CASE Reset
      <4>1. /\ born' = born /\ owner' = 0 /\ identity' = 0
            /\ resetting' \in {resetting, TRUE}
            /\ faults' = faults \/ (faults < MaxFaults /\ faults' = faults + 1)
        BY <3>3 DEF Reset
      <4>2. resetting' \in BOOLEAN
        BY <3>1, <4>1
      <4>3. born' \in born .. Identities /\ faults' \in 0 .. MaxFaults
        BY <3>1, <4>1, SizesArePositive, BoundsAreNatural
      <4>. QED
        BY <4>1, <4>2, <4>3
    <3>. QED
      BY <1>2, <3>2, <3>3
  <2>3. mem' \in {mem, Cleared} /\ cache' \in {cache, NoFile}
    BY <1>2 DEF Bootstrap, Reset
  <2>4. RunType'
    <3>1. Cardinality(Runs) \in Nat
      BY RunsAreFinite, FS_CardinalityType
    <3>2. NoRun \in Counts /\ NoRun.at = 0
      BY DEF NoRun, Counts
    <3>. QED
      BY <2>1, <3>1, <3>2 DEF RunType
  <2>5. revision' \in 0 .. MaxRevision /\ machines' \subseteq Machines
    BY <2>1, BoundsAreNatural
  <2>6. ServerType'
    BY <2>2, <2>4, <2>5, SizesArePositive DEF ServerType, TypeInv
  <2>7. born \in Nat /\ born' \in Nat /\ born <= born'
    BY <2>2 DEF TypeInv, ServerType
  <2>8. CopyType(Cleared)
    BY <2>7, EmptyType
  <2>9. \A c : CopyType(c) => c \in Copies /\ c.of \in 0 .. born'
    BY <2>7 DEF CopyType
  <2>10. AppType'
    BY <2>1, <2>2, <2>3, <2>8, <2>9 DEF TypeInv, AppType, FileType, CopyType
  <2>11. RefreshType' /\ LoadType'
    BY <2>1, <2>7
       DEF TypeInv, RefreshType, LoadType, RefreshAsked, RefreshAnswered, LoadAsked, LoadAnswered
  <2>. QED
    BY <2>6, <2>10, <2>11 DEF TypeInv
<1>3. CASE AppStep
  <2>1. ServerType' /\ resetting' \in BOOLEAN
    BY <1>3, AppStepQuiet
       DEF serverVars, identityVars, TypeInv, ServerType, RunType, AppType
  <2>2. up' \in BOOLEAN /\ faults' \in 0 .. MaxFaults
    <3>1. up \in BOOLEAN /\ faults \in 0 .. MaxFaults
      BY DEF TypeInv, AppType
    <3>2. CASE BeginRefresh \/ AnswerRefresh \/ EndRefresh \/ BeginLoad \/ AnswerLoad
      BY <3>1, <3>2 DEF BeginRefresh, AnswerRefresh, EndRefresh, BeginLoad, AnswerLoad
    <3>3. CASE EndPage
      BY <3>1, <3>3 DEF EndPage
    <3>4. CASE FailRefresh \/ FailLoad \/ ClearCache
      BY <3>1, <3>4, BoundsAreNatural DEF FailRefresh, FailLoad, ClearCache
    <3>5. CASE Kill \/ Launch \/ RestoreCache
      <4>1. up' \in BOOLEAN
        BY <3>1, <3>5 DEF Kill, Launch, RestoreCache
      <4>2. faults' = faults \/ (faults < MaxFaults /\ faults' = faults + 1)
        BY <3>5 DEF Kill, Launch, RestoreCache
      <4>3. faults' \in 0 .. MaxFaults
        BY <3>1, <4>2, BoundsAreNatural
      <4>. QED
        BY <4>1, <4>3
    <3>. QED
      BY <1>3, <3>2, <3>3, <3>4, <3>5 DEF AppStep
  <2>. QED
    BY <1>3, <2>1, <2>2, AppStepCopies, AppStepTasks DEF TypeInv, AppType
<1>4. CASE UNCHANGED vars
  BY <1>4
     DEF vars, serverVars, identityVars, tasks, TypeInv, ServerType, RunType, AppType, CopyType,
         FileType, RefreshType, LoadType, RefreshAsked, RefreshAnswered, LoadAsked, LoadAnswered
<1>. QED
  BY <1>1, <1>2, <1>3, <1>4, Actions DEF AppStep

LEMMA InitType == Init => TypeInv
<1>. SUFFICES ASSUME Init PROVE TypeInv
  OBVIOUS
<1>1. Cardinality(Runs) \in Nat
  BY RunsAreFinite, FS_CardinalityType
<1>2. NoRun \in Counts /\ NoRun.at = 0
  BY DEF NoRun, Counts
<1>3. RunType
  BY <1>1, <1>2 DEF Init, RunType
<1>4. ServerType
  BY <1>3, SizesArePositive, BoundsAreNatural DEF Init, ServerType
<1>5. CopyType(mem)
  BY EmptyType DEF Init
<1>6. resetting \in BOOLEAN /\ up \in BOOLEAN
  BY DEF Init
<1>7. faults \in 0 .. MaxFaults
  BY BoundsAreNatural DEF Init
<1>. QED
  BY <1>4, <1>5, <1>6, <1>7 DEF Init, TypeInv, AppType, FileType, RefreshType, LoadType

\* Every variable keeps its shape, through resets, late answers and restarts.
THEOREM TypeCorrect == Spec => []TypeOK
<1>1. TypeInv => TypeOK
  <2>. SUFFICES ASSUME TypeInv PROVE TypeOK
    OBVIOUS
  <2>1. owner \in 0 .. Identities /\ identity \in {0, owner}
    BY SizesArePositive DEF TypeInv, ServerType
  <2>2. refresh.pc \in {"idle", "asked", "answered"}
    BY DEF TypeInv, RefreshType, NoTask, RefreshAsked, RefreshAnswered
  <2>3. /\ load.pc \in {"idle", "asked", "answered"}
        /\ load # NoTask => load.left \in 0 .. PageTries /\ load.of \in 1 .. born
    BY SizesArePositive DEF TypeInv, LoadType, NoTask, LoadAsked, LoadAnswered
  <2>. QED
    BY <2>1, <2>2, <2>3
       DEF TypeInv, TypeOK, ServerType, RunType, AppType, CopyType, FileType
<1>. QED
  BY <1>1, InitType, StepType, PTL DEF Spec

----------------------------------------------------------------------------
(* What the cursor and the position in the history mean.                   *)

\* No state of a Run is newer than the server's, but for Runs it has deleted.
NotAheadAt(state, r) ==
    run[r] = Retired \/ state = NoRun \/ state.seq < run[r].seq \/ state = run[r]

NotAhead(runs) == \A r \in Runs : NotAheadAt(runs[r], r)

\* Every Run that ended is there, or among the older ones.
Covers(runs, more, older) ==
    \A r \in Runs : Finished(r, run) =>
        runs[r] = run[r] \/ (runs[r] = NoRun /\ more /\ run[r].at < older)

NewestAgree(runs) == \A r \in Newest(Window, FinishedBefore(0)) : runs[r] = run[r]

\* A copy is of the past or says what the server says.
GoodCopy(c) ==
    /\ owner = 1 => NotAhead(c.runs)
    /\ c.more => c.older > 0
    /\ c.of = owner /\ owner # 0 =>
          /\ c.cursor <= revision
          /\ c.cursor = revision => /\ c.machines = machines /\ NewestAgree(c.runs)
                                    /\ ~c.crossed => Covers(c.runs, c.more, c.older)

GoodFile(f) == f = NoFile \/ GoodCopy(f)

\* So does a snapshot on its way, ...
GoodSnapshot(a, of) ==
    /\ owner = 1 => NotAhead(a.page.runs)
    /\ a.page.more => a.page.older > 0
    /\ of = owner =>
          /\ a.cursor <= revision
          /\ a.cursor = revision => /\ a.machines = machines /\ NewestAgree(a.page.runs)
                                    /\ Covers(a.page.runs, a.page.more, a.page.older)

GoodRefresh ==
    refresh.pc = "answered" /\ refresh.answer.kind = "snapshot"
        => GoodSnapshot(refresh.answer, refresh.of)

\* ... and a page fits to what is shown, unless that was replaced meanwhile.
PageFits(page) ==
    \A r \in Runs : Finished(r, run) =>
        \/ mem.runs[r] = run[r] /\ page.runs[r] \in {run[r], NoRun}
        \/ mem.runs[r] = NoRun /\ page.runs[r] = run[r]
        \/ /\ mem.runs[r] = NoRun /\ page.runs[r] = NoRun
           /\ page.more /\ run[r].at < page.older

GoodLoad ==
    /\ load.pc = "answered" =>
          /\ owner = 1 => NotAhead(load.answer.runs)
          /\ load.answer.more => load.answer.older > 0
    /\ load # NoTask /\ ~mem.crossed /\ mem.of = owner /\ owner # 0 =>
          /\ load.of = owner
          /\ mem.cursor = revision =>
                /\ load.pc = "asked" => load.older > 0 /\ Covers(mem.runs, TRUE, load.older)
                /\ load.pc = "answered" => PageFits(load.answer)

\* Only the first Workspace has Runs, and before it there is nothing.
FirstRuns == owner # 1 => run = [r \in Runs |-> NoRun]

Untouched ==
    born = 0 => /\ mem.runs = [r \in Runs |-> NoRun] /\ refresh = NoTask /\ load = NoTask
                /\ cache = NoFile /\ restore = NoFile

SyncInv ==
    /\ GoodCopy(mem) /\ GoodFile(cache) /\ GoodFile(restore)
    /\ GoodRefresh /\ GoodLoad /\ FirstRuns /\ Untouched

\* What an answer shows is the server's state, and it says where it stops.
LEMMA ItemsFacts ==
    ASSUME RunType, NEW shown \in SUBSET Runs, NEW all \in SUBSET Runs,
           \A r \in all : Finished(r, run), NEW n \in Nat \ {0}
    PROVE  LET terminal == Newest(n, all)
               items == Items(shown, terminal, all) IN
           /\ \A r \in Runs : items.runs[r] = IF r \in shown THEN run[r] ELSE NoRun
           /\ \A r \in all \ terminal : items.more /\ run[r].at < items.older
<1>. DEFINE terminal == Newest(n, all)
            items == Items(shown, terminal, all)
<1>1. items = [runs |-> [r \in Runs |-> IF r \in shown THEN run[r] ELSE NoRun],
               more |-> terminal # all,
               older |-> IF terminal # all THEN Oldest(terminal) ELSE 0]
  BY DEF Items
<1>2. \A r \in Runs : items.runs[r] = IF r \in shown THEN run[r] ELSE NoRun
  BY <1>1
<1>3. SUFFICES ASSUME NEW r \in all \ terminal PROVE items.more /\ run[r].at < items.older
  BY <1>2
<1>4. terminal \subseteq all /\ all # {} /\ terminal # all
  BY <1>3 DEF Newest
<1>5. terminal # {}
  BY <1>4, NewestExists DEF RunType
<1>6. \A q \in terminal : run[q].at \in Nat
  BY <1>4 DEF RunType, Counts, Finished
<1>7. PICK q \in terminal : Oldest(terminal) = run[q].at
  BY <1>4, <1>5, <1>6, OldestIsOne DEF RunType
<1>8. run[r].at < run[q].at
  BY <1>3, <1>7, NewestFirst DEF RunType
<1>. HIDE DEF terminal, items
<1>9. items.more = (terminal # all) /\ items.older = Oldest(terminal)
  BY <1>1, <1>4
<1>. QED
  BY <1>4, <1>7, <1>8, <1>9

\* A state merged is one of those it was merged from.
LEMMA MergedFacts ==
    ASSUME NEW current \in [Runs -> Counts], NEW incoming \in [Runs -> Counts], NEW staying,
           NEW r \in Runs
    PROVE  LET m == Merged(current, incoming, staying)[r] IN
           /\ m \in {current[r], incoming[r], NoRun}
           /\ incoming[r].seq > 0 => m = IF current[r].seq > incoming[r].seq
                                         THEN current[r] ELSE incoming[r]
           /\ ~(incoming[r].seq > 0) => m = IF r \in staying THEN current[r] ELSE NoRun
  BY DEF Merged, Kept, Known

LEMMA MergedNotAhead ==
    ASSUME NEW current \in [Runs -> Counts], NEW incoming \in [Runs -> Counts], NEW staying,
           NotAhead(current), NotAhead(incoming)
    PROVE  NotAhead(Merged(current, incoming, staying))
<1>. SUFFICES ASSUME NEW r \in Runs
              PROVE  NotAheadAt(Merged(current, incoming, staying)[r], r)
  BY DEF NotAhead
<1>1. NotAheadAt(current[r], r) /\ NotAheadAt(incoming[r], r) /\ NotAheadAt(NoRun, r)
  BY DEF NotAhead, NotAheadAt
<1>2. Merged(current, incoming, staying)[r] \in {current[r], incoming[r], NoRun}
  BY MergedFacts
<1>. QED
  BY <1>1, <1>2

\* The server's own state of a Run that ended wins every merge.
LEMMA MergedCurrent ==
    ASSUME RunType, NEW r \in Runs, Finished(r, run),
           NEW current \in [Runs -> Counts], NEW incoming \in [Runs -> Counts], NEW staying,
           NotAheadAt(current[r], r), NotAheadAt(incoming[r], r)
    PROVE  LET m == Merged(current, incoming, staying)[r] IN
           /\ incoming[r] = run[r] => m = run[r]
           /\ current[r] = run[r] /\ r \in staying => m = run[r]
           /\ incoming[r] = NoRun /\ (r \in staying => current[r] = NoRun) => m = NoRun
<1>. DEFINE m == Merged(current, incoming, staying)[r]
<1>1. /\ run[r].seq \in Nat /\ run[r].seq > 0 /\ run[r] # Retired
      /\ current[r].seq \in Nat /\ incoming[r].seq \in Nat
  BY DEF RunType, Counts, Finished, Retired
<1>2. NoRun.seq = 0
  BY DEF NoRun
<1>3. /\ incoming[r].seq > 0 => m = IF current[r].seq > incoming[r].seq
                                    THEN current[r] ELSE incoming[r]
      /\ ~(incoming[r].seq > 0) => m = IF r \in staying THEN current[r] ELSE NoRun
  BY MergedFacts
<1>. HIDE DEF m
<1>4. incoming[r] = run[r] => m = run[r]
  BY <1>1, <1>2, <1>3 DEF NotAheadAt
<1>5. current[r] = run[r] /\ r \in staying => m = run[r]
  BY <1>1, <1>2, <1>3 DEF NotAheadAt
<1>6. incoming[r] = NoRun /\ (r \in staying => current[r] = NoRun) => m = NoRun
  BY <1>2, <1>3
<1>. QED
  BY <1>4, <1>5, <1>6 DEF m

\* The copies an action can leave behind are good: nothing, ...
LEMMA GoodEmpty == GoodCopy(Empty) /\ GoodCopy(Cleared)
<1>1. /\ Empty.runs = [r \in Runs |-> NoRun] /\ Empty.more = FALSE /\ Empty.of = 0
  BY DEF Empty
<1>2. /\ Cleared.runs = [r \in Runs |-> NoRun] /\ Cleared.more = FALSE /\ Cleared.of = 0
  BY DEF Empty, Cleared
<1>3. NotAhead([r \in Runs |-> NoRun])
  BY DEF NotAhead, NotAheadAt
<1>. QED
  BY <1>1, <1>2, <1>3 DEF GoodCopy

\* ... the file, ...
LEMMA GoodRestored ==
    ASSUME NEW c \in Copies, GoodCopy(c)
    PROVE  GoodCopy([c EXCEPT !.crossed = @ \/ load # NoTask])
<1>1. c.crossed \in BOOLEAN
  BY DEF Copies
<1>. DEFINE crossed == c.crossed \/ load # NoTask
            d == [c EXCEPT !.crossed = crossed]
<1>2. /\ d.runs = c.runs /\ d.more = c.more /\ d.older = c.older /\ d.of = c.of
      /\ d.cursor = c.cursor /\ d.machines = c.machines /\ d.crossed = crossed
  BY DEF Copies
<1>3. ~crossed => ~c.crossed
  OBVIOUS
<1>. HIDE DEF d, crossed
<1>4. GoodCopy(d)
  BY <1>2, <1>3 DEF GoodCopy
<1>. QED
  BY <1>4 DEF d, crossed

\* ... a snapshot, ...
LEMMA GoodApplied ==
    ASSUME TypeInv, SyncInv, refresh.pc = "answered", refresh.answer.kind = "snapshot"
    PROVE  GoodCopy(Applied(refresh.answer))
<1>. DEFINE a == refresh.answer
            runs == Merged(mem.runs, a.page.runs, {})
            c == Applied(a)
<1>1. refresh.answer \in Snapshots /\ refresh \in RefreshAnswered
  BY AppliedType
<1>2. /\ a.page.runs \in [Runs -> Counts] /\ mem.runs \in [Runs -> Counts]
      /\ refresh.of \in 1 .. born
  BY <1>1 DEF Snapshots, RefreshAnswered, Pages, TypeInv, AppType, CopyType, Copies
<1>3. /\ c.runs = runs /\ c.machines = a.machines /\ c.cursor = a.cursor
      /\ c.older = a.page.older /\ c.more = a.page.more /\ c.of = refresh.of
  BY DEF Applied
<1>4. GoodSnapshot(a, refresh.of)
  BY DEF SyncInv, GoodRefresh
<1>. HIDE DEF a, c
<1>5. owner = 1 => NotAhead(mem.runs) /\ NotAhead(a.page.runs)
  BY <1>4 DEF SyncInv, GoodCopy, GoodSnapshot
<1>6. owner = 1 => NotAhead(runs)
  BY <1>2, <1>5, MergedNotAhead
<1>7. ASSUME NEW r \in Runs, Finished(r, run)
      PROVE  /\ a.page.runs[r] = run[r] => runs[r] = run[r]
             /\ a.page.runs[r] = NoRun => runs[r] = NoRun
  <2>1. owner = 1
    BY <1>7 DEF SyncInv, FirstRuns, NoRun, Finished
  <2>2. NotAheadAt(mem.runs[r], r) /\ NotAheadAt(a.page.runs[r], r)
    BY <1>5, <2>1 DEF NotAhead
  <2>. QED
    BY <1>2, <1>7, <2>2, MergedCurrent DEF TypeInv, ServerType
<1>. HIDE DEF runs
<1>8. NewestAgree(a.page.runs) => NewestAgree(runs)
  BY <1>7 DEF NewestAgree, Newest, FinishedBefore
<1>9. Covers(a.page.runs, a.page.more, a.page.older)
        => Covers(runs, a.page.more, a.page.older)
  BY <1>7 DEF Covers
<1>10. GoodCopy(c)
  BY <1>3, <1>4, <1>6, <1>8, <1>9 DEF GoodCopy, GoodSnapshot
<1>. QED
  BY <1>10 DEF c, a

\* ... a page merged into what was there; the load that goes on continues
\* after it.
LEMMA GoodWithPage ==
    ASSUME TypeInv, SyncInv, load.pc = "answered"
    PROVE  /\ load.answer.more => GoodCopy(WithPage)
           /\ GoodCopy([WithPage EXCEPT !.older = load.answer.older, !.more = load.answer.more])
           /\ ~WithPage.crossed /\ WithPage.of = owner /\ owner # 0 /\ load.answer.more =>
                 /\ load.of = owner
                 /\ WithPage.cursor = revision =>
                       /\ load.answer.older > 0
                       /\ Covers(WithPage.runs, TRUE, load.answer.older)
<1>. DEFINE page == load.answer
            terminal == {r \in Runs : Finished(r, mem.runs)}
            runs == Merged(mem.runs, page.runs, terminal)
            c == WithPage
            d == [c EXCEPT !.older = page.older, !.more = page.more]
<1>1. load \in LoadAnswered /\ page \in Pages /\ mem \in Copies /\ c \in Copies
  BY WithPageType DEF TypeInv, AppType, CopyType
<1>2. /\ page.runs \in [Runs -> Counts] /\ mem.runs \in [Runs -> Counts]
      /\ load # NoTask
  BY <1>1 DEF Pages, Copies, LoadAnswered, NoTask
<1>3. /\ c.runs = runs /\ c.machines = mem.machines /\ c.cursor = mem.cursor
      /\ c.older = mem.older /\ c.more = mem.more /\ c.crossed = mem.crossed
      /\ c.of = IF load.of = identity THEN mem.of ELSE load.of
  BY <1>1 DEF WithPage, Copies
<1>. HIDE DEF c, page
<1>4. /\ d.runs = runs /\ d.machines = mem.machines /\ d.cursor = mem.cursor
      /\ d.older = page.older /\ d.more = page.more /\ d.crossed = mem.crossed
      /\ d.of = c.of
  BY <1>1, <1>3 DEF Copies
<1>5. identity = owner
  BY DEF TypeInv, ServerType
<1>6. c.of = owner => mem.of = owner /\ load.of = owner
  BY <1>3, <1>5
<1>7. /\ owner = 1 => NotAhead(mem.runs) /\ NotAhead(page.runs)
      /\ page.more => page.older > 0
      /\ mem.more => mem.older > 0
  BY DEF SyncInv, GoodCopy, GoodLoad, page
<1>8. owner = 1 => NotAhead(runs)
  BY <1>2, <1>7, MergedNotAhead
<1>9. ASSUME NEW r \in Runs, Finished(r, run)
      PROVE  /\ page.runs[r] = run[r] => runs[r] = run[r]
             /\ mem.runs[r] = run[r] => runs[r] = run[r]
             /\ page.runs[r] = NoRun /\ mem.runs[r] = NoRun => runs[r] = NoRun
  <2>1. owner = 1
    BY <1>9 DEF SyncInv, FirstRuns, NoRun, Finished
  <2>2. NotAheadAt(mem.runs[r], r) /\ NotAheadAt(page.runs[r], r)
    BY <1>7, <2>1 DEF NotAhead
  <2>3. mem.runs[r] = run[r] => r \in terminal
    BY <1>9 DEF Finished
  <2>. HIDE DEF terminal
  <2>4. RunType
    BY DEF TypeInv, ServerType
  <2>. QED
    BY <1>2, <1>9, <2>2, <2>3, <2>4, MergedCurrent
<1>. HIDE DEF runs, d
<1>10. ASSUME c.of = owner, owner # 0
       PROVE  /\ mem.cursor <= revision
              /\ mem.cursor = revision => mem.machines = machines /\ NewestAgree(runs)
  <2>1. /\ mem.cursor <= revision
        /\ mem.cursor = revision => mem.machines = machines /\ NewestAgree(mem.runs)
    <3>1. GoodCopy(mem) /\ mem.of = owner /\ owner # 0
      BY <1>6, <1>10 DEF SyncInv
    <3>. HIDE DEF terminal
    <3>. QED
      BY <3>1 DEF GoodCopy
  <2>2. NewestAgree(mem.runs) => NewestAgree(runs)
    BY <1>9 DEF NewestAgree, Newest, FinishedBefore
  <2>. QED
    BY <2>1, <2>2
<1>11. ASSUME c.of = owner, owner # 0, ~mem.crossed, mem.cursor = revision
       PROVE  /\ Covers(runs, mem.more, mem.older)
              /\ Covers(runs, page.more, page.older)
  <2>1. Covers(mem.runs, mem.more, mem.older) /\ PageFits(page)
    <3>1. GoodCopy(mem) /\ GoodLoad /\ mem.of = owner /\ owner # 0
      BY <1>6, <1>11 DEF SyncInv
    <3>2. Covers(mem.runs, mem.more, mem.older)
      BY <1>11, <3>1 DEF GoodCopy
    <3>3. PageFits(load.answer)
      BY <1>2, <1>11, <3>1 DEF GoodLoad
    <3>. QED
      BY <3>2, <3>3 DEF page
  <2>. SUFFICES ASSUME NEW r \in Runs, Finished(r, run)
                PROVE  /\ runs[r] = run[r] \/ (runs[r] = NoRun /\ mem.more /\ run[r].at < mem.older)
                       /\ runs[r] = run[r] \/ (runs[r] = NoRun /\ page.more /\ run[r].at < page.older)
    BY DEF Covers
  <2>2. NoRun # run[r]
    BY DEF NoRun, Finished
  <2>. QED
    BY <1>9, <2>1, <2>2 DEF Covers, PageFits
<1>12. Covers(runs, page.more, page.older) /\ page.more => Covers(runs, TRUE, page.older)
  BY DEF Covers
<1>13. GoodCopy(c)
  BY <1>3, <1>7, <1>8, <1>10, <1>11 DEF GoodCopy
<1>14. GoodCopy(d)
  BY <1>4, <1>7, <1>8, <1>10, <1>11 DEF GoodCopy
<1>15. ~c.crossed /\ c.of = owner /\ owner # 0 /\ page.more =>
          /\ load.of = owner
          /\ c.cursor = revision => page.older > 0 /\ Covers(c.runs, TRUE, page.older)
  BY <1>3, <1>6, <1>7, <1>11, <1>12
<1>. QED
  BY <1>13, <1>14, <1>15 DEF c, d, page

\* A change on the server makes every copy one of the past.
LEMMA SyncServer ==
    ASSUME TypeInv, SyncInv, \/ \E r \in Runs : ChangeRun(r) \/ RetireRun(r)
                             \/ \E m \in Machines : ChangeMachine(m)
    PROVE  SyncInv'
<1>1. /\ revision' = revision + 1 /\ revision \in Nat /\ owner # 0
      /\ UNCHANGED <<owner, identity, born, mem, cache, restore, refresh, load>>
  BY DEF ChangeRun, RetireRun, ChangeMachine, Change, Bumped, identityVars, tasks, TypeInv,
         ServerType
<1>2. ASSUME NEW r \in Runs, NEW state \in Counts, NotAheadAt(state, r)
      PROVE  NotAheadAt(state, r)'
  <2>1. run \in [Runs -> Counts]
    BY DEF TypeInv, ServerType, RunType
  <2>2. CASE UNCHANGED run
    BY <1>2, <2>2 DEF NotAheadAt
  <2>3. CASE \E q \in Runs : run' = [run EXCEPT ![q] = Retired]
    BY <1>2, <2>1, <2>3 DEF NotAheadAt
  <2>4. CASE \E q \in Runs : ChangeRun(q)
    <3>1. PICK q \in Runs : /\ run[q] # Retired
                            /\ \E at : run' = [run EXCEPT ![q] = [seq |-> run[q].seq + 1, at |-> at]]
      BY <2>4 DEF ChangeRun
    <3>2. PICK at : run' = [run EXCEPT ![q] = [seq |-> run[q].seq + 1, at |-> at]]
      BY <3>1
    <3>3. r # q => run'[r] = run[r]
      BY <2>1, <3>2
    <3>4. r = q => run'[r].seq = run[r].seq + 1
      BY <2>1, <3>2
    <3>5. run[r].seq \in Nat /\ state.seq \in Nat
      BY <1>2, <2>1 DEF Counts
    <3>. QED
      BY <1>2, <3>1, <3>3, <3>4, <3>5 DEF NotAheadAt
  <2>. QED
    BY <2>2, <2>3, <2>4 DEF ChangeRun, RetireRun, ChangeMachine
<1>3. ASSUME NEW runs \in [Runs -> Counts], NotAhead(runs)
      PROVE  NotAhead(runs)'
  BY <1>2, <1>3 DEF NotAhead
<1>4. ASSUME NEW c \in Copies, GoodCopy(c)
      PROVE  GoodCopy(c)'
  <2>1. c.runs \in [Runs -> Counts] /\ c.cursor \in Int
    BY <1>4 DEF Copies, NoCursor
  <2>2. owner' = 1 => NotAhead(c.runs)'
    BY <1>1, <1>3, <1>4, <2>1 DEF GoodCopy
  <2>3. c.of = owner => c.cursor <= revision' /\ c.cursor # revision'
    BY <1>1, <1>4, <2>1 DEF GoodCopy
  <2>. QED
    BY <1>1, <1>4, <2>2, <2>3 DEF GoodCopy
<1>5. GoodCopy(mem)' /\ GoodFile(cache)' /\ GoodFile(restore)'
  <2>1. /\ mem \in Copies /\ GoodCopy(mem)
        /\ cache = NoFile \/ (cache \in Copies /\ GoodCopy(cache))
        /\ restore = NoFile \/ (restore \in Copies /\ GoodCopy(restore))
    BY DEF TypeInv, AppType, CopyType, FileType, SyncInv, GoodFile
  <2>2. mem' = mem /\ cache' = cache /\ restore' = restore
    BY <1>1
  <2>. QED
    BY <1>4, <2>1, <2>2 DEF GoodFile, GoodCopy
<1>6. GoodRefresh'
  <2>1. SUFFICES ASSUME refresh.pc = "answered", refresh.answer.kind = "snapshot"
                 PROVE  GoodSnapshot(refresh.answer, refresh.of)'
    BY <1>1 DEF GoodRefresh
  <2>2. refresh.answer \in Snapshots
    BY <2>1, AppliedType
  <2>3. refresh.answer.page.runs \in [Runs -> Counts] /\ refresh.answer.cursor \in Nat
    BY <2>2 DEF Snapshots, Pages
  <2>4. GoodSnapshot(refresh.answer, refresh.of)
    BY <2>1 DEF SyncInv, GoodRefresh
  <2>5. owner' = 1 => NotAhead(refresh.answer.page.runs)'
    BY <1>1, <1>3, <2>3, <2>4 DEF GoodSnapshot
  <2>6. refresh.of = owner =>
           refresh.answer.cursor <= revision' /\ refresh.answer.cursor # revision'
    BY <1>1, <2>3, <2>4 DEF GoodSnapshot
  <2>. QED
    BY <1>1, <2>4, <2>5, <2>6 DEF GoodSnapshot
<1>7. GoodLoad'
  <2>1. load.pc = "answered" => /\ owner' = 1 => NotAhead(load.answer.runs)'
                                /\ load.answer.more => load.answer.older > 0
    <3>1. SUFFICES ASSUME load.pc = "answered"
                   PROVE  /\ owner' = 1 => NotAhead(load.answer.runs)'
                          /\ load.answer.more => load.answer.older > 0
      OBVIOUS
    <3>2. load.answer.runs \in [Runs -> Counts]
      BY <3>1, WithPageType DEF Pages
    <3>. QED
      BY <1>1, <1>3, <3>1, <3>2 DEF SyncInv, GoodLoad
  <2>2. load # NoTask /\ ~mem.crossed /\ mem.of = owner => load.of = owner
    BY <1>1 DEF SyncInv, GoodLoad
  <2>3. mem.of = owner => mem.cursor # revision'
    <3>1. GoodCopy(mem) /\ mem.cursor \in Int
      BY DEF SyncInv, TypeInv, AppType, CopyType, Copies, NoCursor
    <3>. QED
      BY <1>1, <3>1 DEF GoodCopy
  <2>. QED
    BY <1>1, <2>1, <2>2, <2>3 DEF GoodLoad
<1>8. FirstRuns'
  <2>1. CASE UNCHANGED run
    BY <1>1, <2>1 DEF SyncInv, FirstRuns
  <2>2. CASE \E r \in Runs : ChangeRun(r)
    BY <1>1, <2>2 DEF ChangeRun, FirstRuns
  <2>3. CASE \E r \in Runs : RetireRun(r)
    BY <1>1, <2>3 DEF RetireRun, SyncInv, FirstRuns, NoRun, Finished
  <2>. QED
    BY <2>1, <2>2, <2>3 DEF ChangeMachine
<1>9. Untouched'
  BY <1>1 DEF SyncInv, Untouched
<1>. QED
  BY <1>5, <1>6, <1>7, <1>8, <1>9 DEF SyncInv

\* A new Workspace, or none, is nobody's copy; Runs come with the first.
LEMMA SyncIdentity ==
    ASSUME TypeInv, SyncInv, Bootstrap \/ Reset
    PROVE  SyncInv'
<1>1. /\ revision' = 0 /\ run' = [r \in Runs |-> NoRun] /\ machines' = {}
      /\ UNCHANGED <<restore, refresh, load>>
  BY DEF Bootstrap, Reset, tasks
<1>2. /\ born \in Nat /\ born' \in Nat /\ identity = owner
      /\ \/ born' = born + 1 /\ owner' = born'
         \/ born' = born /\ owner' = 0 /\ born # 0
  BY DEF Bootstrap, Reset, TypeInv, ServerType
<1>3. /\ mem' \in {mem, Cleared} /\ cache' \in {cache, NoFile}
      /\ born = 0 => mem' = mem \/ mem' = Cleared
  BY DEF Bootstrap, Reset
<1>4. owner' = 1 => born = 0
  BY <1>2
<1>5. NotAhead([r \in Runs |-> NoRun])'
  BY DEF NotAhead, NotAheadAt
<1>6. /\ Cleared.runs = [r \in Runs |-> NoRun] /\ Cleared.more = FALSE /\ Cleared.of = 0
  BY DEF Empty, Cleared
<1>7. ASSUME NEW c, CopyType(c), GoodCopy(c), born = 0 => c.runs = [r \in Runs |-> NoRun]
      PROVE  GoodCopy(c)' /\ (c.of # owner' \/ owner' = 0)
  <2>1. c.of \in 0 .. born
    BY <1>7 DEF CopyType
  <2>2. c.of # owner' \/ owner' = 0
    BY <1>2, <2>1
  <2>3. owner' = 1 => NotAhead(c.runs)'
    BY <1>4, <1>5, <1>7
  <2>4. GoodCopy(c)'
    BY <1>7, <2>2, <2>3 DEF GoodCopy
  <2>. QED
    BY <2>2, <2>4
<1>8. GoodCopy(Cleared)'
  <2>1. Cleared' = Cleared
    BY <1>1 DEF Cleared, Empty
  <2>. QED
    BY <1>2, <1>5, <1>6, <2>1 DEF GoodCopy
<1>9. /\ CopyType(mem) /\ GoodCopy(mem) /\ FileType(cache) /\ GoodFile(cache)
      /\ FileType(restore) /\ GoodFile(restore)
      /\ born = 0 => mem.runs = [r \in Runs |-> NoRun] /\ cache = NoFile /\ restore = NoFile
  BY DEF TypeInv, AppType, SyncInv, Untouched
<1>10. GoodCopy(mem)'
  <2>1. CASE mem' = mem
    BY <1>7, <1>9, <2>1 DEF GoodCopy
  <2>2. CASE mem' = Cleared
    <3>1. Cleared' = Cleared
      BY <1>1 DEF Cleared, Empty
    <3>. QED
      BY <1>8, <2>2, <3>1 DEF GoodCopy
  <2>. QED
    BY <1>3, <2>1, <2>2
<1>11. GoodFile(cache)' /\ GoodFile(restore)'
  <2>1. \A f : FileType(f) /\ GoodFile(f) /\ (born = 0 => f = NoFile) => GoodFile(f)'
    BY <1>7 DEF FileType, GoodFile
  <2>. QED
    BY <1>1, <1>3, <1>9, <2>1 DEF GoodFile, GoodCopy
<1>12. GoodRefresh'
  <2>1. SUFFICES ASSUME refresh.pc = "answered", refresh.answer.kind = "snapshot"
                 PROVE  GoodSnapshot(refresh.answer, refresh.of)'
    BY <1>1 DEF GoodRefresh
  <2>2. refresh.of \in 1 .. born
    BY <2>1, AppliedType DEF RefreshAnswered
  <2>3. GoodSnapshot(refresh.answer, refresh.of)
    BY <2>1 DEF SyncInv, GoodRefresh
  <2>4. owner' # 1 /\ refresh.of # owner'
    BY <1>2, <1>4, <2>2
  <2>. QED
    BY <1>1, <2>3, <2>4 DEF GoodSnapshot
<1>13. GoodLoad'
  <2>1. load # NoTask => born # 0 /\ owner' # 1
    BY <1>4 DEF SyncInv, Untouched
  <2>2. mem'.of = owner' => owner' = 0
    BY <1>3, <1>6, <1>7, <1>9
  <2>3. load.pc = "answered" => load # NoTask /\ (load.answer.more => load.answer.older > 0)
    BY DEF SyncInv, GoodLoad, NoTask
  <2>. QED
    BY <1>1, <2>1, <2>2, <2>3 DEF GoodLoad
<1>14. FirstRuns'
  BY <1>1 DEF FirstRuns
<1>15. Untouched'
  BY <1>1, <1>2, <1>3, <1>6, <1>9 DEF SyncInv, Untouched
<1>. QED
  BY <1>10, <1>11, <1>12, <1>13, <1>14, <1>15 DEF SyncInv

\* The server answers with what it has.
LEMMA SyncAnswers ==
    ASSUME TypeInv, SyncInv, AppStep
    PROVE  GoodRefresh'
<1>1. UNCHANGED <<serverVars, identityVars>>
  BY AppStepQuiet
<1>2. \A a, of : GoodSnapshot(a, of) => GoodSnapshot(a, of)'
  BY <1>1 DEF serverVars, GoodSnapshot, NotAhead, NotAheadAt, NewestAgree, Newest, FinishedBefore,
              Finished, Covers
<1>3. CASE UNCHANGED refresh
  BY <1>2, <1>3 DEF SyncInv, GoodRefresh
<1>4. CASE refresh'.pc # "answered"
  BY <1>4 DEF GoodRefresh
<1>5. CASE AnswerRefresh
  <2>. DEFINE a == SyncAnswer(refresh.cursor)
              all == FinishedBefore(0)
              window == Newest(Window, all)
              shown == window \union {r \in Runs : Active(r, run)}
              page == Items(shown, window, all)
  <2>1. /\ refresh' = [pc |-> "answered", answer |-> a, of |-> owner]
        /\ refresh.pc = "asked" /\ refresh.of = owner
    BY <1>5 DEF AnswerRefresh
  <2>2. refresh \in RefreshAsked
    BY <2>1 DEF TypeInv, RefreshType, RefreshAnswered, NoTask
  <2>3. refresh.cursor \in Nat \union {NoCursor}
    BY <2>2 DEF RefreshAsked
  <2>4. SUFFICES ASSUME a.kind = "snapshot" PROVE GoodSnapshot(a, owner)
    BY <1>2, <2>1 DEF GoodRefresh
  <2>5. a.machines = machines /\ a.cursor = revision /\ a.page = page
    BY <2>3, <2>4, SyncAnswerType DEF TypeInv
  <2>6. all \subseteq Runs /\ \A r \in all : Finished(r, run)
    BY DEF FinishedBefore
  <2>7. shown \subseteq Runs
    BY <2>6 DEF Newest
  <2>8. RunType
    BY DEF TypeInv, ServerType
  <2>9. /\ \A r \in Runs : page.runs[r] = IF r \in shown THEN run[r] ELSE NoRun
        /\ \A r \in all \ window : page.more /\ run[r].at < page.older
    BY <2>6, <2>7, <2>8, ItemsFacts, SizesArePositive
  <2>10. page.more => page.older > 0
    BY <2>6, <2>7, <2>8, ItemsType, SizesArePositive
  <2>11. revision \in Nat
    BY DEF TypeInv, ServerType
  <2>. HIDE DEF page, a
  <2>12. NotAhead(page.runs)
    BY <2>9 DEF NotAhead, NotAheadAt
  <2>13. NewestAgree(page.runs)
    BY <2>6, <2>9 DEF NewestAgree, Newest
  <2>14. Covers(page.runs, page.more, page.older)
    <3>1. SUFFICES ASSUME NEW r \in Runs, Finished(r, run)
                   PROVE  \/ page.runs[r] = run[r]
                          \/ page.runs[r] = NoRun /\ page.more /\ run[r].at < page.older
      BY DEF Covers
    <3>2. r \in all
      BY <3>1 DEF FinishedBefore
    <3>3. CASE r \in shown
      BY <2>9, <3>3
    <3>4. CASE r \notin shown
      BY <2>9, <3>2, <3>4
    <3>. QED
      BY <3>3, <3>4
  <2>. QED
    BY <2>5, <2>10, <2>11, <2>12, <2>13, <2>14 DEF GoodSnapshot
<1>. QED
  <2>1. CASE BeginRefresh \/ EndRefresh \/ FailRefresh \/ Kill
    BY <1>4, <2>1 DEF BeginRefresh, EndRefresh, FailRefresh, Kill, NoTask
  <2>2. CASE BeginLoad \/ AnswerLoad \/ EndPage \/ FailLoad
    BY <1>3, <2>2 DEF BeginLoad, AnswerLoad, EndPage, FailLoad
  <2>3. CASE ClearCache \/ Launch \/ RestoreCache
    BY <1>3, <2>3 DEF ClearCache, Launch, RestoreCache, tasks
  <2>. QED
    BY <1>5, <2>1, <2>2, <2>3 DEF AppStep

\* ... and a page continues where the one before it stopped.
LEMMA PageAnswers ==
    ASSUME TypeInv, SyncInv, AnswerLoad
    PROVE  /\ owner = 1 => NotAhead(load'.answer.runs)
           /\ load'.answer.more => load'.answer.older > 0
           /\ load.older > 0 /\ Covers(mem.runs, TRUE, load.older) => PageFits(load'.answer)
<1>. DEFINE all == FinishedBefore(load.older)
            page == Newest(PageSize, all)
            answer == Items(page, page, all)
<1>1. load.pc = "asked" /\ load'.answer = answer
  BY DEF AnswerLoad, HistoryAnswer
<1>2. load \in LoadAsked
  BY <1>1 DEF TypeInv, LoadType, LoadAnswered, NoTask
<1>3. load.older \in Nat /\ RunType
  BY <1>2 DEF LoadAsked, TypeInv, ServerType
<1>4. all \subseteq Runs /\ \A r \in all : Finished(r, run)
  BY DEF FinishedBefore
<1>5. page \subseteq all
  BY DEF Newest
<1>6. /\ \A r \in Runs : answer.runs[r] = IF r \in page THEN run[r] ELSE NoRun
      /\ \A r \in all \ page : answer.more /\ run[r].at < answer.older
  BY <1>3, <1>4, <1>5, ItemsFacts, SizesArePositive
<1>7. answer.more => answer.older > 0
  BY <1>3, <1>4, <1>5, ItemsType, SizesArePositive
<1>. HIDE DEF answer
<1>8. NotAhead(answer.runs)
  BY <1>6 DEF NotAhead, NotAheadAt
<1>9. ASSUME load.older > 0, Covers(mem.runs, TRUE, load.older)
      PROVE  PageFits(answer)
  <2>1. SUFFICES ASSUME NEW r \in Runs, Finished(r, run)
                 PROVE  \/ mem.runs[r] = run[r] /\ answer.runs[r] \in {run[r], NoRun}
                        \/ mem.runs[r] = NoRun /\ answer.runs[r] = run[r]
                        \/ /\ mem.runs[r] = NoRun /\ answer.runs[r] = NoRun
                           /\ answer.more /\ run[r].at < answer.older
    BY DEF PageFits
  <2>2. CASE mem.runs[r] = run[r]
    BY <1>6, <2>2
  <2>3. CASE mem.runs[r] = NoRun /\ run[r].at < load.older
    <3>1. r \in all
      BY <2>1, <2>3 DEF FinishedBefore
    <3>. QED
      BY <1>6, <2>3, <3>1
  <2>. QED
    BY <1>9, <2>1, <2>2, <2>3 DEF Covers
<1>. QED
  BY <1>1, <1>7, <1>8, <1>9

\* Every copy a step of the app leaves is a good one.
LEMMA AppStepGood ==
    ASSUME TypeInv, SyncInv, AppStep
    PROVE  GoodCopy(mem)' /\ GoodFile(cache)' /\ GoodFile(restore)'
<1>1. CopyMoves /\ UNCHANGED <<serverVars, identityVars>>
  BY AppStepMoves, AppStepQuiet
<1>2. GoodCopy(mem')
  <2>1. GoodCopy(mem) /\ GoodCopy(Empty) /\ GoodCopy(Cleared)
    BY GoodEmpty DEF SyncInv
  <2>2. restore # NoFile => GoodCopy([restore EXCEPT !.crossed = @ \/ load # NoTask])
    BY GoodRestored DEF TypeInv, AppType, FileType, CopyType, SyncInv, GoodFile
  <2>. QED
    BY <1>1, <2>1, <2>2, GoodApplied, GoodWithPage DEF CopyMoves
<1>3. GoodFile(cache') /\ GoodFile(restore')
  BY <1>1, <1>2 DEF CopyMoves, GoodFile, SyncInv
<1>. QED
  BY <1>1, <1>2, <1>3
     DEF serverVars, GoodFile, GoodCopy, NotAhead, NotAheadAt, NewestAgree, Newest, FinishedBefore,
         Finished, Covers

\* A load that goes on fits to what is shown.
LEMMA AppStepLoad ==
    ASSUME TypeInv, SyncInv, AppStep
    PROVE  GoodLoad'
<1>1. CopyMoves /\ UNCHANGED <<revision, run, machines, owner, identity>>
  BY AppStepMoves, AppStepQuiet DEF serverVars, identityVars
<1>2. \A runs, more, older : Covers(runs, more, older) => Covers(runs, more, older)'
  BY <1>1 DEF Covers, Finished
<1>3. \A runs : NotAhead(runs) => NotAhead(runs)'
  BY <1>1 DEF NotAhead, NotAheadAt
<1>4. GoodLoad /\ (load = NoTask => load.pc = "idle")
  BY DEF SyncInv, NoTask
<1>5. CASE load' = NoTask
  BY <1>5 DEF GoodLoad, NoTask
<1>6. CASE mem' = mem /\ load' = load
  <2>1. \A page : PageFits(page) => PageFits(page)'
    BY <1>1, <1>6 DEF PageFits, Finished
  <2>. QED
    BY <1>1, <1>2, <1>3, <1>4, <1>6, <2>1 DEF GoodLoad
<1>7. ASSUME load' = load, mem'.crossed \/ load = NoTask \/ mem'.of = 0
      PROVE  GoodLoad'
  <2>1. owner \in Nat
    BY DEF TypeInv, ServerType
  <2>. QED
    BY <1>1, <1>3, <1>4, <1>7, <2>1 DEF GoodLoad
<1>8. CASE \/ mem' = Cleared /\ load' = load
           \/ /\ refresh.pc = "answered" /\ refresh.answer.kind = "snapshot"
              /\ mem' = Applied(refresh.answer) /\ load' = load
           \/ /\ restore # NoFile /\ load' = load
              /\ mem' = [restore EXCEPT !.crossed = @ \/ load # NoTask]
  <2>1. CASE mem' = Cleared /\ load' = load
    <3>1. mem'.of = 0
      BY <2>1 DEF Cleared, Empty
    <3>. QED
      BY <1>7, <2>1, <3>1
  <2>2. CASE mem' = Applied(refresh.answer) /\ load' = load
    <3>1. mem'.crossed = (load # NoTask)
      BY <2>2 DEF Applied
    <3>. QED
      BY <1>7, <2>2, <3>1
  <2>3. CASE /\ restore # NoFile /\ load' = load
             /\ mem' = [restore EXCEPT !.crossed = @ \/ load # NoTask]
    <3>1. restore \in Copies
      BY <2>3 DEF TypeInv, AppType, FileType, CopyType
    <3>2. mem'.crossed = (restore.crossed \/ load # NoTask)
      BY <2>3, <3>1 DEF Copies
    <3>. QED
      BY <1>7, <2>3, <3>2
  <2>. QED
    BY <1>8, <2>1, <2>2, <2>3
<1>9. CASE /\ load.pc = "answered" /\ load.answer.more /\ mem' = WithPage
           /\ load' = [pc |-> "asked", older |-> load.answer.older, left |-> load.left,
                       seen |-> load.seen, of |-> load.of]
  <2>1. load'.pc = "asked" /\ load'.older = load.answer.older /\ load'.of = load.of
    BY <1>9
  <2>2. ~WithPage.crossed /\ WithPage.of = owner /\ owner # 0 =>
           /\ load.of = owner
           /\ WithPage.cursor = revision =>
                 load.answer.older > 0 /\ Covers(WithPage.runs, TRUE, load.answer.older)
    BY <1>9, GoodWithPage
  <2>. QED
    BY <1>1, <1>2, <1>9, <2>1, <2>2 DEF GoodLoad
<1>10. CASE mem' = mem /\ BeginLoad
  <2>1. /\ load'.pc = "asked" /\ load'.older = mem.older /\ load'.of = owner /\ mem.more
    BY <1>10 DEF BeginLoad, TypeInv, ServerType
  <2>2. GoodCopy(mem)
    BY DEF SyncInv
  <2>3. mem.of = owner /\ owner # 0 /\ ~mem.crossed /\ mem.cursor = revision =>
           mem.older > 0 /\ Covers(mem.runs, TRUE, mem.older)
    BY <2>1, <2>2 DEF GoodCopy, Covers
  <2>. QED
    BY <1>1, <1>2, <1>10, <2>1, <2>3 DEF GoodLoad
<1>11. CASE mem' = mem /\ AnswerLoad
  <2>1. load.pc = "asked" /\ load'.pc = "answered" /\ load'.of = owner /\ load # NoTask
    BY <1>11 DEF AnswerLoad, NoTask
  <2>2. /\ owner = 1 => NotAhead(load'.answer.runs)
        /\ load'.answer.more => load'.answer.older > 0
        /\ load.older > 0 /\ Covers(mem.runs, TRUE, load.older) => PageFits(load'.answer)
    BY <1>11, PageAnswers
  <2>3. \A page : PageFits(page) => PageFits(page)'
    BY <1>1, <1>11 DEF PageFits, Finished
  <2>4. owner' = 1 => NotAhead(load.answer.runs)'
    BY <1>1, <1>3, <2>2 DEF NotAhead, NotAheadAt
  <2>5. ~mem.crossed /\ mem.of = owner /\ owner # 0 /\ mem.cursor = revision =>
           PageFits(load'.answer)
    BY <1>4, <2>1, <2>2 DEF GoodLoad
  <2>6. PageFits(load'.answer) => PageFits(load.answer)'
    BY <1>1, <1>11 DEF PageFits, Finished
  <2>. QED
    BY <1>1, <1>11, <2>1, <2>2, <2>4, <2>5, <2>6 DEF GoodLoad
<1>. QED
  BY <1>1, <1>5, <1>6, <1>8, <1>9, <1>10, <1>11 DEF CopyMoves

LEMMA StepSync ==
    ASSUME TypeInv, SyncInv, [Next]_vars
    PROVE  SyncInv'
<1>1. CASE \/ \E r \in Runs : ChangeRun(r) \/ RetireRun(r)
           \/ \E m \in Machines : ChangeMachine(m)
  BY <1>1, SyncServer
<1>2. CASE Bootstrap \/ Reset
  BY <1>2, SyncIdentity
<1>3. CASE AppStep
  <2>1. UNCHANGED <<serverVars, identityVars>>
    BY <1>3, AppStepQuiet
  <2>2. FirstRuns'
    BY <2>1 DEF serverVars, SyncInv, FirstRuns
  <2>3. Untouched'
    <3>1. SUFFICES ASSUME born = 0
                   PROVE  /\ mem'.runs = [r \in Runs |-> NoRun] /\ refresh' = NoTask
                          /\ load' = NoTask /\ cache' = NoFile /\ restore' = NoFile
      BY <2>1 DEF identityVars, Untouched
    <3>2. /\ mem.runs = [r \in Runs |-> NoRun] /\ refresh = NoTask /\ load = NoTask
          /\ cache = NoFile /\ restore = NoFile /\ identity = 0
      BY <3>1 DEF SyncInv, Untouched, TypeInv, ServerType
    <3>3. CASE ClearCache \/ Kill \/ Launch
      BY <3>2, <3>3 DEF ClearCache, Kill, Launch, Cleared, Empty, tasks
    <3>. QED
      BY <1>3, <3>2, <3>3
         DEF AppStep, BeginRefresh, AnswerRefresh, EndRefresh, FailRefresh, BeginLoad, AnswerLoad,
             EndPage, FailLoad, RestoreCache, NoTask
  <2>. QED
    BY <1>3, <2>2, <2>3, AppStepGood, AppStepLoad, SyncAnswers DEF SyncInv
<1>4. CASE UNCHANGED vars
  BY <1>4
     DEF vars, serverVars, identityVars, tasks, SyncInv, GoodFile, GoodCopy, GoodRefresh,
         GoodSnapshot, GoodLoad, PageFits, FirstRuns, Untouched, NotAhead, NotAheadAt,
         NewestAgree, Newest, FinishedBefore, Finished, Covers
<1>. QED
  BY <1>1, <1>2, <1>3, <1>4, Actions DEF AppStep

LEMMA InitSync == Init => SyncInv
<1>. SUFFICES ASSUME Init PROVE SyncInv
  OBVIOUS
<1>1. GoodCopy(mem)
  BY GoodEmpty DEF Init
<1>2. mem.runs = [r \in Runs |-> NoRun]
  BY DEF Init, Empty
<1>. QED
  BY <1>1, <1>2 DEF Init, SyncInv, GoodFile, GoodRefresh, GoodLoad, FirstRuns, Untouched, NoTask

\* A cursor the server would answer with "not modified" belongs to a copy that
\* shows what the server has, whatever was lost, late, merged or restored.
THEOREM CursorIsCurrent == Spec => []CursorMeansCurrent
<1>1. TypeInv /\ SyncInv => CursorMeansCurrent
  <2>. SUFFICES ASSUME TypeInv, SyncInv, UpToDate
                PROVE  mem.machines = machines /\ NewestAgree(mem.runs)
    BY DEF CursorMeansCurrent, NewestAgree
  <2>1. GoodCopy(mem) /\ mem.of = owner /\ owner # 0 /\ mem.cursor = revision
    BY DEF SyncInv, UpToDate, TypeInv, ServerType
  <2>. QED
    BY <2>1 DEF GoodCopy
<1>. QED
  BY <1>1, InitType, StepType, InitSync, StepSync, PTL DEF Spec

\* ... and "load more" comes to every Run it does not show.
THEOREM HistoryIsComplete == Spec => []HistoryHasNoGap
<1>1. TypeInv /\ SyncInv => HistoryHasNoGap
  <2>. SUFFICES ASSUME TypeInv, SyncInv, UpToDate, ~mem.crossed,
                       NEW r \in Runs, Finished(r, run)
                PROVE  Known(r, mem.runs) \/ (mem.more /\ run[r].at < mem.older)
    BY DEF HistoryHasNoGap
  <2>1. GoodCopy(mem) /\ mem.of = owner /\ owner # 0 /\ mem.cursor = revision
    BY DEF SyncInv, UpToDate, TypeInv, ServerType
  <2>2. Covers(mem.runs, mem.more, mem.older)
    BY <2>1 DEF GoodCopy
  <2>3. run[r].seq > 0
    BY DEF TypeInv, ServerType, RunType, Finished
  <2>. QED
    BY <2>2, <2>3 DEF Covers, Known
<1>. QED
  BY <1>1, InitType, StepType, InitSync, StepSync, PTL DEF Spec
=============================================================================
