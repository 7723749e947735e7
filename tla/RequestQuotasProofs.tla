------------------------ MODULE RequestQuotasProofs -------------------------
(***************************************************************************)
(* The limits of RequestQuotas hold for any number of callers, Runs and    *)
(* keys and for any limits.  A count is only as good as the lock it is     *)
(* taken under: the invariant says who holds the lock row, the bucket and  *)
(* a Run, and what the holder has found.                                   *)
(***************************************************************************)
EXTENDS RequestQuotas, FiniteSetTheorems, TLAPS

Request == [op : {"none", "upsert", "notify", "finish"},
            at : {"idle", "begun", "locking", "holding", "counted", "charged"},
            run : Runs \union {None}, key : Keys \union Runs \union {None},
            terminal : BOOLEAN]

\* What a transaction has got from its request when it has come so far.
RequestShape ==
    \A c \in Callers :
        /\ req[c].at \in {"locking", "holding", "counted"} => req[c].op = "upsert"
        /\ req[c].at = "charged" => req[c].op \in {"notify", "finish"}
        /\ req[c].op \in {"upsert", "finish"} => req[c].run \in Runs
        /\ req[c].op \in {"notify", "finish"} => req[c].key \in Keys \union Runs

\* TypeOK but for the bound of the bucket.
TypeInv ==
    /\ run \in [Runs -> {"none", "active", "terminal"}]
    /\ lockRow \in {"none", "fresh", "stale"}
    /\ bucket \in Nat
    /\ notes \subseteq Keys \union Runs
    /\ req \in [Callers -> Request]
    /\ RequestShape

\* The lock row is held by one transaction, and not without being there.
LockIsExclusive ==
    /\ \A c, d \in LockHolders : c = d
    /\ lockRow = "none" => LockHolders = {}

\* A Run that is being finished is active, and one transaction finishes it.
FinishIsExclusive ==
    \A c \in Callers : req[c].op = "finish" =>
        /\ run[req[c].run] = "active"
        /\ \A d \in Callers : req[d].op = "finish" /\ req[d].run = req[c].run => d = c

\* What the holder of the lock has counted is still so.
CountIsCurrent ==
    \A c \in Callers : req[c].at = "counted" => Admitted(req[c].run, req[c].terminal)

RunInv == TypeInv /\ LockIsExclusive /\ FinishIsExclusive /\ CountIsCurrent /\ ActiveBounded

\* The bucket is held by one transaction, and has room for it.
ChargeIsExclusive ==
    /\ \A c, d \in BucketHolders : c = d
    /\ BucketHolders # {} => bucket < MaxPerDay

NoteInv ==
    /\ TypeInv /\ ChargeIsExclusive
    /\ bucket <= MaxPerDay /\ IsFiniteSet(notes) /\ BucketCountsNotes

----------------------------------------------------------------------------
(* The actions, and what they do with the transactions.                    *)

\* The actions of Next, with their parameters.
LEMMA Actions ==
    ASSUME Next
    PROVE  \/ \E c \in Callers : Rollback(c)
           \/ \E c \in Callers, r \in Runs, terminal \in BOOLEAN : BeginUpsert(c, r, terminal)
           \/ \E c \in Callers : InsertLock(c)
           \/ \E c \in Callers : SelectLock(c)
           \/ \E c \in Callers : Count(c)
           \/ \E c \in Callers : CreateRun(c)
           \/ \E c \in Callers, k \in Keys, r \in Runs \union {None} : BeginNotify(c, k, r)
           \/ \E c \in Callers, r \in Runs : BeginFinish(c, r)
           \/ \E c \in Callers : Charge(c)
           \/ \E c \in Callers : RefuseNotify(c)
           \/ \E c \in Callers : FinishWithout(c)
           \/ \E c \in Callers : Insert(c)
           \/ AgeLock \/ CleanLock
  BY Zenon DEF Next

\* A step of one transaction changes where it is, and nothing about the others.
LEMMA MoveFacts ==
    ASSUME req \in [Callers -> Request], NEW c \in Callers,
           NEW at \in {"begun", "locking", "holding", "counted", "charged"}, Step(c, at)
    PROVE  /\ req' \in [Callers -> Request]
           /\ \A d \in Callers : d # c => req'[d] = req[d]
           /\ req'[c].at = at
           /\ req'[c].op = req[c].op /\ req'[c].run = req[c].run
           /\ req'[c].key = req[c].key /\ req'[c].terminal = req[c].terminal
<1> DEFINE new == [req[c] EXCEPT !.at = at]
<1>1. new \in Request /\ new.at = at /\ new.op = req[c].op /\ new.run = req[c].run
      /\ new.key = req[c].key /\ new.terminal = req[c].terminal
  BY DEF Request
<1>2. req' = [req EXCEPT ![c] = new]
  BY Zenon DEF Step
<1>. HIDE DEF new
<1>. QED
  BY <1>1, <1>2

\* The end of one leaves none of it.
LEMMA EndFacts ==
    ASSUME req \in [Callers -> Request], NEW c \in Callers, End(c)
    PROVE  /\ req' \in [Callers -> Request]
           /\ \A d \in Callers : d # c => req'[d] = req[d]
           /\ req'[c].at = "idle" /\ req'[c].op = "none"
  BY DEF End, NoRequest, Request

\* The begin of one.
LEMMA StartFacts ==
    ASSUME req \in [Callers -> Request], NEW c \in Callers, NEW new \in Request, Start(c, new)
    PROVE  /\ req' \in [Callers -> Request]
           /\ \A d \in Callers : d # c => req'[d] = req[d]
           /\ req'[c] = new
           /\ req[c].at = "idle" /\ req[c].op = "none"
  BY DEF Start, NoRequest

\* What a webhook or a CLI begins.
LEMMA BeginUpsertFacts ==
    ASSUME req \in [Callers -> Request], NEW c \in Callers, NEW r \in Runs,
           NEW terminal \in BOOLEAN, BeginUpsert(c, r, terminal)
    PROVE  /\ req' \in [Callers -> Request]
           /\ \A d \in Callers : d # c => req'[d] = req[d]
           /\ req'[c].op = "upsert" /\ req'[c].at = "begun" /\ req'[c].run = r
<1> DEFINE new == [NoRequest EXCEPT !.op = "upsert", !.at = "begun", !.run = r,
                                    !.terminal = terminal]
<1>1. new \in Request /\ new.op = "upsert" /\ new.at = "begun" /\ new.run = r
  BY DEF NoRequest, Request
<1>2. Start(c, new)
  BY Zenon DEF BeginUpsert
<1>. HIDE DEF new
<1>. QED
  BY <1>1, <1>2, StartFacts

\* What a request for a notification begins.
LEMMA BeginNotifyFacts ==
    ASSUME req \in [Callers -> Request], NEW c \in Callers, NEW k \in Keys,
           NEW r \in Runs \union {None}, BeginNotify(c, k, r)
    PROVE  /\ req' \in [Callers -> Request]
           /\ \A d \in Callers : d # c => req'[d] = req[d]
           /\ req'[c].op = "notify" /\ req'[c].at = "begun" /\ req'[c].key = k
<1> DEFINE new == [NoRequest EXCEPT !.op = "notify", !.at = "begun", !.key = k, !.run = r]
<1>1. new \in Request /\ new.op = "notify" /\ new.at = "begun" /\ new.key = k
  BY DEF NoRequest, Request
<1>2. Start(c, new)
  BY Zenon DEF BeginNotify
<1>. HIDE DEF new
<1>. QED
  BY <1>1, <1>2, StartFacts

\* What the terminal event of a Run begins.
LEMMA BeginFinishFacts ==
    ASSUME req \in [Callers -> Request], NEW c \in Callers, NEW r \in Runs, BeginFinish(c, r)
    PROVE  /\ req' \in [Callers -> Request]
           /\ \A d \in Callers : d # c => req'[d] = req[d]
           /\ req'[c].op = "finish" /\ req'[c].at = "begun"
           /\ req'[c].run = r /\ req'[c].key = r
<1> DEFINE new == [NoRequest EXCEPT !.op = "finish", !.at = "begun", !.key = r, !.run = r]
<1>1. new \in Request /\ new.op = "finish" /\ new.at = "begun" /\ new.run = r /\ new.key = r
  BY DEF NoRequest, Request
<1>2. Start(c, new)
  BY Zenon DEF BeginFinish
<1>. HIDE DEF new
<1>. QED
  BY <1>1, <1>2, StartFacts

----------------------------------------------------------------------------
(* Types.                                                                  *)

\* The first state has the types.
LEMMA InitType == Init => TypeInv
  BY DEF Init, TypeInv, NoRequest, Request, RequestShape

\* Every step keeps them.
LEMMA StepType ==
    ASSUME TypeInv, [Next]_vars
    PROVE  TypeInv'
<1>. USE DEF TypeInv
<1>1. CASE \E c \in Callers : Rollback(c)
  BY <1>1, EndFacts DEF Rollback, RequestShape
<1>2. CASE \E c \in Callers, r \in Runs, terminal \in BOOLEAN : BeginUpsert(c, r, terminal)
  <2>1. PICK c \in Callers, r \in Runs, terminal \in BOOLEAN : BeginUpsert(c, r, terminal)
    BY <1>2
  <2>2. UNCHANGED <<run, lockRow, bucket, notes>>
    BY <2>1 DEF BeginUpsert
  <2>. QED
    BY <2>1, <2>2, BeginUpsertFacts DEF RequestShape
<1>3. CASE \E c \in Callers : InsertLock(c)
  BY <1>3, MoveFacts DEF InsertLock, RequestShape
<1>4. CASE \E c \in Callers : SelectLock(c)
  BY <1>4, MoveFacts, EndFacts DEF SelectLock, RequestShape
<1>5. CASE \E c \in Callers : Count(c)
  BY <1>5, MoveFacts, EndFacts DEF Count, RequestShape
<1>6. CASE \E c \in Callers : CreateRun(c)
  BY <1>6, EndFacts DEF CreateRun, RequestShape
<1>7. CASE \E c \in Callers, k \in Keys, r \in Runs \union {None} : BeginNotify(c, k, r)
  <2>1. PICK c \in Callers, k \in Keys, r \in Runs \union {None} : BeginNotify(c, k, r)
    BY <1>7
  <2>2. UNCHANGED <<run, lockRow, bucket, notes>>
    BY <2>1 DEF BeginNotify
  <2>. QED
    BY <2>1, <2>2, BeginNotifyFacts DEF RequestShape
<1>8. CASE \E c \in Callers, r \in Runs : BeginFinish(c, r)
  <2>1. PICK c \in Callers, r \in Runs : BeginFinish(c, r)
    BY <1>8
  <2>2. UNCHANGED <<run, lockRow, bucket, notes>>
    BY <2>1 DEF BeginFinish
  <2>. QED
    BY <2>1, <2>2, BeginFinishFacts DEF RequestShape
<1>9. CASE \E c \in Callers : Charge(c)
  BY <1>9, MoveFacts DEF Charge, Charged, RequestShape
<1>10. CASE \E c \in Callers : RefuseNotify(c)
  BY <1>10, EndFacts DEF RefuseNotify, RequestShape
<1>11. CASE \E c \in Callers : FinishWithout(c)
  BY <1>11, EndFacts DEF FinishWithout, RequestShape
<1>12. CASE \E c \in Callers : Insert(c)
  <2>1. PICK c \in Callers : Insert(c)
    BY <1>12
  <2>2. /\ run' \in [Runs -> {"none", "active", "terminal"}]
        /\ bucket' \in Nat /\ notes' \subseteq Keys \union Runs
    BY <2>1 DEF Insert, RequestShape
  <2>3. UNCHANGED lockRow /\ End(c)
    BY <2>1 DEF Insert
  <2>. QED
    BY <2>2, <2>3, EndFacts DEF RequestShape
<1>13. CASE AgeLock
  BY <1>13 DEF AgeLock, RequestShape
<1>14. CASE CleanLock
  BY <1>14 DEF CleanLock, RequestShape
<1>15. CASE UNCHANGED vars
  BY <1>15 DEF vars, RequestShape
<1>. QED
  BY <1>1, <1>2, <1>3, <1>4, <1>5, <1>6, <1>7, <1>8, <1>9, <1>10, <1>11, <1>12, <1>13,
     <1>14, <1>15, Actions

----------------------------------------------------------------------------
(* Who holds what.                                                         *)

\* The lock row is given to one at a time, and not deleted while it is held.
LEMMA StepLock ==
    ASSUME TypeInv, LockIsExclusive, [Next]_vars
    PROVE  LockIsExclusive'
<1>. USE DEF LockIsExclusive, LockHolders, RequestShape
<1>. req \in [Callers -> Request] /\ RequestShape
  BY DEF TypeInv
<1>1. CASE \E c \in Callers : Rollback(c)
  BY <1>1, EndFacts DEF Rollback
<1>2. CASE \E c \in Callers, r \in Runs, terminal \in BOOLEAN : BeginUpsert(c, r, terminal)
  <2>1. PICK c \in Callers, r \in Runs, terminal \in BOOLEAN : BeginUpsert(c, r, terminal)
    BY <1>2
  <2>2. UNCHANGED <<run, lockRow, bucket, notes>>
    BY <2>1 DEF BeginUpsert
  <2>. QED
    BY <2>1, <2>2, BeginUpsertFacts
<1>3. CASE \E c \in Callers : InsertLock(c)
  BY <1>3, MoveFacts DEF InsertLock
<1>4. CASE \E c \in Callers : SelectLock(c)
  BY <1>4, MoveFacts, EndFacts DEF SelectLock, LockFree
<1>5. CASE \E c \in Callers : Count(c)
  BY <1>5, MoveFacts, EndFacts DEF Count
<1>6. CASE \E c \in Callers : CreateRun(c)
  BY <1>6, EndFacts DEF CreateRun
<1>7. CASE \E c \in Callers, k \in Keys, r \in Runs \union {None} : BeginNotify(c, k, r)
  <2>1. PICK c \in Callers, k \in Keys, r \in Runs \union {None} : BeginNotify(c, k, r)
    BY <1>7
  <2>2. UNCHANGED <<run, lockRow, bucket, notes>>
    BY <2>1 DEF BeginNotify
  <2>. QED
    BY <2>1, <2>2, BeginNotifyFacts
<1>8. CASE \E c \in Callers, r \in Runs : BeginFinish(c, r)
  <2>1. PICK c \in Callers, r \in Runs : BeginFinish(c, r)
    BY <1>8
  <2>2. UNCHANGED <<run, lockRow, bucket, notes>>
    BY <2>1 DEF BeginFinish
  <2>. QED
    BY <2>1, <2>2, BeginFinishFacts
<1>9. CASE \E c \in Callers : Charge(c)
  BY <1>9, MoveFacts DEF Charge
<1>10. CASE \E c \in Callers : RefuseNotify(c)
  BY <1>10, EndFacts DEF RefuseNotify
<1>11. CASE \E c \in Callers : FinishWithout(c)
  BY <1>11, EndFacts DEF FinishWithout
<1>12. CASE \E c \in Callers : Insert(c)
  BY <1>12, EndFacts DEF Insert
<1>13. CASE AgeLock
  BY <1>13 DEF AgeLock
<1>14. CASE CleanLock
  BY <1>14 DEF CleanLock, Deletable
<1>15. CASE UNCHANGED vars
  BY <1>15 DEF vars
<1>. QED
  BY <1>1, <1>2, <1>3, <1>4, <1>5, <1>6, <1>7, <1>8, <1>9, <1>10, <1>11, <1>12, <1>13,
     <1>14, <1>15, Actions

\* A Run is finished once.
LEMMA StepFinish ==
    ASSUME TypeInv, LockIsExclusive, FinishIsExclusive, CountIsCurrent, [Next]_vars
    PROVE  FinishIsExclusive'
<1>. USE DEF FinishIsExclusive, RequestShape, TypeInv
<1>. req \in [Callers -> Request] /\ RequestShape
  BY DEF TypeInv
<1>1. CASE \E c \in Callers : Rollback(c)
  BY <1>1, EndFacts DEF Rollback
<1>2. CASE \E c \in Callers, r \in Runs, terminal \in BOOLEAN : BeginUpsert(c, r, terminal)
  <2>1. PICK c \in Callers, r \in Runs, terminal \in BOOLEAN : BeginUpsert(c, r, terminal)
    BY <1>2
  <2>2. UNCHANGED <<run, lockRow, bucket, notes>>
    BY <2>1 DEF BeginUpsert
  <2>. QED
    BY <2>1, <2>2, BeginUpsertFacts
<1>3. CASE \E c \in Callers : InsertLock(c)
  BY <1>3, MoveFacts DEF InsertLock
<1>4. CASE \E c \in Callers : SelectLock(c)
  BY <1>4, MoveFacts, EndFacts DEF SelectLock
<1>5. CASE \E c \in Callers : Count(c)
  BY <1>5, MoveFacts, EndFacts DEF Count
<1>6. CASE \E c \in Callers : CreateRun(c)
  BY <1>6, EndFacts DEF CreateRun, CountIsCurrent, Admitted
<1>7. CASE \E c \in Callers, k \in Keys, r \in Runs \union {None} : BeginNotify(c, k, r)
  <2>1. PICK c \in Callers, k \in Keys, r \in Runs \union {None} : BeginNotify(c, k, r)
    BY <1>7
  <2>2. UNCHANGED <<run, lockRow, bucket, notes>>
    BY <2>1 DEF BeginNotify
  <2>. QED
    BY <2>1, <2>2, BeginNotifyFacts
<1>8. CASE \E c \in Callers, r \in Runs : BeginFinish(c, r)
  <2>1. PICK c \in Callers, r \in Runs : BeginFinish(c, r)
    BY <1>8
  <2>2. UNCHANGED <<run, lockRow, bucket, notes>>
    BY <2>1 DEF BeginFinish
  <2>3. run[r] = "active" /\ \A d \in Callers : ~(req[d].op = "finish" /\ req[d].run = r)
    BY <2>1 DEF BeginFinish, RunHeld
  <2>. QED
    BY <2>1, <2>2, <2>3, BeginFinishFacts
<1>9. CASE \E c \in Callers : Charge(c)
  BY <1>9, MoveFacts DEF Charge
<1>10. CASE \E c \in Callers : RefuseNotify(c)
  BY <1>10, EndFacts DEF RefuseNotify
<1>11. CASE \E c \in Callers : FinishWithout(c)
  BY <1>11, EndFacts DEF FinishWithout
<1>12. CASE \E c \in Callers : Insert(c)
  BY <1>12, EndFacts DEF Insert
<1>13. CASE AgeLock
  BY <1>13 DEF AgeLock
<1>14. CASE CleanLock
  BY <1>14 DEF CleanLock
<1>15. CASE UNCHANGED vars
  BY <1>15 DEF vars
<1>. QED
  BY <1>1, <1>2, <1>3, <1>4, <1>5, <1>6, <1>7, <1>8, <1>9, <1>10, <1>11, <1>12, <1>13,
     <1>14, <1>15, Actions

----------------------------------------------------------------------------
(* The active Runs.                                                        *)

\* They can be counted.
LEMMA ActiveIsFinite == IsFiniteSet(Active) /\ Cardinality(Active) \in Nat
  BY RunsAreFinite, FS_Subset, FS_CardinalityType DEF Active

\* They are as many when no Run changes.
LEMMA SameActive ==
    ASSUME run' = run
    PROVE  \A r, t : Admitted(r, t) <=> Admitted(r, t)'
<1>1. Active' = Active
  BY DEF Active
<1>. QED
  BY <1>1 DEF Admitted

\* When a Run ends there are not more, and no limit or new Run is affected.
LEMMA EndOfRun ==
    ASSUME TypeInv, NEW s \in Runs, run[s] = "active", run' = [run EXCEPT ![s] = "terminal"]
    PROVE  /\ Cardinality(Active') <= Cardinality(Active)
           /\ Cardinality(Active') \in Nat
           /\ \A r \in Runs, t \in BOOLEAN :
                  Admitted(r, t) => run'[r] = "none" /\ (t \/ Cardinality(Active') < MaxActive)
<1>1. Active' \subseteq Active
  BY DEF Active, TypeInv
<1>2. Cardinality(Active') <= Cardinality(Active) /\ Cardinality(Active') \in Nat
  BY <1>1, ActiveIsFinite, FS_Subset, FS_CardinalityType
<1>3. ASSUME NEW r \in Runs, NEW t \in BOOLEAN, Admitted(r, t)
      PROVE  run'[r] = "none" /\ (t \/ Cardinality(Active') < MaxActive)
  <2>1. run'[r] = "none"
    BY <1>3 DEF Admitted, TypeInv
  <2>2. t \/ Cardinality(Active') < MaxActive
    BY <1>2, <1>3, ActiveIsFinite, LimitsArePositive DEF Admitted
  <2>. QED
    BY <2>1, <2>2
<1>. QED
  BY <1>2, <1>3

\* When an admitted one is created there is one more at most, and room for it.
LEMMA NewRun ==
    ASSUME TypeInv, ActiveBounded, NEW s \in Runs, NEW terminal \in BOOLEAN, Admitted(s, terminal),
           run' = [run EXCEPT ![s] = IF terminal THEN "terminal" ELSE "active"]
    PROVE  ActiveBounded'
<1>1. CASE terminal
  <2>1. Active' = Active
    BY <1>1 DEF Active, TypeInv, Admitted
  <2>. QED
    BY <2>1 DEF ActiveBounded
<1>2. CASE ~terminal
  <2>1. Active' = Active \union {s} /\ s \notin Active
    BY <1>2 DEF Active, TypeInv, Admitted
  <2>2. Cardinality(Active') = Cardinality(Active) + 1
    BY <2>1, ActiveIsFinite, FS_AddElement
  <2>. QED
    BY <1>2, <2>2, ActiveIsFinite, LimitsArePositive DEF ActiveBounded, Admitted
<1>. QED
  BY <1>1, <1>2

\* Whoever has counted holds the lock, so nobody else creates a Run; what
\* others do to Runs leaves the count as good as it was.
LEMMA StepCount ==
    ASSUME RunInv, [Next]_vars
    PROVE  CountIsCurrent' /\ ActiveBounded'
<1>. TypeInv /\ req \in [Callers -> Request] /\ RequestShape
  BY DEF RunInv, TypeInv
<1>. USE DEF RunInv
<1>1. ASSUME run' = run,
             \A c \in Callers : req'[c].at = "counted" =>
                 \/ req[c].at = "counted" /\ req'[c].run = req[c].run
                                          /\ req'[c].terminal = req[c].terminal
                 \/ Admitted(req[c].run, req[c].terminal)'
      PROVE  CountIsCurrent' /\ ActiveBounded'
  <2>1. CountIsCurrent'
    BY <1>1, SameActive DEF CountIsCurrent
  <2>2. Active' = Active
    BY <1>1 DEF Active
  <2>. QED
    BY <2>1, <2>2 DEF ActiveBounded
<1>2. ASSUME NEW c \in Callers, req[c].op = "finish", End(c),
             run' = [run EXCEPT ![req[c].run] = "terminal"]
      PROVE  CountIsCurrent' /\ ActiveBounded'
  <2>1. req[c].run \in Runs /\ run[req[c].run] = "active"
    BY <1>2 DEF RequestShape, FinishIsExclusive
  <2>2. ASSUME NEW d \in Callers, req'[d].at = "counted"
        PROVE  Admitted(req[d].run, req[d].terminal)'
    <3>1. req'[d] = req[d] /\ req[d].at = "counted"
      BY <1>2, <2>2, EndFacts
    <3>2. req[d].run \in Runs /\ req[d].terminal \in BOOLEAN
      BY <3>1 DEF RequestShape, Request
    <3>3. Admitted(req[d].run, req[d].terminal)
      BY <3>1 DEF CountIsCurrent
    <3>4. /\ run'[req[d].run] = "none"
          /\ req[d].terminal \/ Cardinality(Active') < MaxActive
      BY <1>2, <2>1, <3>2, <3>3, EndOfRun
    <3>. QED
      BY <3>1, <3>4 DEF Admitted
  <2>3. CountIsCurrent'
    BY <2>2 DEF CountIsCurrent
  <2>4. Cardinality(Active') <= Cardinality(Active) /\ Cardinality(Active') \in Nat
    BY <1>2, <2>1, EndOfRun
  <2>5. ActiveBounded'
    BY <2>4, ActiveIsFinite, LimitsArePositive DEF ActiveBounded
  <2>. QED
    BY <2>3, <2>5
<1>3. CASE \E c \in Callers : CreateRun(c)
  <2>1. PICK c \in Callers : CreateRun(c)
    BY <1>3
  <2>2. req[c].run \in Runs /\ req[c].terminal \in BOOLEAN /\ Admitted(req[c].run, req[c].terminal)
    BY <2>1 DEF CreateRun, RequestShape, Request, CountIsCurrent
  <2>3. ActiveBounded'
    BY <2>1, <2>2, NewRun DEF CreateRun
  <2>4. \A d \in Callers : req'[d].at # "counted"
    BY <2>1, EndFacts DEF CreateRun, LockIsExclusive, LockHolders
  <2>. QED
    BY <2>3, <2>4 DEF CountIsCurrent
<1>4. CASE \E c \in Callers : Count(c)
  <2>1. PICK c \in Callers : Count(c)
    BY <1>4
  <2>2. run' = run
    BY <2>1 DEF Count
  <2>3. CASE Admitted(req[c].run, req[c].terminal)
    <3>1. Step(c, "counted")
      BY <2>1, <2>3 DEF Count
    <3>2. Admitted(req[c].run, req[c].terminal)'
      BY <2>2, <2>3, <3>1, MoveFacts, SameActive
    <3>. QED
      BY <1>1, <2>2, <3>1, <3>2, MoveFacts
  <2>4. CASE ~Admitted(req[c].run, req[c].terminal)
    BY <1>1, <2>1, <2>2, <2>4, EndFacts DEF Count
  <2>. QED
    BY <2>3, <2>4
<1>5. CASE \E c \in Callers : FinishWithout(c)
  BY <1>2, <1>5 DEF FinishWithout
<1>6. CASE \E c \in Callers : Insert(c)
  <2>1. PICK c \in Callers : Insert(c)
    BY <1>6
  <2>2. CASE run' = run
    BY <1>1, <2>1, <2>2, EndFacts DEF Insert
  <2>3. CASE run' # run
    BY <1>2, <2>1, <2>3 DEF Insert
  <2>. QED
    BY <2>2, <2>3
<1>7. CASE \E c \in Callers : Rollback(c)
  BY <1>1, <1>7, EndFacts DEF Rollback
<1>8. CASE \E c \in Callers, r \in Runs, terminal \in BOOLEAN : BeginUpsert(c, r, terminal)
  <2>1. PICK c \in Callers, r \in Runs, terminal \in BOOLEAN : BeginUpsert(c, r, terminal)
    BY <1>8
  <2>2. run' = run
    BY <2>1 DEF BeginUpsert
  <2>. QED
    BY <1>1, <2>1, <2>2, BeginUpsertFacts
<1>9. CASE \E c \in Callers : InsertLock(c)
  BY <1>1, <1>9, MoveFacts DEF InsertLock
<1>10. CASE \E c \in Callers : SelectLock(c)
  BY <1>1, <1>10, MoveFacts, EndFacts DEF SelectLock
<1>11. CASE \E c \in Callers, k \in Keys, r \in Runs \union {None} : BeginNotify(c, k, r)
  <2>1. PICK c \in Callers, k \in Keys, r \in Runs \union {None} : BeginNotify(c, k, r)
    BY <1>11
  <2>2. run' = run
    BY <2>1 DEF BeginNotify
  <2>. QED
    BY <1>1, <2>1, <2>2, BeginNotifyFacts
<1>12. CASE \E c \in Callers, r \in Runs : BeginFinish(c, r)
  <2>1. PICK c \in Callers, r \in Runs : BeginFinish(c, r)
    BY <1>12
  <2>2. run' = run
    BY <2>1 DEF BeginFinish
  <2>. QED
    BY <1>1, <2>1, <2>2, BeginFinishFacts
<1>13. CASE \E c \in Callers : Charge(c)
  BY <1>1, <1>13, MoveFacts DEF Charge
<1>14. CASE \E c \in Callers : RefuseNotify(c)
  BY <1>1, <1>14, EndFacts DEF RefuseNotify
<1>15. CASE AgeLock \/ CleanLock \/ UNCHANGED vars
  BY <1>1, <1>15 DEF AgeLock, CleanLock, vars
<1>. QED
  BY <1>3, <1>4, <1>5, <1>6, <1>7, <1>8, <1>9, <1>10, <1>11, <1>12, <1>13, <1>14, <1>15, Actions

\* The first state has no Run and no transaction.
LEMMA InitRun == Init => RunInv
<1>. SUFFICES ASSUME Init PROVE RunInv
  OBVIOUS
<1>1. \A c \in Callers : req[c].at = "idle" /\ req[c].op = "none"
  BY DEF Init, NoRequest
<1>2. LockIsExclusive /\ FinishIsExclusive /\ CountIsCurrent
  BY <1>1 DEF LockIsExclusive, LockHolders, FinishIsExclusive, CountIsCurrent
<1>3. Active = {}
  BY DEF Init, Active
<1>4. ActiveBounded
  BY <1>3, FS_EmptySet, LimitsArePositive DEF ActiveBounded
<1>. QED
  BY <1>2, <1>4, InitType DEF RunInv

\* The invariant of the Runs.
LEMMA RunInvariant == Spec => []RunInv
<1>1. RunInv /\ [Next]_vars => RunInv'
  BY StepType, StepLock, StepFinish, StepCount DEF RunInv
<1>. QED
  BY InitRun, <1>1, PTL DEF Spec

\* No machine ever has more active Runs than its limit, whatever the number of
\* callers and the limit (acquire_quota_lock before the count).
THEOREM ActiveRunsAreBounded == Spec => []ActiveBounded
<1>1. RunInv => ActiveBounded
  BY DEF RunInv
<1>. QED
  BY <1>1, RunInvariant, PTL

\* A registration that was admitted meets no Run of its name: others that were
\* begun for it see it under the lock.
THEOREM AdmittedRunsAreNew == Spec => []AdmittedIsNew
<1>1. RunInv => AdmittedIsNew
  BY DEF RunInv, CountIsCurrent, Admitted, AdmittedIsNew
<1>. QED
  BY <1>1, RunInvariant, PTL

----------------------------------------------------------------------------
(* The bucket of the day.                                                  *)

\* The bucket is held by one transaction, for which it has room.
LEMMA StepCharge ==
    ASSUME NoteInv, [Next]_vars
    PROVE  ChargeIsExclusive'
<1>. USE DEF ChargeIsExclusive, BucketHolders, RequestShape
<1>. req \in [Callers -> Request] /\ RequestShape /\ ChargeIsExclusive
  BY DEF NoteInv, TypeInv
<1>1. CASE \E c \in Callers : Rollback(c)
  BY <1>1, EndFacts DEF Rollback
<1>2. CASE \E c \in Callers, r \in Runs, terminal \in BOOLEAN : BeginUpsert(c, r, terminal)
  <2>1. PICK c \in Callers, r \in Runs, terminal \in BOOLEAN : BeginUpsert(c, r, terminal)
    BY <1>2
  <2>2. bucket' = bucket
    BY <2>1 DEF BeginUpsert
  <2>. QED
    BY <2>1, <2>2, BeginUpsertFacts
<1>3. CASE \E c \in Callers : InsertLock(c)
  BY <1>3, MoveFacts DEF InsertLock
<1>4. CASE \E c \in Callers : SelectLock(c)
  BY <1>4, MoveFacts, EndFacts DEF SelectLock
<1>5. CASE \E c \in Callers : Count(c)
  BY <1>5, MoveFacts, EndFacts DEF Count
<1>6. CASE \E c \in Callers : CreateRun(c)
  BY <1>6, EndFacts DEF CreateRun
<1>7. CASE \E c \in Callers, k \in Keys, r \in Runs \union {None} : BeginNotify(c, k, r)
  <2>1. PICK c \in Callers, k \in Keys, r \in Runs \union {None} : BeginNotify(c, k, r)
    BY <1>7
  <2>2. bucket' = bucket
    BY <2>1 DEF BeginNotify
  <2>. QED
    BY <2>1, <2>2, BeginNotifyFacts
<1>8. CASE \E c \in Callers, r \in Runs : BeginFinish(c, r)
  <2>1. PICK c \in Callers, r \in Runs : BeginFinish(c, r)
    BY <1>8
  <2>2. bucket' = bucket
    BY <2>1 DEF BeginFinish
  <2>. QED
    BY <2>1, <2>2, BeginFinishFacts
<1>9. CASE \E c \in Callers : Charge(c)
  BY <1>9, MoveFacts DEF Charge, Charged
<1>10. CASE \E c \in Callers : RefuseNotify(c)
  BY <1>10, EndFacts DEF RefuseNotify
<1>11. CASE \E c \in Callers : FinishWithout(c)
  BY <1>11, EndFacts DEF FinishWithout
<1>12. CASE \E c \in Callers : Insert(c)
  BY <1>12, EndFacts DEF Insert
<1>13. CASE AgeLock \/ CleanLock \/ UNCHANGED vars
  BY <1>13 DEF AgeLock, CleanLock, vars
<1>. QED
  BY <1>1, <1>2, <1>3, <1>4, <1>5, <1>6, <1>7, <1>8, <1>9, <1>10, <1>11, <1>12, <1>13, Actions

\* The bucket and the notifications change together, within the limit.
LEMMA StepNotes ==
    ASSUME NoteInv, [Next]_vars
    PROVE  bucket' <= MaxPerDay /\ IsFiniteSet(notes') /\ BucketCountsNotes'
<1>. USE DEF NoteInv, BucketCountsNotes
<1>1. CASE UNCHANGED <<bucket, notes>>
  BY <1>1
<1>2. CASE \E c \in Callers : Insert(c)
  <2>1. PICK c \in Callers : Insert(c)
    BY <1>2
  <2>2. CASE UNCHANGED <<bucket, notes>>
    BY <1>1, <2>2
  <2>3. CASE ~UNCHANGED <<bucket, notes>>
    <3>1. /\ req[c].key \notin notes /\ notes' = notes \union {req[c].key}
          /\ bucket' = bucket + 1 /\ req[c].at = "charged"
      BY <2>1, <2>3 DEF Insert, Unique
    <3>2. c \in BucketHolders /\ bucket < MaxPerDay
      BY <3>1 DEF ChargeIsExclusive, BucketHolders
    <3>. HIDE DEF NoteInv, BucketCountsNotes
    <3>3. IsFiniteSet(notes) /\ bucket = Cardinality(notes) /\ bucket \in Nat
      BY DEF NoteInv, BucketCountsNotes, TypeInv
    <3>4. IsFiniteSet(notes') /\ Cardinality(notes') = Cardinality(notes) + 1
      BY <3>1, <3>3, FS_AddElement
    <3>5. bucket' <= MaxPerDay
      BY <3>1, <3>2, <3>3, LimitsArePositive
    <3>. QED
      BY <3>1, <3>3, <3>4, <3>5 DEF BucketCountsNotes
  <2>. QED
    BY <2>2, <2>3
<1>3. CASE AgeLock \/ CleanLock \/ UNCHANGED vars
  BY <1>1, <1>3 DEF AgeLock, CleanLock, vars
<1>4. ASSUME NEW c \in Callers,
             \/ Rollback(c) \/ InsertLock(c) \/ SelectLock(c) \/ Count(c) \/ CreateRun(c)
             \/ Charge(c) \/ RefuseNotify(c) \/ FinishWithout(c)
             \/ \E r \in Runs, t \in BOOLEAN : BeginUpsert(c, r, t)
             \/ \E r \in Runs : BeginFinish(c, r)
             \/ \E k \in Keys, r \in Runs \union {None} : BeginNotify(c, k, r)
      PROVE  UNCHANGED <<bucket, notes>>
  BY <1>4, Zenon DEF Rollback, InsertLock, SelectLock, Count, CreateRun, Charge, Charged,
     RefuseNotify, FinishWithout, BeginUpsert, BeginFinish, BeginNotify
<1>. QED
  BY <1>1, <1>2, <1>3, <1>4, Actions

\* The first day begins with an empty bucket.
LEMMA InitNotes == Init => NoteInv
<1>1. Init => ChargeIsExclusive
  BY DEF Init, NoRequest, ChargeIsExclusive, BucketHolders
<1>2. Init => bucket <= MaxPerDay /\ IsFiniteSet(notes) /\ BucketCountsNotes
  BY FS_EmptySet, LimitsArePositive DEF Init, BucketCountsNotes
<1>. QED
  BY <1>1, <1>2, InitType DEF NoteInv

\* The invariant of the notifications.
LEMMA NoteInvariant == Spec => []NoteInv
<1>1. NoteInv /\ [Next]_vars => NoteInv'
  BY StepType, StepCharge, StepNotes DEF NoteInv
<1>. QED
  BY InitNotes, <1>1, PTL DEF Spec

\* The variables have their types, and the bucket keeps the limit of the day,
\* although the transactions that ask for a notification overlap.
THEOREM QuotaTypes == Spec => []TypeOK
<1>1. NoteInv => TypeOK
  BY LimitsArePositive DEF NoteInv, TypeInv, TypeOK, Request
<1>. QED
  BY <1>1, NoteInvariant, PTL

\* The bucket of the day is the number of its notifications, whatever repeats,
\* is rolled back or ends without one (create_notification).
THEOREM BucketIsExact == Spec => []BucketCountsNotes
<1>1. NoteInv => BucketCountsNotes
  BY DEF NoteInv
<1>. QED
  BY <1>1, NoteInvariant, PTL
=============================================================================
