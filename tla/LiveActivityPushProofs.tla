----------------------- MODULE LiveActivityPushProofs -----------------------
(***************************************************************************)
(* What holds of the push outbox for any Runs, workers and activities: the *)
(* types (TypeInv), what a row and its worker know of each other (SendInv),*)
(* that a row is sent again only after an answer was lost, that starts come*)
(* before the end, that a failure is shown (NotSilent), and that a         *)
(* notification stands alone (CalmStarts).  With some of the overlaps and  *)
(* faults left out: a Run gets one activity (FewInv), and the end of the   *)
(* Run reaches it (EndInv).                                                *)
(***************************************************************************)
EXTENDS LiveActivityPush, FiniteSetTheorems, TLAPS

----------------------------------------------------------------------------
(* Sequences of rows.                                                      *)

\* A set of rows as a sequence is a sequence of such rows.
LEMMA SetAsSeq ==
    ASSUME NEW T, NEW S \in SUBSET T, IsFiniteSet(S)
    PROVE  SetToSeq(S) \in Seq(T) /\ \A i \in DOMAIN SetToSeq(S) : SetToSeq(S)[i] \in S
<1>. DEFINE n == Cardinality(S)
            Q(f) == f \in [1..n -> S] /\ IsInjective(f)
<1>1. n \in Nat /\ ExistsBijection(1..n, S)
  BY FS_CardinalityType
<1>2. \E f : Q(f)
  BY <1>1 DEF ExistsBijection, Bijection, Injection, IsInjective
<1>3. Q(CHOOSE f : Q(f))
  BY <1>2
<1>4. SetToSeq(S) = CHOOSE f \in [1..n -> S] : IsInjective(f)
  BY DEF SetToSeq
<1>5. SetToSeq(S) \in [1..n -> S]
  BY <1>2, <1>4
<1>. QED
  BY <1>1, <1>5

\* The values of a function with a finite domain.
LEMMA FiniteImage ==
    ASSUME NEW S, IsFiniteSet(S), NEW f, f = [x \in S |-> f[x]]
    PROVE  IsFiniteSet({f[x] : x \in S})
<1>1. f \in Surjection(S, {f[x] : x \in S})
  BY DEF Surjection
<1>. QED
  BY <1>1, FS_Surjection

\* A START has no binding for its target, every other row has one.
Shaped(box) ==
    /\ box \in Seq(Row)
    /\ \A i \in DOMAIN box : box[i].kind = "START" <=> box[i].act = None

\* What a row is about never changes, and rows only come behind.
Follows(box, old) ==
    /\ Shaped(box)
    /\ Len(old) <= Len(box)
    /\ \A i \in DOMAIN old : /\ box[i].run = old[i].run /\ box[i].act = old[i].act
                             /\ box[i].kind = "START" <=> old[i].kind = "START"

\* A write of new payloads: the rows stay what they are, new ones are fresh and
\* not STARTs.
SameRow(new, old) ==
    /\ new.run = old.run /\ new.act = old.act
    /\ new.status = old.status /\ new.attempts = old.attempts /\ new.hits = old.hits
    /\ new.kind = "START" <=> old.kind = "START"

Rewritten(box, old) ==
    /\ Shaped(box)
    /\ Len(old) <= Len(box)
    /\ \A i \in DOMAIN old : SameRow(box[i], old[i])
    /\ \A i \in DOMAIN box \ DOMAIN old :
          box[i].kind # "START" /\ box[i].status = "pending" /\ box[i].hits = 0

\* The pending row found for the activities of a Run.
LiveRow(r, i) ==
    i # 0 => i \in DOMAIN outbox /\ outbox[i].kind # "START" /\ outbox[i].run = r

Jobs(S) == [S -> [kind : {"UPDATE", "END"}, act : Activities]]

\* _coalesce_outbox is such a write.
LEMMA CoalescedRows ==
    ASSUME Shaped(outbox), NEW S \in SUBSET Runs, NEW job \in Jobs(S),
           NEW found, \A r \in S : found[r] \in Nat /\ LiveRow(r, found[r])
    PROVE  Rewritten(Coalesced(found, job), outbox)
<1>. DEFINE old == [i \in DOMAIN outbox |->
                       IF \E r \in DOMAIN job : found[r] = i
                       THEN [outbox[i] EXCEPT !.kind = job[outbox[i].run].kind]
                       ELSE outbox[i]]
            D == {r \in DOMAIN job : found[r] = 0}
            f == [r \in D |-> NewRow(job[r].kind, r, job[r].act)]
            fresh == {f[r] : r \in D}
            new == SetToSeq(fresh)
            Fresh == {x \in Row : /\ x.kind # "START" /\ x.act # None
                                  /\ x.status = "pending" /\ x.hits = 0}
<1>1. DOMAIN job = S /\ D \subseteq S /\ IsFiniteSet(D)
  BY SetsAreFinite, FS_Subset DEF Jobs
<1>2. \A r \in S : job[r].kind \in {"UPDATE", "END"} /\ job[r].act \in Activities
  BY DEF Jobs
<1>3. fresh \subseteq Fresh
  <2>. SUFFICES ASSUME NEW r \in D PROVE f[r] \in Fresh
    OBVIOUS
  <2>1. job[r].kind \in {"UPDATE", "END"} /\ job[r].act \in Activities /\ r \in Runs
    BY <1>1, <1>2
  <2>. QED
    BY <2>1, NoneIsNoName DEF NewRow, Row, RowStatuses, None
<1>4. IsFiniteSet(fresh)
  <2>1. f = [r \in D |-> f[r]]
    OBVIOUS
  <2>. HIDE DEF f, D
  <2>. QED
    BY <1>1, <2>1, FiniteImage
<1>5. new \in Seq(Fresh)
  BY <1>3, <1>4, SetAsSeq
<1>6. Coalesced(found, job) = old \o new
  BY DEF Coalesced
<1>7. old \in Seq(Row) /\ Len(old) = Len(outbox) /\ DOMAIN old = DOMAIN outbox
      /\ \A i \in DOMAIN outbox : SameRow(old[i], outbox[i])
  <2>1. ASSUME NEW i \in DOMAIN outbox PROVE old[i] \in Row /\ SameRow(old[i], outbox[i])
    <3>1. outbox[i] \in Row
      BY DEF Shaped
    <3>2. CASE \E r \in DOMAIN job : found[r] = i
      <4>1. PICK r \in S : found[r] = i
        BY <3>2, <1>1
      <4>2. i # 0 /\ outbox[i].run = r /\ outbox[i].kind # "START"
        BY <4>1 DEF LiveRow, Shaped
      <4>3. old[i] = [outbox[i] EXCEPT !.kind = job[r].kind] /\ job[r].kind \in {"UPDATE", "END"}
        BY <3>2, <4>2, <1>2
      <4>. HIDE DEF old
      <4>. QED
        BY <3>1, <4>2, <4>3 DEF Row, SameRow
    <3>3. CASE ~\E r \in DOMAIN job : found[r] = i
      BY <3>1, <3>3 DEF SameRow
    <3>. QED
      BY <3>2, <3>3
  <2>2. Len(outbox) \in Nat /\ DOMAIN outbox = 1..Len(outbox)
    BY DEF Shaped
  <2>. QED
    BY <2>1, <2>2
<1>. HIDE DEF old, new, Fresh
<1>8. new \in Seq(Row) /\ \A i \in DOMAIN new : new[i] \in Fresh
  BY <1>5 DEF Fresh
<1>9. /\ old \o new \in Seq(Row) /\ Len(old \o new) = Len(old) + Len(new)
      /\ \A i \in 1..Len(old) : (old \o new)[i] = old[i]
      /\ \A i \in (Len(old) + 1)..(Len(old) + Len(new)) : (old \o new)[i] = new[i - Len(old)]
  BY <1>7, <1>8
<1>10. Len(old) \in Nat /\ Len(new) \in Nat /\ DOMAIN old = 1..Len(old) /\ DOMAIN new = 1..Len(new)
  BY <1>7, <1>8
<1>11. ASSUME NEW i \in DOMAIN (old \o new), i \notin DOMAIN outbox
       PROVE  (old \o new)[i] \in Fresh
  <2>1. i \in (Len(old) + 1)..(Len(old) + Len(new))
    BY <1>7, <1>9, <1>10, <1>11
  <2>. QED
    BY <2>1, <1>8, <1>9, <1>10
<1>12. Shaped(old \o new)
  <2>1. ASSUME NEW i \in DOMAIN outbox
        PROVE  (old \o new)[i].kind = "START" <=> (old \o new)[i].act = None
    BY <1>7, <1>9, <1>10 DEF Shaped, SameRow
  <2>2. ASSUME NEW i \in DOMAIN (old \o new), i \notin DOMAIN outbox
        PROVE  (old \o new)[i].kind = "START" <=> (old \o new)[i].act = None
    BY <1>11, <2>2 DEF Fresh
  <2>. QED
    BY <1>9, <2>1, <2>2 DEF Shaped
<1>. QED
  BY <1>6, <1>7, <1>9, <1>10, <1>11, <1>12 DEF Rewritten, Fresh

\* One row is written.
LEMMA EditedRow ==
    ASSUME Shaped(outbox), NEW i \in DOMAIN outbox, NEW row \in Row,
           row.run = outbox[i].run, row.act = outbox[i].act,
           row.kind = "START" <=> outbox[i].kind = "START"
    PROVE  Follows([outbox EXCEPT ![i] = row], outbox)
  BY DEF Shaped, Follows

\* STARTs are withdrawn.
LEMMA WithdrawnRows ==
    ASSUME NEW box, Shaped(box), NEW starts
    PROVE  /\ Shaped(Withdrawn(box, starts))
           /\ Len(Withdrawn(box, starts)) = Len(box)
           /\ DOMAIN Withdrawn(box, starts) = DOMAIN box
           /\ \A i \in DOMAIN box :
                 Withdrawn(box, starts)[i] = IF i \in starts
                                             THEN [box[i] EXCEPT !.status = "cancelled"]
                                             ELSE box[i]
<1>. DEFINE new == Withdrawn(box, starts)
            Item(i) == IF i \in starts THEN [box[i] EXCEPT !.status = "cancelled"] ELSE box[i]
<1>1. new = [i \in DOMAIN box |-> Item(i)]
  BY DEF Withdrawn
<1>2. ASSUME NEW i \in DOMAIN box
      PROVE  Item(i) \in Row /\ (Item(i).kind = "START" <=> Item(i).act = None)
  <2>1. box[i] \in Row /\ (box[i].kind = "START" <=> box[i].act = None)
    BY DEF Shaped
  <2>. QED
    BY <2>1 DEF Row, RowStatuses
<1>3. DOMAIN box = 1..Len(box) /\ Len(box) \in Nat
  BY DEF Shaped
<1>. HIDE DEF Item
<1>4. new \in Seq(Row) /\ Len(new) = Len(box) /\ DOMAIN new = DOMAIN box
  BY <1>1, <1>2, <1>3
<1>5. \A i \in DOMAIN box : new[i] = Item(i)
  BY <1>1
<1>6. Shaped(new)
  BY <1>2, <1>4, <1>5 DEF Shaped
<1>. QED
  BY <1>4, <1>5, <1>6 DEF Item

\* Placeholders are replaced.
LEMMA ReplacedRows ==
    ASSUME NEW box, Rewritten(box, outbox), Shaped(outbox), NEW new
    PROVE  Rewritten(WithReplaced(box, new), outbox)
<1>1. PICK one : WithReplaced(box, new) =
                    [i \in DOMAIN box |-> IF i \in one THEN [box[i] EXCEPT !.place = "replaced"]
                                          ELSE box[i]]
  BY DEF WithReplaced
<1>. DEFINE Item(i) == IF i \in one THEN [box[i] EXCEPT !.place = "replaced"] ELSE box[i]
            all == [i \in DOMAIN box |-> Item(i)]
<1>2. ASSUME NEW i \in DOMAIN box
      PROVE  /\ Item(i) \in Row /\ (Item(i).kind = "START" <=> Item(i).act = None)
             /\ SameRow(Item(i), box[i]) /\ Item(i).kind = box[i].kind
  <2>1. box[i] \in Row /\ (box[i].kind = "START" <=> box[i].act = None)
    BY DEF Rewritten, Shaped
  <2>. QED
    BY <2>1 DEF Row, SameRow
<1>3. DOMAIN box = 1..Len(box) /\ Len(box) \in Nat
  BY DEF Rewritten, Shaped
<1>4. DOMAIN outbox = 1..Len(outbox) /\ Len(outbox) \in Nat
  BY DEF Shaped
<1>. HIDE DEF Item
<1>5. all \in Seq(Row) /\ Len(all) = Len(box) /\ DOMAIN all = DOMAIN box
      /\ \A i \in DOMAIN box : all[i] = Item(i)
  BY <1>2, <1>3
<1>6. WithReplaced(box, new) = all
  BY <1>1 DEF Item
<1>. HIDE DEF all
<1>7. Shaped(all)
  BY <1>2, <1>5 DEF Shaped
<1>8. \A i \in DOMAIN outbox : i \in DOMAIN box /\ SameRow(box[i], outbox[i])
  BY <1>3, <1>4 DEF Rewritten
<1>9. \A i \in DOMAIN outbox : SameRow(all[i], outbox[i])
  BY <1>2, <1>5, <1>8 DEF SameRow
<1>10. \A i \in DOMAIN all \ DOMAIN outbox :
          all[i].kind # "START" /\ all[i].status = "pending" /\ all[i].hits = 0
  BY <1>2, <1>5 DEF SameRow, Rewritten
<1>. QED
  BY <1>5, <1>6, <1>7, <1>9, <1>10 DEF Rewritten

----------------------------------------------------------------------------
(* Types.                                                                  *)

Delivery == [row : Nat, kind : {None, "START", "UPDATE", "END"},
             answer : {None, "accepted", "retry", "refused", "invalid"}]

Report == [phase : {"shown", "over"}, gen : Nat]

CallState == [kind : {"register", "sync"}, report : UNION {[S -> Report] : S \in SUBSET Activities},
              status : [Runs -> Statuses], live : [Runs -> Nat]]

ServerType ==
    /\ status \in [Runs -> Statuses] /\ fallback \subseteq Runs /\ refused \subseteq Runs
    /\ Shaped(outbox) /\ binding \in [Activities -> BindingRow]
    /\ deviceToken \in Nat /\ deviceGen \in Nat

IngestType ==
    ingest # NoIngest =>
        /\ ingest \in [run : Runs, kind : Kinds, starts : SUBSET Nat, live : Nat]
        /\ ingest.starts \subseteq StartRows(ingest.run)
        /\ LiveRow(ingest.run, ingest.live)

CallType ==
    call # NoCall =>
        /\ call \in CallState
        /\ \A r \in Runs : LiveRow(r, call.live[r])
        /\ \A a \in DOMAIN call.report : activity[a].run \in Runs

WorkerType ==
    /\ worker \in [Workers -> Delivery]
    /\ \A w \in Workers : worker[w] # Idle =>
          /\ worker[w].row \in DOMAIN outbox
          /\ worker[w].kind # None /\ worker[w].answer # None
          /\ worker[w].kind = "START" <=> outbox[worker[w].row].kind = "START"

PhoneType ==
    /\ activity \in [Activities -> OnPhone]
    /\ \A a \in Activities : activity[a].phase # "unborn" => activity[a].run \in Runs
    /\ phoneGen \in Nat /\ told \subseteq Nat

CountType == ended \subseteq Activities /\ crashes \in Nat

TypeInv == ServerType /\ IngestType /\ CallType /\ WorkerType /\ PhoneType /\ CountType

\* What refers to rows refers to them afterwards.
LEMMA RefsFollow ==
    ASSUME TypeInv, Follows(outbox', outbox)
    PROVE  /\ UNCHANGED ingest => IngestType'
           /\ UNCHANGED <<call, activity>> => CallType'
           /\ UNCHANGED worker => WorkerType'
<1>1. /\ DOMAIN outbox \subseteq DOMAIN outbox' 
      /\ \A i \in DOMAIN outbox : /\ outbox'[i].run = outbox[i].run
                                  /\ outbox'[i].kind = "START" <=> outbox[i].kind = "START"
  <2>1. /\ DOMAIN outbox = 1..Len(outbox) /\ DOMAIN outbox' = 1..Len(outbox')
        /\ Len(outbox) \in Nat /\ Len(outbox') \in Nat
    BY DEF TypeInv, ServerType, Shaped, Follows
  <2>. QED
    BY <2>1 DEF Follows
<1>2. \A r, i : LiveRow(r, i) => LiveRow(r, i)'
  BY <1>1 DEF LiveRow
<1>3. \A r : StartRows(r) \subseteq StartRows(r)'
  BY <1>1 DEF StartRows
<1>4. ASSUME UNCHANGED ingest PROVE IngestType'
  BY <1>2, <1>3, <1>4 DEF TypeInv, IngestType, NoIngest
<1>5. ASSUME UNCHANGED <<call, activity>> PROVE CallType'
  BY <1>2, <1>5 DEF TypeInv, CallType, CallState, NoCall
<1>6. ASSUME UNCHANGED worker PROVE WorkerType'
  BY <1>1, <1>6 DEF TypeInv, WorkerType, Idle
<1>. QED
  BY <1>4, <1>5, <1>6

\* The actions of Next, as one flat disjunction.
LEMMA Actions ==
    ASSUME Next
    PROVE  \/ \E r \in Runs, kind \in EventKinds : BeginIngest(r, kind)
           \/ CommitStart \/ CommitEvent
           \/ \E i \in DOMAIN outbox : Expire(i) \/ Suppress(i) \/ Unreachable(i)
           \/ \E i \in DOMAIN outbox, w \in Workers : Send(w, i)
           \/ \E w \in Workers : Settle(w)
           \/ \E w \in Workers : Deadlock(w)
           \/ \E w \in Workers : Crash(w)
           \/ \E i \in DOMAIN outbox : ExpirePlaceholder(i)
           \/ \E g \in 1..MaxGen : RegisterDevice(g)
           \/ \E a \in Activities, g \in 1..MaxGen : BeginRegister(a, g)
           \/ BeginSync \/ CommitCall
           \/ \E a \in Activities, r \in Runs : Appear(a, r)
           \/ \E a \in Activities : NewToken(a) \/ Disappear(a)
           \/ NewDeviceToken
  BY DEF Next, Ingest, Dispatch, Register, Phone

\* What is written to one row leaves it the row it was.
LEMMA SetStatus ==
    ASSUME Shaped(outbox), NEW i \in DOMAIN outbox, NEW s \in RowStatuses,
           outbox' = [outbox EXCEPT ![i].status = s]
    PROVE  Follows(outbox', outbox)
<1>. DEFINE row == [outbox[i] EXCEPT !.status = s]
<1>1. outbox[i] \in Row
  BY DEF Shaped
<1>2. row \in Row /\ row.run = outbox[i].run /\ row.act = outbox[i].act /\ row.kind = outbox[i].kind
  BY <1>1 DEF Row
<1>3. outbox' = [outbox EXCEPT ![i] = row]
  OBVIOUS
<1>. HIDE DEF row
<1>4. Follows([outbox EXCEPT ![i] = row], outbox)
  BY <1>2, EditedRow
<1>. QED
  BY <1>3, <1>4

LEMMA SetPlace ==
    ASSUME Shaped(outbox), NEW i \in DOMAIN outbox, outbox' = [outbox EXCEPT ![i].place = "expired"]
    PROVE  Follows(outbox', outbox)
<1>. DEFINE row == [outbox[i] EXCEPT !.place = "expired"]
<1>1. outbox[i] \in Row
  BY DEF Shaped
<1>2. row \in Row /\ row.run = outbox[i].run /\ row.act = outbox[i].act /\ row.kind = outbox[i].kind
  BY <1>1 DEF Row
<1>3. outbox' = [outbox EXCEPT ![i] = row]
  OBVIOUS
<1>. HIDE DEF row
<1>4. Follows([outbox EXCEPT ![i] = row], outbox)
  BY <1>2, EditedRow
<1>. QED
  BY <1>3, <1>4

LEMMA SetHits ==
    ASSUME Shaped(outbox), NEW i \in DOMAIN outbox, outbox' = [outbox EXCEPT ![i].hits = @ + 1]
    PROVE  Follows(outbox', outbox)
<1>. DEFINE row == [outbox[i] EXCEPT !.hits = @ + 1]
<1>1. outbox[i] \in Row
  BY DEF Shaped
<1>2. row \in Row /\ row.run = outbox[i].run /\ row.act = outbox[i].act /\ row.kind = outbox[i].kind
  BY <1>1 DEF Row
<1>3. outbox' = [outbox EXCEPT ![i] = row]
  OBVIOUS
<1>. HIDE DEF row
<1>4. Follows([outbox EXCEPT ![i] = row], outbox)
  BY <1>2, EditedRow
<1>. QED
  BY <1>3, <1>4

\* An unchanged outbox.
LEMMA SameRows == ASSUME Shaped(outbox), UNCHANGED outbox PROVE Follows(outbox', outbox)
  BY DEF Shaped, Follows

\* A START is queued.
LEMMA StartRow ==
    ASSUME Shaped(outbox), NEW r \in Runs, outbox' = Append(outbox, NewRow("START", r, None))
    PROVE  Follows(outbox', outbox)
<1>. DEFINE row == NewRow("START", r, None)
<1>1. row \in Row /\ row.kind = "START" /\ row.act = None
  BY DEF NewRow, Row, RowStatuses
<1>2. outbox' = Append(outbox, row)
  OBVIOUS
<1>. HIDE DEF row
<1>3. outbox \in Seq(Row) /\ \A i \in DOMAIN outbox : outbox[i].kind = "START" <=> outbox[i].act = None
  BY DEF Shaped
<1>4. /\ outbox' \in Seq(Row) /\ Len(outbox') = Len(outbox) + 1
      /\ outbox'[Len(outbox) + 1] = row
      /\ \A i \in DOMAIN outbox : i \in DOMAIN outbox' /\ outbox'[i] = outbox[i]
  BY <1>1, <1>2, <1>3
<1>5. \A i \in DOMAIN outbox' : i \in DOMAIN outbox \/ i = Len(outbox) + 1
  BY <1>3, <1>4
<1>6. Shaped(outbox')
  BY <1>1, <1>3, <1>4, <1>5 DEF Shaped
<1>7. Len(outbox) <= Len(outbox')
  BY <1>3, <1>4
<1>. QED
  BY <1>4, <1>6, <1>7 DEF Follows

LEMMA RewrittenFollows ==
    ASSUME NEW box, NEW old, Rewritten(box, old)
    PROVE  Follows(box, old)
  BY DEF Rewritten, Follows, SameRow

\* The rows after an event that is not a start: written, then the STARTs withdrawn.
LEMMA EventRows ==
    ASSUME TypeInv, CommitEvent
    PROVE  \E box : /\ Rewritten(box, outbox)
                    /\ outbox' = IF Terminal(StatusAfter(status[ingest.run], ingest.kind))
                                 THEN Withdrawn(box, ingest.starts) ELSE box
<1>. DEFINE r == ingest.run
            live == [x \in {r} |-> ingest.live]
            to == Deliverable(r)
            kind == IF Terminal(StatusAfter(status[r], ingest.kind)) THEN "END" ELSE "UPDATE"
            Job(a) == IF to = {} THEN <<>> ELSE [x \in {r} |-> [kind |-> kind, act |-> a]]
<1>1. PICK a \in IF to = {} THEN {None} ELSE to :
         outbox' = IF Terminal(StatusAfter(status[r], ingest.kind))
                   THEN Withdrawn(Coalesced(live, Job(a)), ingest.starts)
                   ELSE Coalesced(live, Job(a))
  BY DEF CommitEvent
<1>2. r \in Runs /\ ingest.live \in Nat /\ LiveRow(r, ingest.live)
  BY DEF CommitEvent, TypeInv, IngestType
<1>3. Job(a) \in Jobs(IF to = {} THEN {} ELSE {r})
  BY DEF Jobs, Deliverable
<1>4. Rewritten(Coalesced(live, Job(a)), outbox)
  <2>. HIDE DEF Job, to
  <2>. DEFINE S == IF to = {} THEN {} ELSE {r}
  <2>1. S \in SUBSET Runs /\ \A x \in S : live[x] \in Nat /\ LiveRow(x, live[x])
    BY <1>2
  <2>2. Shaped(outbox)
    BY DEF TypeInv, ServerType
  <2>. HIDE DEF S, live
  <2>. QED
    BY <1>3, <2>1, <2>2, CoalescedRows DEF S
<1>. QED
  BY <1>1, <1>4

\* The rows after a call of the phone.
LEMMA CallRows ==
    ASSUME TypeInv, CommitCall
    PROVE  Rewritten(outbox', outbox)
<1>. DEFINE queued == {a \in DOMAIN call.report : QueuedFor(call, a)}
            runs == {activity[a].run : a \in queued}
            over == {r \in runs : Terminal(call.status[r])}
            Job(some, to) == [r \in some |-> [kind |-> IF r \in over THEN "END" ELSE "UPDATE",
                                              act |-> to[r]]]
            new == {a \in DOMAIN call.report : binding[a].state = None}
<1>0. PICK some \in SUBSET runs : \E to \in [some -> queued] :
         outbox' = WithReplaced(Coalesced(call.live, Job(some, to)), new)
  BY DEF CommitCall
<1>1. PICK to \in [some -> queued] :
         outbox' = WithReplaced(Coalesced(call.live, Job(some, to)), new)
  BY <1>0
<1>2. /\ call \in CallState /\ \A r \in Runs : LiveRow(r, call.live[r])
      /\ \A a \in DOMAIN call.report : activity[a].run \in Runs
  BY DEF CommitCall, TypeInv, CallType
<1>3. DOMAIN call.report \subseteq Activities /\ call.live \in [Runs -> Nat]
  BY <1>2 DEF CallState
<1>4. some \subseteq Runs /\ queued \subseteq Activities
  BY <1>2, <1>3
<1>5. Job(some, to) \in Jobs(some)
  BY <1>4 DEF Jobs
<1>6. Shaped(outbox)
  BY DEF TypeInv, ServerType
<1>7. Rewritten(Coalesced(call.live, Job(some, to)), outbox)
  <2>. HIDE DEF Job
  <2>1. \A r \in some : call.live[r] \in Nat /\ LiveRow(r, call.live[r])
    BY <1>2, <1>3, <1>4
  <2>. QED
    BY <1>4, <1>5, <1>6, <2>1, CoalescedRows
<1>. QED
  BY <1>1, <1>6, <1>7, ReplacedRows

\* What Settle leaves of a row.
LEMMA SettledRow ==
    ASSUME NEW row \in Row, NEW kind, NEW answer
    PROVE  LET new == RowAfter(row, kind, answer) IN
           /\ new \in Row /\ new.run = row.run /\ new.act = row.act
           /\ new.kind = row.kind /\ new.hits = row.hits
           /\ new.status = IF answer = "accepted" THEN "sent"
                           ELSE IF answer = "retry" /\ MayRetry(row.attempts + 1) THEN "pending"
                           ELSE "failed"
<1>. DEFINE n == row.attempts + 1
            s == IF answer = "accepted" THEN "sent"
                 ELSE IF answer = "retry" /\ MayRetry(n) THEN "pending" ELSE "failed"
            p == IF answer = "accepted" /\ kind = "START" THEN "active" ELSE row.place
<1>1. RowAfter(row, kind, answer) = [row EXCEPT !.attempts = n, !.status = s, !.place = p]
  BY DEF RowAfter, Attempted
<1>2. n \in Nat /\ s \in RowStatuses /\ p \in {None, "active", "replaced", "expired"}
  BY DEF Row, RowStatuses
<1>3. s = IF answer = "accepted" THEN "sent"
          ELSE IF answer = "retry" /\ MayRetry(row.attempts + 1) THEN "pending" ELSE "failed"
  OBVIOUS
<1>. HIDE DEF n, s, p
<1>. QED
  BY <1>1, <1>2, <1>3 DEF Row

\* Rows keep their place, their Run and their target.
LEMMA StepFollows ==
    ASSUME TypeInv, [Next]_vars
    PROVE  Follows(outbox', outbox)
<1>. Shaped(outbox)
  BY DEF TypeInv, ServerType
<1>1. ASSUME UNCHANGED outbox PROVE Follows(outbox', outbox)
  BY <1>1, SameRows
<1>2. CASE \E r \in Runs, kind \in EventKinds : BeginIngest(r, kind)
  BY <1>1, <1>2 DEF BeginIngest, serverVars
<1>3. CASE CommitStart
  <2>1. ingest.run \in Runs
    BY <1>3 DEF CommitStart, TypeInv, IngestType
  <2>2. outbox' = Append(outbox, NewRow("START", ingest.run, None)) \/ UNCHANGED outbox
    BY <1>3 DEF CommitStart
  <2>. QED
    BY <1>1, <2>1, <2>2, StartRow
<1>4. CASE CommitEvent
  <2>1. PICK box : /\ Rewritten(box, outbox)
                   /\ outbox' = box \/ outbox' = Withdrawn(box, ingest.starts)
    BY <1>4, EventRows
  <2>2. Follows(box, outbox)
    BY <2>1, RewrittenFollows
  <2>3. ASSUME outbox' = Withdrawn(box, ingest.starts) PROVE Follows(outbox', outbox)
    <3>1. /\ Shaped(outbox') /\ Len(outbox') = Len(box)
          /\ \A i \in DOMAIN box :
                outbox'[i] = IF i \in ingest.starts THEN [box[i] EXCEPT !.status = "cancelled"]
                             ELSE box[i]
      BY <2>2, <2>3, WithdrawnRows DEF Follows
    <3>2. DOMAIN outbox \subseteq DOMAIN box /\ \A i \in DOMAIN box : box[i] \in Row
      BY <2>2 DEF Follows, Shaped
    <3>3. \A i \in DOMAIN outbox : /\ outbox'[i].run = box[i].run /\ outbox'[i].act = box[i].act
                                   /\ outbox'[i].kind = box[i].kind
      BY <3>1, <3>2 DEF Row
    <3>. QED
      BY <2>2, <3>1, <3>3 DEF Follows
  <2>. QED
    BY <2>1, <2>2, <2>3
<1>5. ASSUME NEW i \in DOMAIN outbox, Expire(i) \/ Suppress(i) \/ Unreachable(i)
      PROVE  Follows(outbox', outbox)
  <2>1. \E s \in RowStatuses : outbox' = [outbox EXCEPT ![i].status = s]
    BY <1>5 DEF Expire, Suppress, Unreachable, RowStatuses
  <2>. QED
    BY <2>1, SetStatus
<1>6. ASSUME NEW i \in DOMAIN outbox, NEW w \in Workers, Send(w, i)
      PROVE  Follows(outbox', outbox)
  <2>1. UNCHANGED outbox \/ outbox' = [outbox EXCEPT ![i].hits = @ + 1]
    BY <1>6 DEF Send
  <2>. QED
    BY <1>1, <2>1, SetHits
<1>7. ASSUME NEW w \in Workers, Settle(w) PROVE Follows(outbox', outbox)
  <2>. DEFINE i == worker[w].row
              row == RowAfter(outbox[i], worker[w].kind, worker[w].answer)
  <2>1. i \in DOMAIN outbox
    BY <1>7 DEF Settle, TypeInv, WorkerType
  <2>2. outbox[i] \in Row
    BY <2>1 DEF Shaped
  <2>3. outbox' = [outbox EXCEPT ![i] = row]
    BY <1>7 DEF Settle
  <2>4. row \in Row /\ row.run = outbox[i].run /\ row.act = outbox[i].act /\ row.kind = outbox[i].kind
    BY <2>2, SettledRow
  <2>. HIDE DEF i, row
  <2>5. Follows([outbox EXCEPT ![i] = row], outbox)
    BY <2>1, <2>4, EditedRow
  <2>. QED
    BY <2>3, <2>5
<1>8. CASE \E w \in Workers : Deadlock(w) \/ Crash(w)
  BY <1>1, <1>8 DEF Deadlock, Crash, serverVars
<1>9. CASE \E i \in DOMAIN outbox : ExpirePlaceholder(i)
  BY <1>9, SetPlace DEF ExpirePlaceholder
<1>10. CASE \E g \in 1..MaxGen : RegisterDevice(g)
  BY <1>1, <1>10 DEF RegisterDevice
<1>11. CASE \E a \in Activities, g \in 1..MaxGen : BeginRegister(a, g)
  BY <1>1, <1>11 DEF BeginRegister, serverVars
<1>12. CASE BeginSync
  BY <1>1, <1>12 DEF BeginSync, serverVars
<1>13. CASE CommitCall
  BY <1>13, CallRows, RewrittenFollows
<1>14. CASE \/ \E a \in Activities, r \in Runs : Appear(a, r)
            \/ \E a \in Activities : NewToken(a) \/ Disappear(a)
            \/ NewDeviceToken
  BY <1>1, <1>14 DEF Appear, NewToken, Disappear, NewDeviceToken, PhoneOnly, serverVars
<1>15. CASE UNCHANGED vars
  BY <1>1, <1>15 DEF vars, serverVars
<1>. QED
  BY <1>2, <1>3, <1>4, <1>5, <1>6, <1>7, <1>8, <1>9, <1>10, <1>11, <1>12, <1>13, <1>14, <1>15,
     Actions

\* What a call of the phone makes of a binding is a binding.
LEMMA CallBindings ==
    ASSUME TypeInv, CommitCall
    PROVE  binding' \in [Activities -> BindingRow]
<1>1. call \in CallState /\ binding' = [a \in Activities |-> BindingFrom(call, a)]
  BY DEF CommitCall, TypeInv, CallType
<1>2. ASSUME NEW a \in Activities PROVE BindingFrom(call, a) \in BindingRow
  <2>1. binding[a] \in BindingRow
    BY DEF TypeInv, ServerType
  <2>2. call.kind \in {"register", "sync"}
    BY <1>1 DEF CallState
  <2>3. CASE a \notin DOMAIN call.report
    BY <2>1, <2>2, <2>3 DEF BindingFrom, BindingRow
  <2>4. CASE a \in DOMAIN call.report
    <3>1. call.report[a] \in Report
      BY <1>1, <2>4 DEF CallState
    <3>2. Registered(binding[a], call.report[a].gen) \in BindingRow
      BY <2>1, <3>1 DEF Registered, BindingRow, Report
    <3>3. Synced(binding[a], call.report[a]) \in BindingRow
      BY <2>1, <3>1 DEF Synced, BindingRow, Report
    <3>4. BindingFrom(call, a) = IF call.kind = "register"
                                 THEN Registered(binding[a], call.report[a].gen)
                                 ELSE Synced(binding[a], call.report[a])
      BY <2>2, <2>4 DEF BindingFrom
    <3>. QED
      BY <3>2, <3>3, <3>4
  <2>. QED
    BY <2>3, <2>4
<1>. QED
  BY <1>1, <1>2

\* ... and what a worker makes of one.
LEMMA SettledBinding ==
    ASSUME NEW b \in BindingRow, NEW kind, NEW answer
    PROVE  BindingAfter(b, kind, answer) \in BindingRow
<1>1. [b EXCEPT !.state = "ended"] \in BindingRow
  BY DEF BindingRow
<1>2. [b EXCEPT !.state = "invalidated", !.dead = TRUE, !.token = 0] \in BindingRow
  BY DEF BindingRow
<1>. QED
  BY <1>1, <1>2 DEF BindingAfter

\* Statuses follow the table.
LEMMA StatusesFollow ==
    ASSUME NEW s \in Statuses, NEW kind \in Kinds
    PROVE  StatusAfter(s, kind) \in Statuses
  BY DEF StatusAfter, EventStatus, Kinds, StatusKinds, Statuses, TerminalStatuses

----------------------------------------------------------------------------
\* An update or END has a binding for its target.
LEMMA TargetOf ==
    ASSUME Shaped(outbox), NEW i \in DOMAIN outbox, outbox[i].kind # "START"
    PROVE  outbox[i].act \in Activities
<1>1. outbox[i] \in Row /\ outbox[i].act # None
  BY DEF Shaped
<1>. QED
  BY <1>1 DEF Row

\* What an event leaves of the notifications: one, or a refusal, for its Run,
\* and only if no START was sent.
LEMMA NotifyCases ==
    ASSUME CommitEvent
    PROVE  /\ ~Terminal(StatusAfter(status[ingest.run], ingest.kind))
                => UNCHANGED <<fallback, refused>>
           /\ fallback' = fallback \/ fallback' = fallback \cup {ingest.run}
           /\ \/ refused' = refused
              \/ "quota" \in Races /\ refused' = refused \cup {ingest.run}
           /\ fallback' # fallback => ~StartWasSent(ingest.starts, ingest.run)
           /\ /\ StatusAfter(status[ingest.run], ingest.kind) \in {"FAILED", "LOST"}
              /\ ~StartWasSent(ingest.starts, ingest.run)
              => ingest.run \in fallback' \cup refused'
  BY DEF CommitEvent, NeedsFallback, Notify, Terminal, TerminalStatuses

\* The server's tables keep their types.
LEMMA StepServer ==
    ASSUME TypeInv, [Next]_vars
    PROVE  ServerType'
<1>1. Shaped(outbox')
  BY StepFollows DEF Follows
<1>2. binding' \in [Activities -> BindingRow]
  <2>. USE DEF TypeInv, ServerType
  <2>1. ASSUME UNCHANGED binding PROVE binding' \in [Activities -> BindingRow]
    BY <2>1
  <2>2. ASSUME NEW i \in DOMAIN outbox, Expire(i) PROVE binding' \in [Activities -> BindingRow]
    <3>1. \A b \in BindingRow : [b EXCEPT !.state = "expired"] \in BindingRow
      BY DEF BindingRow
    <3>2. \A a \in Activities : [binding EXCEPT ![a].state = "expired"]
                                 = [binding EXCEPT ![a] = [binding[a] EXCEPT !.state = "expired"]]
      OBVIOUS
    <3>3. outbox[i].kind = "END" => outbox[i].act \in Activities
      BY TargetOf
    <3>4. UNCHANGED binding \/ \E a \in Activities : binding' = [binding EXCEPT ![a].state = "expired"]
      BY <2>2, <3>3 DEF Expire
    <3>. QED
      BY <3>1, <3>2, <3>4
  <2>3. ASSUME NEW w \in Workers, Settle(w) PROVE binding' \in [Activities -> BindingRow]
    <3>. DEFINE row == outbox[worker[w].row]
    <3>1. worker[w].row \in DOMAIN outbox /\ (worker[w].kind = "START" <=> row.kind = "START")
      BY <2>3 DEF Settle, WorkerType
    <3>2. worker[w].kind # "START" => row.act \in Activities
      BY <3>1, TargetOf
    <3>3. UNCHANGED binding
          \/ /\ worker[w].kind # "START"
             /\ binding' = [binding EXCEPT ![row.act] =
                               BindingAfter(binding[row.act], worker[w].kind, worker[w].answer)]
      BY <2>3 DEF Settle
    <3>. HIDE DEF row
    <3>. QED
      BY <3>2, <3>3, SettledBinding
  <2>. QED
    BY <2>1, <2>2, <2>3, CallBindings, Actions
       DEF BeginIngest, CommitStart, CommitEvent, Suppress, Unreachable, Send, Deadlock, Crash,
           ExpirePlaceholder, RegisterDevice, BeginRegister, BeginSync, Appear, NewToken,
           Disappear, NewDeviceToken, PhoneOnly, vars, serverVars
<1>3. status' \in [Runs -> Statuses] /\ fallback' \subseteq Runs /\ refused' \subseteq Runs
  <2>. USE DEF TypeInv, ServerType
  <2>1. CASE UNCHANGED <<status, fallback, refused>>
    BY <2>1
  <2>2. CASE CommitStart \/ CommitEvent
    <3>1. ingest.run \in Runs /\ ingest.kind \in Kinds
      BY <2>2 DEF CommitStart, CommitEvent, IngestType
    <3>2. status' = [status EXCEPT ![ingest.run] = StatusAfter(status[ingest.run], ingest.kind)]
      BY <2>2 DEF CommitStart, CommitEvent
    <3>3. /\ fallback' = fallback \/ fallback' = fallback \cup {ingest.run}
          /\ refused' = refused \/ refused' = refused \cup {ingest.run}
      BY <2>2, NotifyCases DEF CommitStart
    <3>. QED
      BY <3>1, <3>2, <3>3, StatusesFollow
  <2>. QED
    BY <2>1, <2>2, Actions
       DEF BeginIngest, Expire, Suppress, Unreachable, WorkerOnly, Send, Settle, Deadlock, Crash,
           ExpirePlaceholder, RegisterDevice, BeginRegister, BeginSync, CommitCall, Appear, NewToken,
           Disappear, NewDeviceToken, PhoneOnly, vars, serverVars
<1>4. deviceToken' \in Nat /\ deviceGen' \in Nat
  <2>. USE DEF TypeInv, ServerType
  <2>1. CASE UNCHANGED <<deviceToken, deviceGen>>
    BY <2>1
  <2>2. CASE \E g \in 1..MaxGen : RegisterDevice(g)
    BY <2>2 DEF RegisterDevice
  <2>3. CASE \E w \in Workers : Settle(w)
    BY <2>3 DEF Settle
  <2>. QED
    BY <2>1, <2>2, <2>3, Actions
       DEF BeginIngest, CommitStart, CommitEvent, Expire, Suppress, Unreachable, WorkerOnly, Send,
           Deadlock, Crash, ExpirePlaceholder, BeginRegister, BeginSync, CommitCall, Appear,
           NewToken, Disappear, NewDeviceToken, PhoneOnly, vars, serverVars
<1>. QED
  BY <1>1, <1>2, <1>3, <1>4 DEF ServerType

\* What an event transaction has read.
LEMMA StepIngest ==
    ASSUME TypeInv, [Next]_vars
    PROVE  IngestType'
<1>1. ASSUME UNCHANGED ingest PROVE IngestType'
  BY <1>1, StepFollows, RefsFollow
<1>2. ASSUME NEW r \in Runs, NEW kind \in EventKinds, BeginIngest(r, kind) PROVE IngestType'
  <2>1. PICK live \in OneOf(PendingLive(r)) :
           ingest' = [run |-> r, kind |-> kind, starts |-> PendingStarts(r), live |-> live]
    BY <1>2 DEF BeginIngest
  <2>2. UNCHANGED outbox /\ kind \in Kinds
    BY <1>2, EventKindsAreKnown DEF BeginIngest, serverVars
  <2>3. live \in Nat /\ LiveRow(r, live)
    BY DEF OneOf, PendingLive, LiveRow, TypeInv, ServerType, Shaped
  <2>4. PendingStarts(r) \subseteq StartRows(r) /\ PendingStarts(r) \subseteq Nat
    BY DEF PendingStarts, StartRows, TypeInv, ServerType, Shaped
  <2>5. LiveRow(r, live)'
    BY <2>2, <2>3 DEF LiveRow
  <2>6. StartRows(r)' = StartRows(r)
    BY <2>2 DEF StartRows
  <2>. QED
    BY <2>1, <2>2, <2>3, <2>4, <2>5, <2>6 DEF IngestType
<1>3. CASE ingest' = NoIngest
  BY <1>3 DEF IngestType
<1>. QED
  BY <1>1, <1>2, <1>3, Actions
     DEF CommitStart, CommitEvent, Expire, Suppress, Unreachable, WorkerOnly, Send, Settle, Deadlock,
         Crash, ExpirePlaceholder, RegisterDevice, BeginRegister, BeginSync, CommitCall, Appear,
         NewToken, Disappear, NewDeviceToken, PhoneOnly, vars

\* What a call of the phone has read and says.
LEMMA ReadsType ==
    ASSUME TypeInv, NEW kind \in {"register", "sync"}, NEW S \in SUBSET Activities,
           NEW report \in [S -> Report], \A a \in S : activity[a].run \in Runs,
           Reads(kind, report), UNCHANGED <<outbox, activity>>
    PROVE  CallType'
<1>1. PICK live \in [Runs -> 0..Len(outbox)] :
         /\ \A r \in Runs : live[r] \in OneOf(PendingLive(r))
         /\ call' = [kind |-> kind, report |-> report, status |-> status, live |-> live]
  BY DEF Reads
<1>2. live \in [Runs -> Nat] /\ status \in [Runs -> Statuses]
  BY DEF TypeInv, ServerType, Shaped
<1>3. report \in UNION {[T -> Report] : T \in SUBSET Activities}
  OBVIOUS
<1>4. call' \in CallState /\ call'.live = live /\ DOMAIN call'.report = S
  BY <1>1, <1>2, <1>3 DEF CallState
<1>5. \A r \in Runs : LiveRow(r, live[r])
  BY <1>1 DEF OneOf, PendingLive, LiveRow
<1>6. \A r \in Runs : LiveRow(r, live[r])'
  BY <1>5 DEF LiveRow
<1>. QED
  BY <1>4, <1>6 DEF CallType

LEMMA StepCall ==
    ASSUME TypeInv, [Next]_vars
    PROVE  CallType'
<1>1. ASSUME UNCHANGED <<call, activity>> PROVE CallType'
  BY <1>1, StepFollows, RefsFollow
<1>2. CASE call' = NoCall
  BY <1>2 DEF CallType
<1>3. ASSUME NEW a \in Activities, NEW g \in 1..MaxGen, BeginRegister(a, g) PROVE CallType'
  <2>. DEFINE report == [x \in {a} |-> [phase |-> "shown", gen |-> g]]
  <2>1. /\ activity[a].phase = "shown" /\ Reads("register", report)
        /\ UNCHANGED <<outbox, activity>>
    BY <1>3 DEF BeginRegister, serverVars, phoneVars
  <2>2. activity[a].run \in Runs
    BY <2>1 DEF TypeInv, PhoneType
  <2>3. report \in [{a} -> Report]
    BY DEF Report
  <2>. HIDE DEF report
  <2>. QED
    BY <2>1, <2>2, <2>3, ReadsType
<1>4. CASE BeginSync
  <2>1. PICK over \in SUBSET {a \in Activities : activity[a].phase = "over"} :
           Reads("sync", [a \in {a \in Activities : activity[a].phase = "shown"} \cup over |->
                            [phase |-> activity[a].phase, gen |-> activity[a].gen]])
    BY <1>4 DEF BeginSync
  <2>. DEFINE S == {a \in Activities : activity[a].phase = "shown"} \cup over
              report == [a \in S |-> [phase |-> activity[a].phase, gen |-> activity[a].gen]]
  <2>2. UNCHANGED <<outbox, activity>>
    BY <1>4 DEF BeginSync, serverVars, phoneVars
  <2>3. S \in SUBSET Activities /\ \A a \in S : activity[a].run \in Runs
    BY DEF TypeInv, PhoneType
  <2>4. report \in [S -> Report]
    <3>1. \A a \in S : activity[a].phase \in {"shown", "over"} /\ activity[a].gen \in Nat
      BY <2>3 DEF TypeInv, PhoneType, OnPhone
    <3>. QED
      BY <3>1 DEF Report
  <2>5. Reads("sync", report)
    BY <2>1
  <2>. HIDE DEF report, S
  <2>. QED
    BY <2>2, <2>3, <2>4, <2>5, ReadsType
<1>5. ASSUME UNCHANGED <<call, outbox>>,
             \A a \in Activities : activity[a].run \in Runs => activity'[a].run \in Runs
      PROVE  CallType'
  <2>1. \A r, i : LiveRow(r, i)' = LiveRow(r, i)
    BY <1>5 DEF LiveRow
  <2>2. call # NoCall => DOMAIN call.report \subseteq Activities
    BY DEF TypeInv, CallType, CallState
  <2>. QED
    BY <1>5, <2>1, <2>2 DEF CallType, TypeInv, CallState
<1>6. CASE \/ \E a \in Activities, r \in Runs : Appear(a, r)
           \/ \E a \in Activities : NewToken(a) \/ Disappear(a)
           \/ NewDeviceToken
  <2>1. UNCHANGED <<call, outbox>>
    BY <1>6 DEF Appear, NewToken, Disappear, NewDeviceToken, PhoneOnly, serverVars
  <2>2. activity \in [Activities -> OnPhone]
    BY DEF TypeInv, PhoneType
  <2>3. ASSUME NEW b \in Activities, activity[b].run \in Runs PROVE activity'[b].run \in Runs
    <3>1. ASSUME NEW a \in Activities, NEW r \in Runs, Appear(a, r) PROVE activity'[b].run \in Runs
      BY <2>2, <2>3, <3>1 DEF Appear, OnPhone
    <3>2. ASSUME NEW a \in Activities, NewToken(a) PROVE activity'[b].run \in Runs
      BY <2>2, <2>3, <3>2 DEF NewToken, OnPhone
    <3>3. ASSUME NEW a \in Activities, Disappear(a) PROVE activity'[b].run \in Runs
      BY <2>2, <2>3, <3>3 DEF Disappear, OnPhone
    <3>4. CASE NewDeviceToken
      BY <2>3, <3>4 DEF NewDeviceToken
    <3>. QED
      BY <1>6, <3>1, <3>2, <3>3, <3>4
  <2>. QED
    BY <1>5, <2>1, <2>3
<1>. QED
  BY <1>1, <1>2, <1>3, <1>4, <1>6, Actions
     DEF BeginIngest, CommitStart, CommitEvent, Expire, Suppress, Unreachable, WorkerOnly, Send,
         Settle, Deadlock, Crash, ExpirePlaceholder, RegisterDevice, CommitCall, phoneVars, vars

\* What a worker is sending.
LEMMA StepWorker ==
    ASSUME TypeInv, [Next]_vars
    PROVE  WorkerType'
<1>1. ASSUME UNCHANGED worker PROVE WorkerType'
  BY <1>1, StepFollows, RefsFollow
<1>2. ASSUME NEW w \in Workers, NEW d \in Delivery, worker' = [worker EXCEPT ![w] = d],
             \/ d = Idle
             \/ /\ d.row \in DOMAIN outbox /\ d.kind # None /\ d.answer # None
                /\ d.kind = "START" <=> outbox[d.row].kind = "START"
      PROVE  WorkerType'
  <2>1. \A i \in DOMAIN outbox : /\ i \in DOMAIN outbox'
                                 /\ outbox'[i].kind = "START" <=> outbox[i].kind = "START"
    BY StepFollows DEF Follows, Shaped, TypeInv, ServerType
  <2>2. worker \in [Workers -> Delivery]
    BY DEF TypeInv, WorkerType
  <2>3. worker' \in [Workers -> Delivery] /\ worker'[w] = d
        /\ \A v \in Workers \ {w} : worker'[v] = worker[v]
    BY <1>2, <2>2
  <2>. QED
    BY <1>2, <2>1, <2>3 DEF TypeInv, WorkerType, Idle
<1>3. Idle \in Delivery
  BY DEF Idle, Delivery
<1>4. ASSUME NEW w \in Workers, worker' = [worker EXCEPT ![w] = Idle] PROVE WorkerType'
  BY <1>2, <1>3, <1>4
<1>5. ASSUME NEW i \in DOMAIN outbox, NEW w \in Workers, Send(w, i) PROVE WorkerType'
  <2>1. PICK answer \in Answers(i) :
           worker' = [worker EXCEPT ![w] = [row |-> i, kind |-> outbox[i].kind, answer |-> answer]]
    BY <1>5 DEF Send
  <2>2. answer \in {"accepted", "retry", "refused", "invalid"}
    BY DEF Answers
  <2>3. i \in Nat /\ outbox[i].kind \in {"START", "UPDATE", "END"}
    <3>1. i \in Nat /\ outbox[i] \in Row
      BY DEF TypeInv, ServerType, Shaped
    <3>. QED
      BY <3>1 DEF Row
  <2>. DEFINE d == [row |-> i, kind |-> outbox[i].kind, answer |-> answer]
  <2>4. /\ d \in Delivery /\ d.row = i /\ d.kind = outbox[i].kind
        /\ d.kind # None /\ d.answer # None
    BY <2>2, <2>3 DEF Delivery, None
  <2>5. worker' = [worker EXCEPT ![w] = d]
    BY <2>1
  <2>. HIDE DEF d
  <2>. QED
    BY <1>2, <2>4, <2>5
<1>6. ASSUME NEW w \in Workers, Settle(w) \/ Deadlock(w) \/ Crash(w) PROVE WorkerType'
  <2>1. UNCHANGED worker \/ worker' = [worker EXCEPT ![w] = Idle]
    BY <1>6 DEF Settle, Deadlock, Crash, WorkerEnds
  <2>. QED
    BY <1>1, <1>4, <2>1
<1>. QED
  BY <1>1, <1>5, <1>6, Actions
     DEF BeginIngest, CommitStart, CommitEvent, Expire, Suppress, Unreachable, WorkerOnly,
         ExpirePlaceholder, RegisterDevice, BeginRegister, BeginSync, CommitCall, Appear, NewToken,
         Disappear, NewDeviceToken, PhoneOnly, vars

\* The phone's own state.
LEMMA StepPhone ==
    ASSUME TypeInv, [Next]_vars
    PROVE  PhoneType'
<1>1. ASSUME UNCHANGED phoneVars PROVE PhoneType'
  BY <1>1 DEF phoneVars, TypeInv, PhoneType
<1>2. CASE UNCHANGED activity /\ phoneGen' \in Nat /\ told' \subseteq Nat
  BY <1>2 DEF TypeInv, PhoneType
<1>3. ASSUME NEW a \in Activities, NEW x \in OnPhone, x.phase # "unborn" => x.run \in Runs,
             activity' = [activity EXCEPT ![a] = x], UNCHANGED <<phoneGen, told>>
      PROVE  PhoneType'
  BY <1>3 DEF TypeInv, PhoneType
<1>4. \A a \in Activities : /\ activity[a] \in OnPhone
                            /\ activity[a].phase # "unborn" => activity[a].run \in Runs
  BY DEF TypeInv, PhoneType
<1>5. ASSUME NEW a \in Activities, NEW r \in Runs, Appear(a, r) PROVE PhoneType'
  <2>. DEFINE x == [activity[a] EXCEPT !.run = r, !.phase = "shown"]
  <2>1. activity' = [activity EXCEPT ![a] = x] /\ UNCHANGED <<phoneGen, told>>
    BY <1>5, <1>4 DEF Appear, TypeInv, PhoneType, OnPhone
  <2>2. x \in OnPhone /\ x.run \in Runs
    BY <1>4 DEF OnPhone
  <2>. HIDE DEF x
  <2>. QED
    BY <1>3, <2>1, <2>2
<1>6. ASSUME NEW a \in Activities, NewToken(a) PROVE PhoneType'
  <2>. DEFINE x == [activity[a] EXCEPT !.gen = @ + 1]
  <2>1. activity' = [activity EXCEPT ![a] = x] /\ UNCHANGED <<phoneGen, told>>
    BY <1>6 DEF NewToken
  <2>2. x \in OnPhone /\ (x.phase # "unborn" => x.run \in Runs)
    BY <1>4 DEF OnPhone
  <2>. HIDE DEF x
  <2>. QED
    BY <1>3, <2>1, <2>2
<1>7. ASSUME NEW a \in Activities, Disappear(a) PROVE PhoneType'
  <2>. DEFINE x == [activity[a] EXCEPT !.phase = "over"]
  <2>1. activity' = [activity EXCEPT ![a] = x] /\ UNCHANGED <<phoneGen, told>>
    BY <1>7 DEF Disappear
  <2>2. x \in OnPhone /\ x.run \in Runs
    BY <1>7, <1>4 DEF OnPhone, Disappear, Shown
  <2>. HIDE DEF x
  <2>. QED
    BY <1>3, <2>1, <2>2
<1>8. CASE CommitCall
  <2>1. /\ activity' = [a \in Activities |->
                           IF call.kind = "register" /\ a \in DOMAIN call.report
                           THEN [activity[a] EXCEPT !.told = @ \cup {call.report[a].gen}]
                           ELSE activity[a]]
        /\ UNCHANGED <<phoneGen, told>> /\ call \in CallState
    BY <1>8 DEF CommitCall, TypeInv, CallType
  <2>2. ASSUME NEW a \in Activities
        PROVE  /\ activity'[a] \in OnPhone
               /\ activity'[a].phase # "unborn" => activity'[a].run \in Runs
    <3>1. CASE call.kind = "register" /\ a \in DOMAIN call.report
      <4>1. call.report[a].gen \in Nat
        BY <2>1, <3>1 DEF CallState, Report
      <4>2. activity'[a] = [activity[a] EXCEPT !.told = activity[a].told \cup {call.report[a].gen}]
        BY <2>1, <3>1
      <4>. QED
        BY <1>4, <4>1, <4>2 DEF OnPhone
    <3>2. CASE ~(call.kind = "register" /\ a \in DOMAIN call.report)
      BY <1>4, <2>1, <3>2
    <3>. QED
      BY <3>1, <3>2
  <2>. QED
    BY <2>1, <2>2 DEF TypeInv, PhoneType
<1>9. ASSUME NEW g \in 1..MaxGen, RegisterDevice(g) PROVE PhoneType'
  BY <1>2, <1>9 DEF RegisterDevice, TypeInv, PhoneType
<1>10. ASSUME NewDeviceToken PROVE PhoneType'
  BY <1>2, <1>10 DEF NewDeviceToken, TypeInv, PhoneType
<1>. QED
  BY <1>1, <1>5, <1>6, <1>7, <1>8, <1>9, <1>10, Actions
     DEF BeginIngest, CommitStart, CommitEvent, Expire, Suppress, Unreachable, WorkerOnly, Send,
         Settle, Deadlock, Crash, ExpirePlaceholder, BeginRegister, BeginSync, vars

LEMMA StepCount ==
    ASSUME TypeInv, [Next]_vars
    PROVE  CountType'
<1>1. ASSUME NEW i \in DOMAIN outbox, NEW w \in Workers, Send(w, i) PROVE CountType'
  <2>1. UNCHANGED ended \/ (outbox[i].kind = "END" /\ ended' = ended \cup {outbox[i].act})
    BY <1>1 DEF Send
  <2>2. outbox[i].kind = "END" => outbox[i].act \in Activities
    BY TargetOf DEF TypeInv, ServerType
  <2>3. UNCHANGED crashes
    BY <1>1 DEF Send
  <2>. QED
    BY <2>1, <2>2, <2>3 DEF TypeInv, CountType
<1>2. ASSUME NEW w \in Workers, Deadlock(w) \/ Crash(w) PROVE CountType'
  BY <1>2 DEF Deadlock, Crash, WorkerEnds, TypeInv, CountType
<1>3. CASE UNCHANGED <<ended, crashes>>
  BY <1>3 DEF TypeInv, CountType
<1>. QED
  BY <1>1, <1>2, <1>3, Actions
     DEF BeginIngest, CommitStart, CommitEvent, Expire, Suppress, Unreachable, WorkerOnly, Settle,
         ExpirePlaceholder, RegisterDevice, BeginRegister, BeginSync, CommitCall, Appear, NewToken,
         Disappear, NewDeviceToken, PhoneOnly, vars

LEMMA InitType == Init => TypeInv
<1>. SUFFICES ASSUME Init PROVE TypeInv
  OBVIOUS
<1>1. Shaped(outbox)
  BY DEF Init, Shaped
<1>2. ServerType
  BY <1>1 DEF Init, ServerType, BindingRow, NoBinding, Statuses
<1>3. WorkerType
  BY DEF Init, WorkerType, Idle, Delivery
<1>4. PhoneType
  BY DEF Init, PhoneType, OnPhone, NoActivity
<1>. QED
  BY <1>2, <1>3, <1>4 DEF Init, TypeInv, IngestType, CallType, CountType

LEMMA StepType == TypeInv /\ [Next]_vars => TypeInv'
  BY StepServer, StepIngest, StepCall, StepWorker, StepPhone, StepCount DEF TypeInv

\* Every variable has the shape its comment gives it, and only an update or an
\* END has a binding for its target.
THEOREM TypeCorrect == Spec => []TypeOK
<1>1. TypeInv => TypeOK
  BY DEF TypeInv, TypeOK, ServerType, IngestType, CallType, CallState, WorkerType, PhoneType,
         CountType, Shaped
<1>. QED
  BY <1>1, InitType, StepType, PTL DEF Spec

----------------------------------------------------------------------------
(* What a step does to the rows.                                           *)

\* Nothing but payloads and placeholders; new rows are fresh.
Quiet ==
    /\ \A i \in DOMAIN outbox : SameRow(outbox'[i], outbox[i])
    /\ \A i \in DOMAIN outbox' \ DOMAIN outbox :
          /\ outbox'[i].status = "pending" /\ outbox'[i].hits = 0
          /\ outbox'[i].kind = "START" => CommitStart /\ outbox'[i].run = ingest.run
    /\ UNCHANGED <<worker, crashes>>

\* A row is given up before it is sent.
Closed(i) ==
    /\ Due(i)
    /\ \E s \in {"expired", "suppressed", "cancelled"} : outbox' = [outbox EXCEPT ![i].status = s]
    /\ UNCHANGED <<worker, crashes>>

\* A worker ends with its row.
Dropped(w) ==
    /\ worker[w] # Idle
    /\ worker' = [worker EXCEPT ![w] = Idle]
    /\ crashes' = crashes + 1 /\ UNCHANGED outbox

\* The STARTs of a Run that ended are withdrawn, while nobody holds them.
Ending ==
    /\ \A i \in DOMAIN outbox :
          /\ outbox'[i].hits = outbox[i].hits
          /\ outbox'[i].status = IF i \in ingest.starts THEN "cancelled" ELSE outbox[i].status
          /\ outbox'[i].run = outbox[i].run
          /\ outbox'[i].kind = "START" <=> outbox[i].kind = "START"
    /\ \A i \in DOMAIN outbox' \ DOMAIN outbox : outbox'[i].hits = 0 /\ outbox'[i].kind # "START"
    /\ ingest.starts \cap Held = {}
    /\ UNCHANGED <<worker, crashes>>

\* The rows after the last event of a Run.
LEMMA EndingRows ==
    ASSUME TypeInv, CommitEvent, Terminal(StatusAfter(status[ingest.run], ingest.kind))
    PROVE  Ending
<1>1. PICK box : Rewritten(box, outbox) /\ outbox' = Withdrawn(box, ingest.starts)
  BY EventRows
<1>2. /\ DOMAIN outbox' = DOMAIN box
      /\ \A i \in DOMAIN box :
            outbox'[i] = IF i \in ingest.starts THEN [box[i] EXCEPT !.status = "cancelled"]
                         ELSE box[i]
  BY <1>1, WithdrawnRows DEF Rewritten
<1>3. /\ DOMAIN outbox \subseteq DOMAIN box /\ \A i \in DOMAIN box : box[i] \in Row
      /\ \A i \in DOMAIN outbox : SameRow(box[i], outbox[i])
      /\ \A i \in DOMAIN box \ DOMAIN outbox : box[i].hits = 0 /\ box[i].kind # "START"
  BY <1>1 DEF Rewritten, Shaped, TypeInv, ServerType
<1>4. \A i \in DOMAIN box :
         /\ outbox'[i].hits = box[i].hits /\ outbox'[i].kind = box[i].kind
         /\ outbox'[i].run = box[i].run
         /\ outbox'[i].status = IF i \in ingest.starts THEN "cancelled" ELSE box[i].status
  BY <1>2, <1>3 DEF Row
<1>5. ingest.starts \cap Held = {} /\ UNCHANGED <<worker, crashes>>
  BY DEF CommitEvent
<1>. QED
  BY <1>2, <1>3, <1>4, <1>5 DEF Ending, SameRow

\* The kinds of steps, as the rows see them.
LEMMA RowCases ==
    ASSUME TypeInv, [Next]_vars
    PROVE  \/ Quiet
           \/ \E i \in DOMAIN outbox : Closed(i)
           \/ \E i \in DOMAIN outbox, w \in Workers : Send(w, i)
           \/ \E w \in Workers : Settle(w) \/ Dropped(w)
           \/ /\ CommitEvent /\ Ending
              /\ Terminal(StatusAfter(status[ingest.run], ingest.kind))
<1>. Shaped(outbox)
  BY DEF TypeInv, ServerType
<1>1. ASSUME UNCHANGED <<outbox, worker, crashes>> PROVE Quiet
  BY <1>1 DEF Quiet, SameRow
<1>2. ASSUME Rewritten(outbox', outbox), UNCHANGED <<worker, crashes>> PROVE Quiet
  BY <1>2 DEF Quiet, Rewritten
<1>3. CASE CommitStart
  <2>1. CASE UNCHANGED outbox
    BY <1>1, <1>3, <2>1 DEF CommitStart
  <2>2. CASE outbox' = Append(outbox, NewRow("START", ingest.run, None))
    <3>. DEFINE row == NewRow("START", ingest.run, None)
    <3>1. row.status = "pending" /\ row.hits = 0 /\ row.run = ingest.run
      BY DEF NewRow
    <3>2. outbox' = Append(outbox, row) /\ UNCHANGED <<worker, crashes>>
      BY <1>3, <2>2 DEF CommitStart
    <3>. HIDE DEF row
    <3>3. outbox \in Seq(Row)
      BY DEF Shaped
    <3>4. /\ \A i \in DOMAIN outbox : outbox'[i] = outbox[i]
          /\ \A i \in DOMAIN outbox' \ DOMAIN outbox : outbox'[i] = row
      BY <3>2, <3>3
    <3>. QED
      BY <1>3, <3>1, <3>2, <3>4 DEF Quiet, SameRow
  <2>. QED
    BY <1>3, <2>1, <2>2 DEF CommitStart
<1>4. CASE CommitEvent
  <2>1. CASE Terminal(StatusAfter(status[ingest.run], ingest.kind))
    BY <1>4, <2>1, EndingRows
  <2>2. CASE ~Terminal(StatusAfter(status[ingest.run], ingest.kind))
    <3>1. Rewritten(outbox', outbox)
      BY <1>4, <2>2, EventRows
    <3>. QED
      BY <1>2, <1>4, <3>1 DEF CommitEvent
  <2>. QED
    BY <2>1, <2>2
<1>5. ASSUME NEW i \in DOMAIN outbox, Expire(i) \/ Suppress(i) \/ Unreachable(i) PROVE Closed(i)
  BY <1>5 DEF Closed, Expire, Suppress, Unreachable, WorkerOnly
<1>6. ASSUME NEW w \in Workers, Deadlock(w) \/ Crash(w) PROVE Quiet \/ Dropped(w)
  <2>1. worker[w] # Idle
    BY <1>6 DEF Deadlock, Crash, NeedsRun, Idle, None
  <2>. QED
    BY <1>1, <1>6, <2>1 DEF Deadlock, Crash, WorkerEnds, Dropped, serverVars
<1>7. ASSUME NEW i \in DOMAIN outbox, ExpirePlaceholder(i) PROVE Quiet
  <2>1. outbox[i] \in Row
    BY DEF Shaped
  <2>2. SameRow([outbox[i] EXCEPT !.place = "expired"], outbox[i])
    BY <2>1 DEF SameRow, Row
  <2>3. outbox' = [outbox EXCEPT ![i] = [outbox[i] EXCEPT !.place = "expired"]]
    BY <1>7 DEF ExpirePlaceholder
  <2>4. \A j \in DOMAIN outbox : SameRow(outbox'[j], outbox[j])
    BY <2>2, <2>3 DEF SameRow
  <2>. QED
    BY <1>7, <2>3, <2>4 DEF Quiet, ExpirePlaceholder
<1>8. CASE CommitCall
  BY <1>2, <1>8, CallRows DEF CommitCall
<1>. QED
  BY <1>1, <1>3, <1>4, <1>5, <1>6, <1>7, <1>8, Actions
     DEF BeginIngest, RegisterDevice, BeginRegister, BeginSync, Appear, NewToken,
         Disappear, NewDeviceToken, PhoneOnly, vars, serverVars

----------------------------------------------------------------------------
(* A row is accepted once, and once more for each worker that ended.       *)

\* Workers hold different rows, and what they hold is pending.
HeldApart ==
    /\ \A w \in Workers : worker[w] # Idle => outbox[worker[w].row].status = "pending"
    /\ \A v, w \in Workers : v # w /\ worker[v] # Idle /\ worker[w] # Idle
                             => worker[v].row # worker[w].row
    /\ \A w \in Workers : worker[w] # Idle /\ worker[w].answer = "accepted"
                          => outbox[worker[w].row].hits > 0

\* The last time APNs accepted a row is recorded, or a worker still knows it.
Counted(i) ==
    \/ ~Pending(i)
    \/ \E w \in Workers : worker[w].row = i /\ worker[w].answer = "accepted"

\* What APNs accepted and nobody knows any more.
Forgotten(i) == IF Counted(i) THEN 1..(outbox[i].hits - 1) ELSE 1..outbox[i].hits

Lost == UNION {{i} \X Forgotten(i) : i \in DOMAIN outbox}

LostBounded == IsFiniteSet(Lost) /\ Cardinality(Lost) <= crashes

\* A worker is idle or holds a row.
LEMMA HoldsRow ==
    ASSUME TypeInv, NEW w \in Workers
    PROVE  /\ worker[w] # Idle <=> worker[w].row # 0
           /\ worker[w] # Idle => worker[w].row \in Held /\ worker[w].row \in DOMAIN outbox
<1>1. DOMAIN outbox = 1..Len(outbox) /\ Len(outbox) \in Nat
  BY DEF TypeInv, ServerType, Shaped
<1>. QED
  BY <1>1 DEF TypeInv, WorkerType, Held, Idle

\* Send, field by field.
LEMMA SendFacts ==
    ASSUME TypeInv, NEW i \in DOMAIN outbox, NEW w \in Workers, Send(w, i)
    PROVE  /\ Due(i) /\ worker[w] = Idle /\ UNCHANGED <<status, ingest, crashes>>
           /\ DOMAIN outbox' = DOMAIN outbox
           /\ worker'[w] # Idle /\ worker'[w].row = i
           /\ \A v \in Workers \ {w} : worker'[v] = worker[v]
           /\ \A j \in DOMAIN outbox :
                 /\ outbox'[j].status = outbox[j].status /\ outbox'[j].run = outbox[j].run
                 /\ outbox'[j].kind = outbox[j].kind
                 /\ outbox'[j].hits = IF j = i /\ worker'[w].answer = "accepted"
                                      THEN outbox[j].hits + 1 ELSE outbox[j].hits
<1>1. PICK answer \in Answers(i) :
         /\ worker' = [worker EXCEPT ![w] = [row |-> i, kind |-> outbox[i].kind, answer |-> answer]]
         /\ outbox' = IF answer = "accepted" THEN [outbox EXCEPT ![i].hits = @ + 1] ELSE outbox
  BY DEF Send
<1>2. worker'[w] = [row |-> i, kind |-> outbox[i].kind, answer |-> answer]
      /\ \A v \in Workers \ {w} : worker'[v] = worker[v]
  BY <1>1 DEF TypeInv, WorkerType
<1>3. i # 0 /\ \A j \in DOMAIN outbox : outbox[j] \in Row
  BY DEF TypeInv, ServerType, Shaped
<1>4. worker'[w] # Idle
  BY <1>2, <1>3 DEF Idle
<1>5. DOMAIN outbox' = DOMAIN outbox
      /\ \A j \in DOMAIN outbox :
            outbox'[j] = IF j = i /\ answer = "accepted"
                         THEN [outbox[j] EXCEPT !.hits = outbox[j].hits + 1] ELSE outbox[j]
  BY <1>1
<1>. QED
  BY <1>2, <1>3, <1>4, <1>5 DEF Send, Row

\* Settle, field by field.
LEMMA SettleFacts ==
    ASSUME TypeInv, NEW w \in Workers, Settle(w)
    PROVE  LET i == worker[w].row IN
           /\ worker[w] # Idle /\ i \in DOMAIN outbox /\ UNCHANGED <<status, ingest, crashes>>
           /\ NeedsRun(w) => RunIsFree(outbox[i].run)
           /\ DOMAIN outbox' = DOMAIN outbox
           /\ worker' = [worker EXCEPT ![w] = Idle]
           /\ \A j \in DOMAIN outbox :
                 /\ outbox'[j].hits = outbox[j].hits /\ outbox'[j].run = outbox[j].run
                 /\ outbox'[j].kind = outbox[j].kind
                 /\ j # i => outbox'[j].status = outbox[j].status
           /\ outbox'[i].status \in {"sent", "failed", "pending"}
           /\ outbox'[i].status = "sent" <=> worker[w].answer = "accepted"
<1>. DEFINE i == worker[w].row
            row == RowAfter(outbox[i], worker[w].kind, worker[w].answer)
<1>1. worker[w] # Idle /\ UNCHANGED <<status, ingest, crashes>>
      /\ (NeedsRun(w) => RunIsFree(outbox[i].run))
      /\ outbox' = [outbox EXCEPT ![i] = row] /\ worker' = [worker EXCEPT ![w] = Idle]
  BY DEF Settle
<1>2. i \in DOMAIN outbox
  BY <1>1 DEF TypeInv, WorkerType
<1>3. outbox[i] \in Row
  BY <1>2 DEF TypeInv, ServerType, Shaped
<1>4. /\ row.run = outbox[i].run /\ row.kind = outbox[i].kind /\ row.hits = outbox[i].hits
      /\ row.status \in {"sent", "failed", "pending"}
      /\ row.status = "sent" <=> worker[w].answer = "accepted"
  BY <1>3, SettledRow
<1>. HIDE DEF row, i
<1>5. DOMAIN outbox' = DOMAIN outbox /\ outbox'[i] = row
      /\ \A j \in DOMAIN outbox \ {i} : outbox'[j] = outbox[j]
  BY <1>1, <1>2
<1>. QED
  BY <1>1, <1>2, <1>4, <1>5 DEF i

LEMMA StepHeld ==
    ASSUME TypeInv, HeldApart, [Next]_vars
    PROVE  HeldApart'
<1>. DOMAIN outbox \subseteq DOMAIN outbox' /\ \A w \in Workers : worker[w] \in Delivery
  BY StepFollows DEF Follows, Shaped, TypeInv, ServerType, WorkerType
<1>0. \A i \in DOMAIN outbox : outbox[i].hits \in Nat
  <2>1. \A i \in DOMAIN outbox : outbox[i] \in Row
    BY DEF TypeInv, ServerType, Shaped
  <2>. QED
    BY <2>1 DEF Row
<1>1. ASSUME UNCHANGED worker,
             \A i \in DOMAIN outbox : outbox'[i].hits = outbox[i].hits,
             \A i \in DOMAIN outbox : i \in Held => outbox'[i].status = outbox[i].status
      PROVE  HeldApart'
  BY <1>1, HoldsRow DEF HeldApart, Idle
<1>2. CASE Quiet
  BY <1>1, <1>2 DEF Quiet, SameRow
<1>3. ASSUME NEW i \in DOMAIN outbox, Closed(i) PROVE HeldApart'
  <2>1. PICK s : outbox' = [outbox EXCEPT ![i].status = s]
    BY <1>3 DEF Closed
  <2>2. i \notin Held
    BY <1>3 DEF Closed, Due, MayTake
  <2>3. \A j \in DOMAIN outbox : outbox[j] \in Row
    BY DEF TypeInv, ServerType, Shaped
  <2>4. \A j \in DOMAIN outbox : outbox'[j].hits = outbox[j].hits
    BY <2>1, <2>3 DEF Row
  <2>5. \A j \in DOMAIN outbox : j \in Held => outbox'[j].status = outbox[j].status
    BY <2>1, <2>2
  <2>. QED
    BY <1>1, <1>3, <2>4, <2>5 DEF Closed
<1>4. ASSUME NEW i \in DOMAIN outbox, NEW w \in Workers, Send(w, i) PROVE HeldApart'
  <2>1. i \notin Held /\ outbox[i].status = "pending"
    BY <1>4 DEF Send, Due, MayTake, Pending
  <2>2. \A v \in Workers \ {w} : worker[v] # Idle => worker[v].row # i /\ worker[v].row \in DOMAIN outbox
    BY <2>1, HoldsRow
  <2>. QED
    BY <1>0, <1>4, <2>1, <2>2, SendFacts DEF HeldApart, Idle
<1>5. ASSUME NEW w \in Workers, Settle(w) PROVE HeldApart'
  <2>. DEFINE i == worker[w].row
  <2>1. /\ worker[w] # Idle /\ i \in DOMAIN outbox /\ worker' = [worker EXCEPT ![w] = Idle]
        /\ \A j \in DOMAIN outbox : outbox'[j].hits = outbox[j].hits
        /\ \A j \in DOMAIN outbox \ {i} : outbox'[j].status = outbox[j].status
    BY <1>5, SettleFacts
  <2>2. worker'[w] = Idle /\ \A v \in Workers \ {w} : worker'[v] = worker[v]
    BY <2>1 DEF TypeInv, WorkerType
  <2>3. \A v \in Workers \ {w} : worker[v] # Idle => worker[v].row # i /\ worker[v].row \in DOMAIN outbox
    BY <2>1, HoldsRow DEF HeldApart
  <2>. HIDE DEF i
  <2>. QED
    BY <2>1, <2>2, <2>3 DEF HeldApart, Idle
<1>6. ASSUME NEW w \in Workers, Dropped(w) PROVE HeldApart'
  <2>1. worker'[w] = Idle /\ \A v \in Workers \ {w} : worker'[v] = worker[v]
    BY <1>6 DEF Dropped, TypeInv, WorkerType
  <2>. QED
    BY <1>6, <2>1 DEF Dropped, HeldApart, Idle
<1>7. CASE Ending
  BY <1>1, <1>7 DEF Ending
<1>. QED
  BY <1>2, <1>3, <1>4, <1>5, <1>6, <1>7, RowCases

LEMMA StepLost ==
    ASSUME TypeInv, HeldApart, LostBounded, [Next]_vars
    PROVE  LostBounded'
<1>0. /\ DOMAIN outbox \subseteq DOMAIN outbox' /\ worker \in [Workers -> Delivery]
      /\ \A i \in DOMAIN outbox : i \in Nat \ {0} /\ outbox[i].hits \in Nat
  <2>1. \A i \in DOMAIN outbox : outbox[i] \in Row
    BY DEF TypeInv, ServerType, Shaped
  <2>2. \A i \in DOMAIN outbox : outbox[i].hits \in Nat
    BY <2>1 DEF Row
  <2>. QED
    BY <2>2, StepFollows DEF Follows, Shaped, TypeInv, ServerType, WorkerType
<1>1. ASSUME \A i \in DOMAIN outbox : Forgotten(i)' \subseteq Forgotten(i),
             \A i \in DOMAIN outbox' \ DOMAIN outbox : outbox'[i].hits = 0,
             UNCHANGED crashes
      PROVE  LostBounded'
  <2>1. \A i \in DOMAIN outbox' \ DOMAIN outbox : Forgotten(i)' = {}
    BY <1>1 DEF Forgotten
  <2>2. ASSUME NEW x \in Lost' PROVE x \in Lost
    <3>1. PICK i \in DOMAIN outbox' : x \in {i} \X Forgotten(i)'
      BY DEF Lost
    <3>2. i \in DOMAIN outbox /\ Forgotten(i)' \subseteq Forgotten(i)
      BY <1>1, <2>1, <3>1
    <3>. QED
      BY <3>1, <3>2 DEF Lost
  <2>3. Cardinality(Lost) \in Nat /\ Cardinality(Lost') \in Nat /\ IsFiniteSet(Lost')
        /\ Cardinality(Lost') <= Cardinality(Lost)
    BY <2>2, FS_Subset, FS_CardinalityType DEF LostBounded
  <2>. QED
    BY <1>1, <2>3 DEF LostBounded, TypeInv, CountType
<1>2. CASE Quiet
  <2>1. ASSUME NEW i \in DOMAIN outbox PROVE Forgotten(i)' = Forgotten(i)
    BY <1>2, <2>1 DEF Quiet, SameRow, Forgotten, Counted, Pending
  <2>. QED
    BY <1>1, <1>2, <2>1 DEF Quiet
<1>3. ASSUME NEW i \in DOMAIN outbox, Closed(i) PROVE LostBounded'
  <2>1. PICK s \in {"expired", "suppressed", "cancelled"} : outbox' = [outbox EXCEPT ![i].status = s]
    BY <1>3 DEF Closed
  <2>2. \A j \in DOMAIN outbox : outbox[j] \in Row
    BY DEF TypeInv, ServerType, Shaped
  <2>3. /\ DOMAIN outbox' = DOMAIN outbox
        /\ \A j \in DOMAIN outbox : /\ outbox'[j].hits = outbox[j].hits
                                    /\ j # i => outbox'[j].status = outbox[j].status
        /\ outbox'[i].status # "pending"
    BY <2>1, <2>2 DEF Row
  <2>4. ASSUME NEW j \in DOMAIN outbox PROVE Forgotten(j)' \subseteq Forgotten(j)
    <3>1. UNCHANGED worker
      BY <1>3 DEF Closed
    <3>2. Pending(j)' => Pending(j)
      BY <2>3 DEF Pending
    <3>3. Counted(j) => Counted(j)'
      BY <3>1, <3>2 DEF Counted
    <3>4. outbox'[j].hits = outbox[j].hits /\ outbox[j].hits \in Nat
      BY <1>0, <2>3
    <3>. QED
      BY <3>3, <3>4 DEF Forgotten
  <2>. QED
    BY <1>1, <1>3, <2>3, <2>4 DEF Closed
<1>4. ASSUME NEW i \in DOMAIN outbox, NEW w \in Workers, Send(w, i) PROVE LostBounded'
  <2>1. /\ worker[w].row = 0 /\ worker'[w].row = i /\ outbox[i].status = "pending" /\ i \notin Held
        /\ DOMAIN outbox' = DOMAIN outbox /\ UNCHANGED crashes
        /\ \A v \in Workers \ {w} : worker'[v] = worker[v]
        /\ \A j \in DOMAIN outbox :
              /\ outbox'[j].status = outbox[j].status
              /\ outbox'[j].hits = IF j = i /\ worker'[w].answer = "accepted"
                                   THEN outbox[j].hits + 1 ELSE outbox[j].hits
    BY <1>4, SendFacts DEF Due, MayTake, Pending, Idle
  <2>2. ASSUME NEW j \in DOMAIN outbox, j # i PROVE Forgotten(j)' = Forgotten(j)
    <3>1. Counted(j)' <=> Counted(j)
      BY <1>0, <2>1, <2>2 DEF Counted, Pending
    <3>. QED
      BY <2>1, <2>2, <3>1 DEF Forgotten
  <2>3. Forgotten(i)' \subseteq Forgotten(i)
    <3>1. \A v \in Workers : worker[v].row # i
      BY <1>0, <2>1 DEF Held
    <3>2. Forgotten(i) = 1..outbox[i].hits
      BY <2>1, <3>1 DEF Forgotten, Counted, Pending
    <3>3. CASE worker'[w].answer = "accepted"
      <4>1. Counted(i)'
        BY <2>1, <3>3 DEF Counted
      <4>2. outbox'[i].hits = outbox[i].hits + 1
        BY <2>1, <3>3
      <4>. QED
        BY <1>0, <3>2, <4>1, <4>2 DEF Forgotten
    <3>4. CASE worker'[w].answer # "accepted"
      <4>1. outbox'[i].hits = outbox[i].hits
        BY <2>1, <3>4
      <4>. QED
        BY <1>0, <3>2, <4>1 DEF Forgotten
    <3>. QED
      BY <3>3, <3>4
  <2>. QED
    BY <1>1, <2>1, <2>2, <2>3
<1>5. ASSUME NEW w \in Workers, Settle(w) PROVE LostBounded'
  <2>0. PICK i \in DOMAIN outbox : i = worker[w].row
    BY <1>5, SettleFacts
  <2>1. /\ worker[w] # Idle /\ i \in DOMAIN outbox /\ worker' = [worker EXCEPT ![w] = Idle]
        /\ DOMAIN outbox' = DOMAIN outbox /\ UNCHANGED crashes
        /\ \A j \in DOMAIN outbox : outbox'[j].hits = outbox[j].hits
        /\ \A j \in DOMAIN outbox \ {i} : outbox'[j].status = outbox[j].status
        /\ outbox'[i].status = "sent" <=> worker[w].answer = "accepted"
    BY <1>5, <2>0, SettleFacts
  <2>2. worker'[w] = Idle /\ \A v \in Workers \ {w} : worker'[v] = worker[v]
    BY <1>0, <2>1
  <2>3. outbox[i].status = "pending" /\ \A v \in Workers \ {w} : worker[v].row # i
    BY <1>0, <2>0, <2>1, HoldsRow DEF HeldApart
  <2>4. ASSUME NEW j \in DOMAIN outbox PROVE Counted(j) => Counted(j)'
    <3>1. CASE j = i
      <4>1. Counted(i) => worker[w].answer = "accepted"
        BY <2>3 DEF Counted, Pending
      <4>2. worker[w].answer = "accepted" => ~Pending(i)'
        BY <2>1 DEF Pending
      <4>. QED
        BY <3>1, <4>1, <4>2 DEF Counted
    <3>2. CASE j # i
      BY <2>0, <2>1, <2>2, <3>2 DEF Counted, Pending
    <3>. QED
      BY <3>1, <3>2
  <2>5. ASSUME NEW j \in DOMAIN outbox PROVE Forgotten(j)' \subseteq Forgotten(j)
    BY <1>0, <2>1, <2>4 DEF Forgotten
  <2>. QED
    BY <1>1, <2>1, <2>5
<1>6. ASSUME NEW w \in Workers, Dropped(w) PROVE LostBounded'
  <2>0. PICK i \in DOMAIN outbox : i = worker[w].row
    BY <1>6, HoldsRow DEF Dropped
  <2>. DEFINE p == <<i, outbox[i].hits>>
  <2>1. worker[w] # Idle /\ UNCHANGED outbox /\ crashes' = crashes + 1
        /\ worker'[w] = Idle /\ \A v \in Workers \ {w} : worker'[v] = worker[v]
    BY <1>0, <1>6 DEF Dropped
  <2>2. ASSUME NEW j \in DOMAIN outbox PROVE Forgotten(j)' \subseteq Forgotten(j) \cup {outbox[j].hits}
    BY <1>0, <2>1 DEF Forgotten
  <2>3. ASSUME NEW j \in DOMAIN outbox, j # i PROVE Forgotten(j)' \subseteq Forgotten(j)
    <3>1. Counted(j) => Counted(j)'
      BY <1>0, <2>0, <2>1, <2>3 DEF Counted, Pending, Idle
    <3>. QED
      BY <1>0, <2>1, <3>1 DEF Forgotten
  <2>4. ASSUME NEW x \in Lost' PROVE x \in Lost \cup {p}
    <3>1. PICK j \in DOMAIN outbox : x \in {j} \X Forgotten(j)'
      BY <2>1 DEF Lost
    <3>2. x \in {j} \X Forgotten(j) \/ (j = i /\ x = <<j, outbox[j].hits>>)
      BY <2>2, <2>3, <3>1
    <3>. QED
      BY <3>2 DEF Lost
  <2>. HIDE DEF p
  <2>5. IsFiniteSet(Lost \cup {p}) /\ Cardinality(Lost \cup {p}) <= Cardinality(Lost) + 1
        /\ Cardinality(Lost) \in Nat
    <3>1. IsFiniteSet(Lost) /\ Cardinality(Lost) \in Nat
      BY FS_CardinalityType DEF LostBounded
    <3>2. /\ IsFiniteSet(Lost \cup {p})
          /\ Cardinality(Lost \cup {p}) = IF p \in Lost THEN Cardinality(Lost)
                                          ELSE Cardinality(Lost) + 1
      BY <3>1, FS_AddElement
    <3>. QED
      BY <3>1, <3>2
  <2>6. IsFiniteSet(Lost') /\ Cardinality(Lost') <= Cardinality(Lost \cup {p})
        /\ Cardinality(Lost \cup {p}) \in Nat /\ Cardinality(Lost') \in Nat
    BY <2>4, <2>5, FS_Subset, FS_CardinalityType
  <2>7. crashes \in Nat /\ Cardinality(Lost) <= crashes
    BY DEF LostBounded, TypeInv, CountType
  <2>8. Cardinality(Lost') <= crashes'
    BY <2>1, <2>5, <2>6, <2>7
  <2>. QED
    BY <2>6, <2>8 DEF LostBounded
<1>7. CASE Ending
  <2>1. ASSUME NEW i \in DOMAIN outbox PROVE Forgotten(i)' \subseteq Forgotten(i)
    <3>1. Counted(i) => Counted(i)'
      BY <1>7 DEF Ending, Counted, Pending
    <3>. QED
      BY <1>0, <1>7, <3>1 DEF Ending, Forgotten
  <2>. QED
    BY <1>1, <1>7, <2>1 DEF Ending
<1>. QED
  BY <1>2, <1>3, <1>4, <1>5, <1>6, <1>7, RowCases

SendInv == TypeInv /\ HeldApart /\ LostBounded

LEMMA SendInvariant == (Init => SendInv) /\ (SendInv /\ [Next]_vars => SendInv')
<1>1. Init => HeldApart
  BY DEF Init, HeldApart
<1>2. ASSUME Init PROVE LostBounded
  <2>1. Lost = {}
    BY <1>2 DEF Init, Lost
  <2>2. crashes = 0
    BY <1>2 DEF Init
  <2>. QED
    BY <2>1, <2>2, FS_EmptySet DEF LostBounded
<1>. QED
  BY <1>1, <1>2, InitType, StepType, StepHeld, StepLost DEF SendInv

\* APNs accepts a row once, and once more for each worker that ended before it
\* had recorded the answer.
THEOREM RowsAreSentOnce == Spec => []SentOnce
<1>1. SendInv => SentOnce
  <2>. SUFFICES ASSUME SendInv PROVE SentOnce
    OBVIOUS
  <2>1. \A i \in DOMAIN outbox : outbox[i] \in Row
    BY DEF SendInv, TypeInv, ServerType, Shaped
  <2>2. \A i \in DOMAIN outbox : outbox[i].hits \in Nat
    BY <2>1 DEF Row
  <2>3. ASSUME NEW x \in Repeats PROVE x \in Lost
    <3>1. PICK i \in DOMAIN outbox : x \in Hits(i) \ {<<i, outbox[i].hits>>}
      BY DEF Repeats
    <3>2. x \in {i} \X (1..(outbox[i].hits - 1))
      BY <2>2, <3>1 DEF Hits
    <3>3. 1..(outbox[i].hits - 1) \subseteq Forgotten(i)
      BY <2>2 DEF Forgotten
    <3>. QED
      BY <3>2, <3>3 DEF Lost
  <2>4. Cardinality(Repeats) <= Cardinality(Lost)
        /\ Cardinality(Repeats) \in Nat /\ Cardinality(Lost) \in Nat
    BY <2>3, FS_Subset, FS_CardinalityType DEF SendInv, LostBounded
  <2>. QED
    BY <2>4 DEF SendInv, LostBounded, TypeInv, CountType, SentOnce
<1>. QED
  BY <1>1, SendInvariant, PTL DEF Spec

----------------------------------------------------------------------------
(* The STARTs of a Run and its end.                                        *)

\* Who writes the status of a Run, and the open event transaction.
LEMMA IngestCases ==
    ASSUME [Next]_vars
    PROVE  \/ \E r \in Runs, kind \in EventKinds : BeginIngest(r, kind)
           \/ CommitStart \/ CommitEvent
           \/ UNCHANGED <<status, fallback, refused>> /\ (UNCHANGED ingest \/ ingest' = NoIngest)
  BY Actions
     DEF Expire, Suppress, Unreachable, WorkerOnly, Send, Settle, Deadlock, Crash,
         ExpirePlaceholder, RegisterDevice, BeginRegister, BeginSync, CommitCall, Appear,
         NewToken, Disappear, NewDeviceToken, PhoneOnly, vars, serverVars

\* A START is queued by an event of its Run and by nothing else, and what is
\* pending was pending.
LEMMA PendingKeeps ==
    ASSUME TypeInv, HeldApart, [Next]_vars, NEW r \in Runs, ~(CommitStart /\ ingest.run = r)
    PROVE  /\ PendingStarts(r)' \subseteq PendingStarts(r)
           /\ Ending => PendingStarts(r)' \cap ingest.starts = {}
<1>1. /\ DOMAIN outbox \subseteq DOMAIN outbox' /\ \A i \in DOMAIN outbox : outbox[i] \in Row
      /\ \A i \in DOMAIN outbox : /\ outbox'[i].run = outbox[i].run
                                  /\ outbox'[i].kind = "START" <=> outbox[i].kind = "START"
  BY StepFollows DEF Follows, Shaped, TypeInv, ServerType
<1>2. ASSUME \A i \in DOMAIN outbox : outbox'[i].status = "pending" => outbox[i].status = "pending",
             \A i \in DOMAIN outbox' \ DOMAIN outbox :
                ~(outbox'[i].kind = "START" /\ outbox'[i].run = r)
      PROVE  PendingStarts(r)' \subseteq PendingStarts(r)
  BY <1>1, <1>2 DEF PendingStarts, Pending
<1>3. ASSUME Quiet PROVE PendingStarts(r)' \subseteq PendingStarts(r)
  BY <1>2, <1>3 DEF Quiet, SameRow
<1>4. ASSUME NEW i \in DOMAIN outbox, Closed(i) PROVE PendingStarts(r)' \subseteq PendingStarts(r)
  <2>1. PICK s \in {"expired", "suppressed", "cancelled"} : outbox' = [outbox EXCEPT ![i].status = s]
    BY <1>4 DEF Closed
  <2>2. /\ DOMAIN outbox' = DOMAIN outbox
        /\ \A j \in DOMAIN outbox : outbox'[j].status = IF j = i THEN s ELSE outbox[j].status
    BY <1>1, <2>1 DEF Row
  <2>. QED
    BY <1>2, <2>2
<1>5. ASSUME NEW i \in DOMAIN outbox, NEW w \in Workers, Send(w, i)
      PROVE  PendingStarts(r)' \subseteq PendingStarts(r)
  BY <1>2, <1>5, SendFacts
<1>6. ASSUME NEW w \in Workers, Settle(w) PROVE PendingStarts(r)' \subseteq PendingStarts(r)
  BY <1>2, <1>6, SettleFacts DEF HeldApart
<1>7. ASSUME NEW w \in Workers, Dropped(w) PROVE PendingStarts(r)' \subseteq PendingStarts(r)
  BY <1>2, <1>7 DEF Dropped
<1>8. ASSUME Ending
      PROVE  /\ PendingStarts(r)' \subseteq PendingStarts(r)
             /\ PendingStarts(r)' \cap ingest.starts = {}
  <2>1. PendingStarts(r)' \subseteq PendingStarts(r)
    BY <1>2, <1>8 DEF Ending
  <2>. QED
    BY <1>1, <1>8, <2>1 DEF Ending, PendingStarts, Pending
<1>. QED
  BY <1>3, <1>4, <1>5, <1>6, <1>7, <1>8, RowCases

\* The transaction of an event knows the pending STARTs of its Run, and a Run
\* that ended has none.
StartsKnown ==
    /\ ingest # NoIngest => Accepts(status[ingest.run], ingest.kind)
    /\ ingest # NoIngest => PendingStarts(ingest.run) \subseteq ingest.starts
    /\ \A r \in Runs : Terminal(status[r]) => PendingStarts(r) = {}
    /\ \A r \in fallback : Terminal(status[r])

LEMMA StepStarts ==
    ASSUME TypeInv, HeldApart, StartsKnown, [Next]_vars
    PROVE  StartsKnown'
<1>0. status \in [Runs -> Statuses] /\ fallback \subseteq Runs
  BY DEF TypeInv, ServerType
<1>1. ASSUME NEW r \in Runs, NEW kind \in EventKinds, BeginIngest(r, kind) PROVE StartsKnown'
  <2>1. /\ UNCHANGED <<status, fallback, outbox>> /\ Accepts(status[r], kind)
        /\ ingest'.run = r /\ ingest'.kind = kind /\ ingest'.starts = PendingStarts(r)
    BY <1>1 DEF BeginIngest, serverVars
  <2>. QED
    BY <2>1 DEF StartsKnown, PendingStarts, Pending
<1>2. CASE CommitStart
  <2>0. PICK r \in Runs : r = ingest.run
    BY <1>2 DEF CommitStart, TypeInv, IngestType
  <2>1. /\ ingest' = NoIngest /\ UNCHANGED fallback
        /\ status' = [status EXCEPT ![r] = StatusAfter(status[r], ingest.kind)]
        /\ Accepts(status[r], ingest.kind)
    BY <1>2, <2>0 DEF CommitStart, TypeInv, IngestType, StartsKnown
  <2>2. ~Terminal(StatusAfter(status[r], ingest.kind)) /\ ~Terminal(status[r])
    BY <1>2, <2>1 DEF CommitStart, StartKinds, StatusAfter, StatusKinds, EventStatus, Terminal,
                      TerminalStatuses, Accepts
  <2>3. \A x \in Runs \ {r} : PendingStarts(x)' \subseteq PendingStarts(x)
    BY <2>0, PendingKeeps
  <2>. QED
    BY <1>0, <2>1, <2>2, <2>3 DEF StartsKnown
<1>3. CASE CommitEvent
  <2>0. PICK r \in Runs, s \in {StatusAfter(status[r], ingest.kind) : r \in Runs} :
             r = ingest.run /\ s = StatusAfter(status[r], ingest.kind)
    BY <1>3 DEF CommitEvent, TypeInv, IngestType
  <2>1. /\ ingest' = NoIngest /\ status' = [status EXCEPT ![r] = s]
        /\ ~Terminal(s) => UNCHANGED fallback
        /\ fallback' = fallback \/ fallback' = fallback \cup {r}
        /\ PendingStarts(r) \subseteq ingest.starts /\ ~CommitStart /\ ~Terminal(status[r])
    BY <1>3, <2>0, NotifyCases
       DEF CommitEvent, CommitStart, TypeInv, IngestType, StartsKnown, Accepts, Terminal
  <2>2. \A x \in Runs : PendingStarts(x)' \subseteq PendingStarts(x)
    BY <2>1, PendingKeeps
  <2>3. Terminal(s) => PendingStarts(r)' = {}
    <3>1. ASSUME Terminal(s) PROVE PendingStarts(r)' \cap ingest.starts = {}
      BY <1>3, <2>0, <2>1, <3>1, EndingRows, PendingKeeps
    <3>. QED
      BY <2>1, <2>2, <3>1
  <2>. QED
    BY <1>0, <2>1, <2>2, <2>3 DEF StartsKnown
<1>4. CASE UNCHANGED <<status, fallback, refused>> /\ (UNCHANGED ingest \/ ingest' = NoIngest) /\ ~CommitStart
  <2>1. \A x \in Runs : PendingStarts(x)' \subseteq PendingStarts(x)
    BY <1>4, PendingKeeps
  <2>2. ingest # NoIngest => ingest.run \in Runs
    BY DEF TypeInv, IngestType
  <2>. QED
    BY <1>4, <2>1, <2>2 DEF StartsKnown
<1>. QED
  BY <1>1, <1>2, <1>3, <1>4, IngestCases

StartInv == TypeInv /\ HeldApart /\ StartsKnown

LEMMA StartInvariant == (Init => StartInv) /\ (StartInv /\ [Next]_vars => StartInv')
<1>1. Init => HeldApart
  BY DEF Init, HeldApart
<1>2. Init => StartsKnown
  BY DEF Init, StartsKnown, PendingStarts, Terminal, TerminalStatuses
<1>. QED
  BY <1>1, <1>2, InitType, StepType, StepHeld, StepStarts DEF StartInv

\* No START is sent once the end of its Run is recorded: the handler withdraws
\* every pending one, and waits for the worker that is sending one.
THEOREM StartsComeBeforeTheEnd == Spec => NoLateStart
<1>. DEFINE Late == \A i \in DOMAIN outbox :
                       outbox[i].kind = "START" /\ outbox'[i].hits > outbox[i].hits
                       => ~Terminal(status[outbox[i].run])
<1>1. ASSUME StartInv, [Next]_vars PROVE [Late]_vars
  <2>. SUFFICES ASSUME NEW i \in DOMAIN outbox, outbox[i].kind = "START",
                       outbox'[i].hits > outbox[i].hits, Terminal(status[outbox[i].run])
                PROVE  FALSE
    OBVIOUS
  <2>1. outbox[i] \in Row /\ TypeInv /\ StartsKnown
    BY <1>1 DEF StartInv, TypeInv, ServerType, Shaped
  <2>2. outbox[i].hits \in Nat /\ outbox[i].run \in Runs
    BY <2>1 DEF Row
  <2>3. outbox'[i].hits # outbox[i].hits
    BY <2>2
  <2>4. \E w \in Workers : Send(w, i)
    <3>1. ~Quiet /\ ~Ending
      BY <2>3 DEF Quiet, SameRow, Ending
    <3>2. ASSUME NEW j \in DOMAIN outbox, Closed(j) PROVE FALSE
      <4>1. PICK s : outbox' = [outbox EXCEPT ![j].status = s]
        BY <3>2 DEF Closed
      <4>. QED
        BY <2>1, <2>3, <4>1 DEF Row
    <3>3. ASSUME NEW w \in Workers, Settle(w) \/ Dropped(w) PROVE FALSE
      BY <2>1, <2>3, <3>3, SettleFacts DEF Dropped
    <3>4. ASSUME NEW j \in DOMAIN outbox, NEW w \in Workers, Send(w, j) PROVE j = i
      BY <2>1, <2>3, <3>4, SendFacts
    <3>. QED
      BY <1>1, <2>1, <3>1, <3>2, <3>3, <3>4, RowCases
  <2>5. i \in PendingStarts(outbox[i].run)
    BY <2>4 DEF Send, Due, MayTake, PendingStarts
  <2>. QED
    BY <2>1, <2>2, <2>5 DEF StartsKnown
<1>. QED
  BY <1>1, StartInvariant, PTL DEF Spec, NoLateStart

----------------------------------------------------------------------------
(* A failed Run is shown or notified.                                      *)

\* What APNs accepted stays accepted, and a START is sent if APNs accepted it.
LEMMA HitsStay ==
    ASSUME TypeInv, HeldApart, [Next]_vars
    PROVE  /\ \A i \in DOMAIN outbox : /\ i \in DOMAIN outbox' /\ outbox'[i].hits >= outbox[i].hits
                                       /\ outbox'[i].run = outbox[i].run
                                       /\ outbox'[i].kind = "START" <=> outbox[i].kind = "START"
           /\ \A i \in DOMAIN outbox' :
                 outbox'[i].kind = "START" /\ outbox'[i].status = "sent"
                 => i \in DOMAIN outbox /\ (outbox[i].status = "sent" \/ outbox[i].hits > 0)
<1>1. /\ DOMAIN outbox \subseteq DOMAIN outbox' /\ \A i \in DOMAIN outbox : outbox[i] \in Row
      /\ \A i \in DOMAIN outbox : /\ outbox'[i].run = outbox[i].run
                                  /\ outbox'[i].kind = "START" <=> outbox[i].kind = "START"
  BY StepFollows DEF Follows, Shaped, TypeInv, ServerType
<1>2. \A i \in DOMAIN outbox : outbox[i].hits \in Nat
  BY <1>1 DEF Row
<1>. DEFINE Grow == \A i \in DOMAIN outbox : outbox'[i].hits >= outbox[i].hits
            Sent == \A i \in DOMAIN outbox' :
                       outbox'[i].kind = "START" /\ outbox'[i].status = "sent"
                       => i \in DOMAIN outbox /\ (outbox[i].status = "sent" \/ outbox[i].hits > 0)
<1>3. ASSUME Quiet PROVE Grow /\ Sent
  BY <1>2, <1>3 DEF Quiet, SameRow
<1>4. ASSUME NEW i \in DOMAIN outbox, Closed(i) PROVE Grow /\ Sent
  <2>1. PICK s \in {"expired", "suppressed", "cancelled"} : outbox' = [outbox EXCEPT ![i].status = s]
    BY <1>4 DEF Closed
  <2>2. /\ DOMAIN outbox' = DOMAIN outbox
        /\ \A j \in DOMAIN outbox : /\ outbox'[j].status = IF j = i THEN s ELSE outbox[j].status
                                    /\ outbox'[j].hits = outbox[j].hits
    BY <1>1, <2>1 DEF Row
  <2>. QED
    BY <1>2, <2>2
<1>5. ASSUME NEW i \in DOMAIN outbox, NEW w \in Workers, Send(w, i) PROVE Grow /\ Sent
  BY <1>2, <1>5, SendFacts
<1>6. ASSUME NEW w \in Workers, Settle(w) PROVE Grow /\ Sent
  BY <1>2, <1>6, SettleFacts DEF HeldApart
<1>7. ASSUME NEW w \in Workers, Dropped(w) PROVE Grow /\ Sent
  BY <1>2, <1>7 DEF Dropped
<1>8. ASSUME Ending PROVE Grow /\ Sent
  BY <1>2, <1>8 DEF Ending
<1>. HIDE DEF Grow, Sent
<1>9. Grow /\ Sent
  BY <1>3, <1>4, <1>5, <1>6, <1>7, <1>8, RowCases DEF Grow, Sent
<1>. QED
  BY <1>1, <1>9 DEF Grow, Sent

\* A Run whose end asks for a notification has one, or a START that was accepted,
\* or was refused one for the day.
NotSilent ==
    /\ \A i \in DOMAIN outbox :
          outbox[i].kind = "START" /\ outbox[i].status = "sent" => outbox[i].hits > 0
    /\ \A r \in Runs : status[r] \in {"FAILED", "LOST"} =>
          r \in fallback \cup refused \/ \E i \in StartRows(r) : outbox[i].hits > 0

LEMMA StepSilent ==
    ASSUME TypeInv, HeldApart, NotSilent, [Next]_vars
    PROVE  NotSilent'
<1>0. \A i \in DOMAIN outbox' : outbox'[i].hits \in Nat
  <2>1. \A i \in DOMAIN outbox' : outbox'[i] \in Row
    BY StepFollows DEF Follows, Shaped
  <2>. QED
    BY <2>1 DEF Row
<1>1. \A i \in DOMAIN outbox : outbox[i].hits \in Nat
  <2>1. \A i \in DOMAIN outbox : outbox[i] \in Row
    BY DEF TypeInv, ServerType, Shaped
  <2>. QED
    BY <2>1 DEF Row
<1>2. \A i \in DOMAIN outbox' :
         outbox'[i].kind = "START" /\ outbox'[i].status = "sent" => outbox'[i].hits > 0
  BY <1>0, <1>1, HitsStay DEF NotSilent
<1>3. ASSUME NEW r \in Runs, \E i \in StartRows(r) : outbox[i].hits > 0
      PROVE  \E i \in StartRows(r)' : outbox'[i].hits > 0
  BY <1>0, <1>1, <1>3, HitsStay DEF StartRows
<1>4. ASSUME NEW r \in Runs, status'[r] \in {"FAILED", "LOST"}
      PROVE  r \in fallback' \cup refused' \/ \E i \in StartRows(r)' : outbox'[i].hits > 0
  <2>1. CASE status'[r] = status[r] /\ fallback \subseteq fallback' /\ refused \subseteq refused'
    BY <1>3, <1>4, <2>1 DEF NotSilent
  <2>2. CASE CommitEvent /\ ingest.run = r
    <3>1. status'[r] = StatusAfter(status[r], ingest.kind)
      BY <2>2 DEF CommitEvent, TypeInv, ServerType
    <3>2. CASE StartWasSent(ingest.starts, r)
      BY <1>3, <3>2 DEF StartWasSent, NotSilent, StartRows
    <3>3. CASE ~StartWasSent(ingest.starts, r)
      BY <1>4, <2>2, <3>1, <3>3, NotifyCases
    <3>. QED
      BY <3>2, <3>3
  <2>3. CASE CommitEvent /\ ingest.run # r
    BY <2>1, <2>3, NotifyCases DEF CommitEvent, TypeInv, ServerType
  <2>4. CASE CommitStart /\ ingest.run # r
    BY <2>1, <2>4 DEF CommitStart, TypeInv, ServerType
  <2>5. CASE CommitStart /\ ingest.run = r
    <3>1. status'[r] = StatusAfter(status[r], ingest.kind) /\ ingest.kind \in StartKinds
      BY <2>5 DEF CommitStart, TypeInv, ServerType
    <3>. QED
      BY <1>4, <3>1 DEF StatusAfter, StartKinds, EventStatus, StatusKinds
  <2>6. CASE UNCHANGED <<status, fallback, refused>>
    BY <2>1, <2>6
  <2>. QED
    BY <2>2, <2>3, <2>4, <2>5, <2>6, IngestCases DEF BeginIngest, serverVars
<1>. QED
  BY <1>2, <1>4 DEF NotSilent

----------------------------------------------------------------------------
(* Counting STARTs.                                                        *)

\* APNs accepted so much and no more.
LEMMA FiniteHits ==
    ASSUME SendInv, NEW r
    PROVE  IsFiniteSet(UNION {Hits(i) : i \in StartRows(r)})
<1>. DEFINE All == UNION {Hits(i) : i \in StartRows(r)}
            last == [i \in DOMAIN outbox |-> <<i, outbox[i].hits>>]
            Newest == {last[i] : i \in DOMAIN outbox}
<1>1. \A i \in DOMAIN outbox : outbox[i].hits \in Nat
  <2>1. \A i \in DOMAIN outbox : outbox[i] \in Row
    BY DEF SendInv, TypeInv, ServerType, Shaped
  <2>. QED
    BY <2>1 DEF Row
<1>2. IsFiniteSet(DOMAIN outbox)
  <2>1. DOMAIN outbox = 1..Len(outbox) /\ Len(outbox) \in Int
    BY DEF SendInv, TypeInv, ServerType, Shaped
  <2>. QED
    BY <2>1, FS_Interval
<1>3. IsFiniteSet(Newest)
  <2>1. last = [i \in DOMAIN outbox |-> last[i]]
    OBVIOUS
  <2>. HIDE DEF last
  <2>. QED
    BY <1>2, <2>1, FiniteImage
<1>4. ASSUME NEW x \in All PROVE x \in Lost \cup Newest
  <2>1. PICK i \in DOMAIN outbox : x \in Hits(i)
    BY <1>4 DEF StartRows
  <2>2. x = last[i] \/ x \in {i} \X (1..(outbox[i].hits - 1))
    BY <1>1, <2>1 DEF Hits
  <2>3. 1..(outbox[i].hits - 1) \subseteq Forgotten(i)
    BY <1>1 DEF Forgotten
  <2>. QED
    BY <2>2, <2>3 DEF Lost
<1>. HIDE DEF All, Newest
<1>5. IsFiniteSet(Lost \cup Newest) /\ All \subseteq Lost \cup Newest
  BY <1>3, <1>4, FS_Union DEF SendInv, LostBounded
<1>6. IsFiniteSet(All)
  BY <1>5, FS_Subset
<1>. QED
  BY <1>6 DEF All

LEMMA StartsPositive ==
    ASSUME SendInv, NEW r, NEW i \in StartRows(r), outbox[i].hits > 0
    PROVE  Starts(r) > 0
<1>. DEFINE All == UNION {Hits(j) : j \in StartRows(r)}
<1>1. <<i, 1>> \in All
  <2>1. outbox[i] \in Row
    BY DEF StartRows, SendInv, TypeInv, ServerType, Shaped
  <2>2. <<i, 1>> \in Hits(i)
    BY <2>1 DEF Hits, Row
  <2>. QED
    BY <2>2
<1>2. IsFiniteSet(All)
  BY FiniteHits
<1>3. Starts(r) = Cardinality(All)
  BY DEF Starts
<1>. HIDE DEF All
<1>4. Cardinality(All) \in Nat /\ Cardinality(All) # 0
  BY <1>1, <1>2, FS_EmptySet, FS_CardinalityType
<1>. QED
  BY <1>3, <1>4

\* A failed Run is silent only if the daily quota refused its notification: if
\* no START was accepted for it, a notification stands in.
THEOREM FailureIsShown == Spec => []NeverSilent
<1>1. Init => NotSilent
  BY DEF Init, NotSilent
<1>2. SendInv /\ NotSilent => NeverSilent
  BY StartsPositive DEF NotSilent, NeverSilent
<1>3. SendInv /\ NotSilent /\ [Next]_vars => NotSilent'
  BY StepSilent DEF SendInv
<1>. QED
  BY <1>1, <1>2, <1>3, SendInvariant, PTL DEF Spec

\* ... and none is silent while the Workspace has notifications left for the day.
THEOREM FailureIsNotified ==
    ASSUME "quota" \notin Races
    PROVE  Spec => [](\A r \in Runs :
                         status[r] \in {"FAILED", "LOST"} => Starts(r) > 0 \/ r \in fallback)
<1>. DEFINE Allowed == refused = {}
            Noticed == \A r \in Runs :
                          status[r] \in {"FAILED", "LOST"} => Starts(r) > 0 \/ r \in fallback
<1>1. Init => Allowed
  BY DEF Init
<1>2. Allowed /\ [Next]_vars => Allowed'
  BY IngestCases, NotifyCases DEF BeginIngest, CommitStart, serverVars
<1>3. Allowed /\ NeverSilent => Noticed
  BY DEF NeverSilent
<1>. QED
  BY <1>1, <1>2, <1>3, FailureIsShown, PTL DEF Spec

----------------------------------------------------------------------------
(* Where no worker ends between the answer of APNs and its record.         *)

NoDeaths == Races \cap {"crash", "deadlock"} = {}

LEMMA NobodyDies ==
    ASSUME NoDeaths, TypeInv, [Next]_vars
    PROVE  UNCHANGED crashes
  BY Actions
     DEF NoDeaths, BeginIngest, CommitStart, CommitEvent, Expire, Suppress, Unreachable, WorkerOnly,
         Send, Settle, Deadlock, Crash, ExpirePlaceholder, RegisterDevice, BeginRegister, BeginSync,
         CommitCall, Appear, NewToken, Disappear, NewDeviceToken, PhoneOnly, vars

\* A row that was accepted is recorded as sent, or a worker is about to.
Known(i) ==
    outbox[i].hits > 0 =>
        \/ outbox[i].status = "sent"
        \/ \E w \in Workers : worker[w].row = i /\ worker[w].answer = "accepted"

CalmStarts ==
    /\ \A i \in DOMAIN outbox : outbox[i].kind = "START" => Known(i)
    /\ ingest # NoIngest => \A i \in ingest.starts : outbox[i].status # "sent"
    /\ \A r \in fallback : \A i \in StartRows(r) : outbox[i].hits = 0

\* A pending START that nobody holds was never accepted.
LEMMA FreeIsUnsent ==
    ASSUME TypeInv, CalmStarts, NEW i \in DOMAIN outbox, outbox[i].kind = "START",
           outbox[i].status # "sent", i \notin Held
    PROVE  outbox[i].hits = 0
<1>1. outbox[i] \in Row /\ i # 0
  BY DEF TypeInv, ServerType, Shaped
<1>2. outbox[i].hits \in Nat
  BY <1>1 DEF Row
<1>. QED
  BY <1>1, <1>2 DEF CalmStarts, Known, Held

LEMMA StepKnown ==
    ASSUME NoDeaths, TypeInv, HeldApart, CalmStarts, [Next]_vars
    PROVE  \A i \in DOMAIN outbox' : outbox'[i].kind = "START" => Known(i)'
<1>0. /\ DOMAIN outbox \subseteq DOMAIN outbox' /\ worker \in [Workers -> Delivery]
      /\ \A i \in DOMAIN outbox : outbox[i] \in Row /\ i # 0
      /\ \A i \in DOMAIN outbox : outbox'[i].kind = "START" <=> outbox[i].kind = "START"
  BY StepFollows DEF Follows, Shaped, TypeInv, ServerType, WorkerType
<1>. SUFFICES ASSUME NEW i \in DOMAIN outbox', outbox'[i].kind = "START" PROVE Known(i)'
  OBVIOUS
<1>1. CASE Quiet
  <2>1. CASE i \in DOMAIN outbox
    BY <1>0, <1>1, <2>1 DEF Quiet, SameRow, CalmStarts, Known
  <2>2. CASE i \notin DOMAIN outbox
    BY <1>1, <2>2 DEF Quiet, Known
  <2>. QED
    BY <2>1, <2>2
<1>2. ASSUME NEW j \in DOMAIN outbox, Closed(j) PROVE Known(i)'
  <2>1. PICK s \in {"expired", "suppressed", "cancelled"} : outbox' = [outbox EXCEPT ![j].status = s]
    BY <1>2 DEF Closed
  <2>2. /\ i \in DOMAIN outbox /\ outbox[i].kind = "START" /\ UNCHANGED worker
        /\ outbox'[i].hits = outbox[i].hits /\ (i # j => outbox'[i].status = outbox[i].status)
    BY <1>0, <1>2, <2>1 DEF Closed, Row
  <2>3. CASE i = j
    <3>1. i \notin Held /\ outbox[i].status # "sent"
      BY <1>2, <2>3 DEF Closed, Due, MayTake, Pending
    <3>2. outbox[i].hits = 0
      BY <2>2, <3>1, FreeIsUnsent
    <3>. QED
      BY <2>2, <3>2 DEF Known
  <2>4. CASE i # j
    BY <2>2, <2>4 DEF CalmStarts, Known
  <2>. QED
    BY <2>3, <2>4
<1>3. ASSUME NEW j \in DOMAIN outbox, NEW w \in Workers, Send(w, j) PROVE Known(i)'
  <2>1. /\ worker[w] = Idle /\ worker'[w].row = j /\ i \in DOMAIN outbox
        /\ outbox[i].kind = "START" /\ outbox'[i].status = outbox[i].status
        /\ \A v \in Workers \ {w} : worker'[v] = worker[v]
        /\ outbox'[i].hits = IF i = j /\ worker'[w].answer = "accepted"
                             THEN outbox[i].hits + 1 ELSE outbox[i].hits
    BY <1>0, <1>3, SendFacts
  <2>2. CASE i = j /\ worker'[w].answer = "accepted"
    BY <2>1, <2>2 DEF Known
  <2>3. CASE ~(i = j /\ worker'[w].answer = "accepted")
    BY <1>0, <2>1, <2>3 DEF CalmStarts, Known, Idle
  <2>. QED
    BY <2>2, <2>3
<1>4. ASSUME NEW w \in Workers, Settle(w) PROVE Known(i)'
  <2>0. PICK j \in DOMAIN outbox : j = worker[w].row
    BY <1>4, SettleFacts
  <2>1. /\ worker[w] # Idle /\ worker' = [worker EXCEPT ![w] = Idle] /\ i \in DOMAIN outbox
        /\ outbox[i].kind = "START" /\ outbox'[i].hits = outbox[i].hits
        /\ i # j => outbox'[i].status = outbox[i].status
        /\ outbox'[j].status = "sent" <=> worker[w].answer = "accepted"
    BY <1>0, <1>4, <2>0, SettleFacts
  <2>2. worker'[w] = Idle /\ \A v \in Workers \ {w} : worker'[v] = worker[v]
    BY <1>0, <2>1
  <2>3. CASE i = j
    <3>1. outbox[i].status = "pending" /\ \A v \in Workers \ {w} : worker[v].row # i
      BY <1>0, <2>0, <2>1, <2>3, HoldsRow DEF HeldApart
    <3>. QED
      BY <2>1, <2>3, <3>1 DEF CalmStarts, Known
  <2>4. CASE i # j
    BY <1>0, <2>0, <2>1, <2>2, <2>4 DEF CalmStarts, Known
  <2>. QED
    BY <2>3, <2>4
<1>5. ASSUME NEW w \in Workers, Dropped(w) PROVE FALSE
  BY <1>5, NobodyDies DEF Dropped, TypeInv, CountType
<1>6. CASE CommitEvent /\ Ending
  <2>1. CASE i \in ingest.starts
    <3>1. ingest # NoIngest /\ ingest.starts \subseteq StartRows(ingest.run)
      BY <1>6 DEF CommitEvent, TypeInv, IngestType
    <3>2. i \in DOMAIN outbox /\ outbox[i].kind = "START" /\ outbox[i].status # "sent" /\ i \notin Held
      BY <1>6, <2>1, <3>1 DEF StartRows, CalmStarts, Ending
    <3>3. outbox[i].hits = 0
      BY <3>2, FreeIsUnsent
    <3>. QED
      BY <1>6, <3>2, <3>3 DEF Ending, Known
  <2>2. CASE i \notin ingest.starts
    BY <1>0, <1>6, <2>2 DEF Ending, CalmStarts, Known
  <2>. QED
    BY <2>1, <2>2
<1>. QED
  BY <1>1, <1>2, <1>3, <1>4, <1>5, <1>6, RowCases

\* While an event transaction is open, no worker records a START of its Run.
LEMMA StepUnsent ==
    ASSUME TypeInv, HeldApart, CalmStarts, [Next]_vars
    PROVE  ingest' # NoIngest => \A i \in ingest'.starts : outbox'[i].status # "sent"
<1>1. ASSUME NEW r \in Runs, NEW kind \in EventKinds, BeginIngest(r, kind)
      PROVE  \A i \in ingest'.starts : outbox'[i].status # "sent"
  BY <1>1 DEF BeginIngest, PendingStarts, Pending, serverVars
<1>2. ASSUME UNCHANGED ingest, ingest # NoIngest, ~CommitEvent, NEW i \in ingest.starts
      PROVE  outbox'[i].status # "sent"
  <2>1. i \in DOMAIN outbox /\ outbox[i].kind = "START" /\ outbox[i].run = ingest.run
        /\ outbox[i].status # "sent" /\ outbox[i] \in Row
    BY <1>2 DEF TypeInv, IngestType, StartRows, CalmStarts, ServerType, Shaped
  <2>2. CASE Quiet
    BY <2>1, <2>2 DEF Quiet, SameRow
  <2>3. ASSUME NEW j \in DOMAIN outbox, Closed(j) PROVE outbox'[i].status # "sent"
    BY <2>1, <2>3 DEF Closed, Row
  <2>4. ASSUME NEW j \in DOMAIN outbox, NEW w \in Workers, Send(w, j)
        PROVE  outbox'[i].status # "sent"
    BY <2>1, <2>4, SendFacts
  <2>5. ASSUME NEW w \in Workers, Settle(w) PROVE outbox'[i].status # "sent"
    <3>1. CASE worker[w].row # i
      BY <2>1, <2>5, <3>1, SettleFacts
    <3>2. CASE worker[w].row = i
      <4>1. worker[w] # Idle /\ worker[w].kind = "START"
        BY <2>1, <2>5, <3>2 DEF Settle, TypeInv, WorkerType
      <4>2. worker[w].answer # "accepted"
        BY <2>1, <2>5, <3>2, <4>1 DEF Settle, NeedsRun, RunIsFree
      <4>. QED
        BY <2>5, <3>2, <4>2, SettleFacts
    <3>. QED
      BY <3>1, <3>2
  <2>6. ASSUME NEW w \in Workers, Dropped(w) PROVE outbox'[i].status # "sent"
    BY <2>1, <2>6 DEF Dropped
  <2>. QED
    BY <1>2, <2>2, <2>3, <2>4, <2>5, <2>6, RowCases
<1>3. CASE CommitEvent \/ CommitStart
  BY <1>3 DEF CommitEvent, CommitStart
<1>. QED
  BY <1>1, <1>2, <1>3, IngestCases

\* A notification is left only without an accepted START, and none comes later.
LEMMA StepInstead ==
    ASSUME NoDeaths, TypeInv, HeldApart, StartsKnown, CalmStarts, [Next]_vars
    PROVE  \A r \in fallback' : \A i \in StartRows(r)' : outbox'[i].hits = 0
<1>0. /\ DOMAIN outbox \subseteq DOMAIN outbox' /\ fallback \subseteq Runs
      /\ \A i \in DOMAIN outbox : /\ outbox[i] \in Row /\ outbox'[i].run = outbox[i].run
                                  /\ outbox'[i].kind = "START" <=> outbox[i].kind = "START"
  BY StepFollows DEF Follows, Shaped, TypeInv, ServerType
\* A START of a Run without pending STARTs keeps its hits, and there is no new one.
<1>1. ASSUME NEW r \in Runs, Terminal(status[r]), NEW i \in StartRows(r)'
      PROVE  i \in StartRows(r) /\ outbox'[i].hits = outbox[i].hits
  <2>1. ASSUME i \in DOMAIN outbox PROVE i \in StartRows(r) /\ outbox[i].status # "pending"
    BY <1>0, <1>1, <2>1 DEF StartRows, StartsKnown, PendingStarts, Pending
  <2>2. CASE Quiet
    <3>1. i \in DOMAIN outbox
      <4>1. ASSUME i \notin DOMAIN outbox PROVE FALSE
        <5>1. CommitStart /\ ingest.run = r
          BY <1>1, <2>2, <4>1 DEF Quiet, StartRows
        <5>. QED
          BY <1>1, <5>1 DEF CommitStart, StartsKnown, Accepts, Terminal
      <4>. QED
        BY <4>1
    <3>. QED
      BY <2>1, <2>2, <3>1 DEF Quiet, SameRow
  <2>3. ASSUME NEW j \in DOMAIN outbox, Closed(j)
        PROVE  i \in StartRows(r) /\ outbox'[i].hits = outbox[i].hits
    <3>1. PICK s : outbox' = [outbox EXCEPT ![j].status = s]
      BY <2>3 DEF Closed
    <3>2. i \in DOMAIN outbox
      BY <3>1 DEF StartRows
    <3>. QED
      BY <1>0, <2>1, <3>1, <3>2 DEF Row
  <2>4. ASSUME NEW j \in DOMAIN outbox, NEW w \in Workers, Send(w, j)
        PROVE  i \in StartRows(r) /\ outbox'[i].hits = outbox[i].hits
    <3>1. i \in DOMAIN outbox
      BY <2>4, SendFacts DEF StartRows
    <3>2. outbox[j].status = "pending"
      BY <2>4 DEF Send, Due, MayTake, Pending
    <3>. QED
      BY <2>1, <2>4, <3>1, <3>2, SendFacts
  <2>5. ASSUME NEW w \in Workers, Settle(w)
        PROVE  i \in StartRows(r) /\ outbox'[i].hits = outbox[i].hits
    BY <2>1, <2>5, SettleFacts DEF StartRows
  <2>6. ASSUME NEW w \in Workers, Dropped(w)
        PROVE  i \in StartRows(r) /\ outbox'[i].hits = outbox[i].hits
    BY <2>1, <2>6 DEF StartRows, Dropped
  <2>7. CASE Ending
    BY <2>1, <2>7 DEF Ending, StartRows
  <2>. QED
    BY <2>2, <2>3, <2>4, <2>5, <2>6, <2>7, RowCases
<1>2. ASSUME NEW r \in fallback, NEW i \in StartRows(r)' PROVE outbox'[i].hits = 0
  <2>1. r \in Runs /\ Terminal(status[r])
    BY <1>0 DEF StartsKnown
  <2>2. i \in StartRows(r) /\ outbox'[i].hits = outbox[i].hits
    BY <1>1, <2>1
  <2>. QED
    BY <2>2 DEF CalmStarts
<1>3. ASSUME NEW r \in fallback' \ fallback, NEW i \in StartRows(r)' PROVE outbox'[i].hits = 0
  <2>1. CommitEvent /\ r = ingest.run /\ Terminal(StatusAfter(status[r], ingest.kind))
    BY <1>3, IngestCases, NotifyCases DEF BeginIngest, CommitStart, serverVars
  <2>2. Ending
    BY <2>1, EndingRows
  <2>3. ~StartWasSent(ingest.starts, r)
    BY <1>3, <2>1, NotifyCases
  <2>4. i \in StartRows(r) /\ outbox'[i].hits = outbox[i].hits
    BY <2>2 DEF Ending, StartRows
  <2>5. outbox[i].status # "sent"
    BY <2>1, <2>3, <2>4 DEF StartWasSent, StartRows, CalmStarts, CommitEvent
  <2>6. i \notin Held
    <3>1. outbox[i].status = "pending" => i \in ingest.starts
      BY <2>1, <2>4 DEF StartsKnown, PendingStarts, Pending, StartRows, CommitEvent
    <3>2. i \in Held => outbox[i].status = "pending"
      BY HoldsRow DEF Held, HeldApart
    <3>. QED
      BY <2>2, <3>1, <3>2 DEF Ending
  <2>7. outbox[i].hits = 0
    BY <2>4, <2>5, <2>6, FreeIsUnsent DEF StartRows
  <2>. QED
    BY <2>4, <2>7
<1>. QED
  BY <1>2, <1>3

\* The notification stands in for an activity and does not come beside it,
\* unless a worker dies between the answer of APNs and its record.
THEOREM NotificationStandsAlone == ASSUME NoDeaths PROVE Spec => []NotBoth
<1>. DEFINE Inv == SendInv /\ StartsKnown /\ CalmStarts
<1>1. Init => Inv
  <2>1. Init => CalmStarts
    BY DEF Init, CalmStarts
  <2>. QED
    BY <2>1, SendInvariant, StartInvariant DEF StartInv
<1>2. Inv /\ [Next]_vars => Inv'
  <2>. SUFFICES ASSUME Inv, [Next]_vars PROVE Inv'
    OBVIOUS
  <2>1. TypeInv /\ HeldApart /\ StartsKnown /\ CalmStarts
    BY DEF SendInv
  <2>2. CalmStarts'
    BY <2>1, StepKnown, StepUnsent, StepInstead DEF CalmStarts
  <2>3. SendInv' /\ StartsKnown'
    BY <2>1, SendInvariant, StepStarts
  <2>. QED
    BY <2>2, <2>3
<1>3. Inv => NotBoth
  <2>. SUFFICES ASSUME Inv, NEW r \in fallback PROVE Starts(r) = 0
    BY DEF NotBoth
  <2>1. \A i \in StartRows(r) : Hits(i) = {}
    BY DEF CalmStarts, Hits
  <2>2. UNION {Hits(i) : i \in StartRows(r)} = {}
    BY <2>1
  <2>. QED
    BY <2>2, FS_EmptySet DEF Starts
<1>. QED
  BY <1>1, <1>2, <1>3, PTL DEF Spec

----------------------------------------------------------------------------
(* Where a START is not due before its Run has started.                    *)

NotEarly == "early" \notin Races

Early == {"CREATED", "STARTING"}

FewStarts ==
    /\ \A r \in Runs : \A i, j \in StartRows(r) : i = j
    /\ \A r \in Runs : status[r] \in Early =>
          StartRows(r) \subseteq PendingStarts(r) /\ StartRows(r) \cap Held = {}
    /\ ingest # NoIngest /\ ingest.kind \in StartKinds => StartRows(ingest.run) \subseteq ingest.starts

\* A START is new only if an event of its Run queues it, and then it is the only one.
LEMMA RowsOfRun ==
    ASSUME TypeInv, [Next]_vars, NEW r \in Runs
    PROVE  \/ StartRows(r)' = StartRows(r)
           \/ /\ CommitStart /\ ingest.run = r /\ ingest.starts = {} /\ UNCHANGED worker
              /\ \E n \in DOMAIN outbox' \ DOMAIN outbox :
                    StartRows(r)' = StartRows(r) \cup {n} /\ outbox'[n].status = "pending"
              /\ \A i \in DOMAIN outbox : outbox'[i] = outbox[i]
<1>1. /\ DOMAIN outbox \subseteq DOMAIN outbox' /\ outbox \in Seq(Row)
      /\ \A i \in DOMAIN outbox : /\ outbox'[i].run = outbox[i].run
                                  /\ outbox'[i].kind = "START" <=> outbox[i].kind = "START"
  BY StepFollows DEF Follows, Shaped, TypeInv, ServerType
<1>2. ASSUME \A i \in DOMAIN outbox' \ DOMAIN outbox :
                ~(outbox'[i].kind = "START" /\ outbox'[i].run = r)
      PROVE  StartRows(r)' = StartRows(r)
  BY <1>1, <1>2 DEF StartRows
<1>3. CASE CommitStart
  <2>1. CASE UNCHANGED outbox
    BY <1>2, <2>1
  <2>2. CASE ingest.starts = {} /\ outbox' = Append(outbox, NewRow("START", ingest.run, None))
    <3>0. PICK x : x = NewRow("START", ingest.run, None)
      OBVIOUS
    <3>1. x.kind = "START" /\ x.run = ingest.run /\ x.status = "pending"
      BY <3>0 DEF NewRow
    <3>2. PICK n : n = Len(outbox) + 1
      OBVIOUS
    <3>3. /\ n \in DOMAIN outbox' \ DOMAIN outbox /\ outbox'[n] = x
          /\ \A i \in DOMAIN outbox' : i \in DOMAIN outbox \/ i = n
          /\ \A i \in DOMAIN outbox : outbox'[i] = outbox[i]
      BY <1>1, <2>2, <3>0, <3>2
    <3>4. CASE ingest.run = r
      <4>1. StartRows(r)' = StartRows(r) \cup {n}
        BY <1>1, <3>1, <3>3, <3>4 DEF StartRows
      <4>. QED
        BY <1>3, <2>2, <3>1, <3>3, <3>4, <4>1 DEF CommitStart
    <3>5. CASE ingest.run # r
      BY <1>2, <3>1, <3>3, <3>5
    <3>. QED
      BY <3>4, <3>5
  <2>. QED
    BY <1>3, <2>1, <2>2 DEF CommitStart
<1>4. CASE ~CommitStart
  <2>1. CASE Quiet
    BY <1>2, <1>4, <2>1 DEF Quiet
  <2>2. ASSUME NEW j \in DOMAIN outbox, Closed(j) PROVE DOMAIN outbox' = DOMAIN outbox
    BY <2>2 DEF Closed
  <2>3. ASSUME NEW j \in DOMAIN outbox, NEW w \in Workers, Send(w, j)
        PROVE  DOMAIN outbox' = DOMAIN outbox
    BY <2>3, SendFacts
  <2>4. ASSUME NEW w \in Workers, Settle(w) \/ Dropped(w) PROVE DOMAIN outbox' = DOMAIN outbox
    BY <2>4, SettleFacts DEF Dropped
  <2>5. CASE Ending
    BY <1>2, <2>5 DEF Ending
  <2>. QED
    BY <1>2, <2>1, <2>2, <2>3, <2>4, <2>5, RowCases
<1>. QED
  BY <1>3, <1>4

\* A Run does not go back to its beginning.
LEMMA NotBackToEarly ==
    ASSUME NEW s \in Statuses, NEW kind \in Kinds, Accepts(s, kind), StatusAfter(s, kind) \in Early
    PROVE  s \in Early
<1>1. CASE kind \in StatusKinds
  <2>1. EventStatus[kind] \in AllowedTransitions[s] /\ EventStatus[kind] \in Early
    BY <1>1 DEF Accepts, StatusAfter
  <2>2. s \in {"CREATED", "STARTING", "RUNNING"}
    BY DEF Accepts, Statuses
  <2>3. s = "RUNNING" => AllowedTransitions[s] = {"RUNNING"} \cup TerminalStatuses
    BY DEF AllowedTransitions
  <2>. QED
    BY <2>1, <2>2, <2>3 DEF Early, TerminalStatuses
<1>2. CASE kind \notin StatusKinds
  BY <1>2 DEF StatusAfter
<1>. QED
  BY <1>1, <1>2

LEMMA EarlyBefore ==
    ASSUME TypeInv, StartsKnown, [Next]_vars, NEW r \in Runs, status'[r] \in Early
    PROVE  /\ status[r] \in Early
           /\ CommitEvent /\ ingest.run = r => ~Terminal(StatusAfter(status[r], ingest.kind))
<1>0. status \in [Runs -> Statuses]
  BY DEF TypeInv, ServerType
<1>1. CASE CommitStart \/ CommitEvent
  <2>1. /\ ingest.run \in Runs /\ ingest.kind \in Kinds /\ Accepts(status[ingest.run], ingest.kind)
        /\ status' = [status EXCEPT ![ingest.run] = StatusAfter(status[ingest.run], ingest.kind)]
    BY <1>1 DEF CommitStart, CommitEvent, TypeInv, IngestType, StartsKnown
  <2>2. CASE ingest.run = r
    <3>1. StatusAfter(status[r], ingest.kind) \in Early
      BY <1>0, <2>1, <2>2
    <3>2. status[r] \in Early
      BY <1>0, <2>1, <2>2, <3>1, NotBackToEarly
    <3>. QED
      BY <3>1, <3>2 DEF Early, Terminal, TerminalStatuses
  <2>3. CASE ingest.run # r
    BY <1>0, <2>1, <2>3
  <2>. QED
    BY <2>2, <2>3
<1>2. CASE UNCHANGED status /\ ~CommitEvent
  BY <1>2
<1>. QED
  BY <1>1, <1>2, IngestCases DEF BeginIngest, CommitEvent, serverVars, NoIngest

LEMMA StepFew ==
    ASSUME NotEarly, TypeInv, HeldApart, StartsKnown, FewStarts, [Next]_vars
    PROVE  FewStarts'
<1>0. /\ DOMAIN outbox \subseteq DOMAIN outbox' /\ worker \in [Workers -> Delivery]
      /\ \A i \in DOMAIN outbox : outbox[i] \in Row /\ i # 0
      /\ \A r : StartRows(r) \subseteq DOMAIN outbox
  BY StepFollows DEF Follows, Shaped, TypeInv, ServerType, WorkerType, StartRows
\* An event of a Run that begins sees all of its STARTs.
<1>1. ASSUME NEW r \in Runs, CommitStart, ingest.run = r, ingest.starts = {} PROVE StartRows(r) = {}
  BY <1>1 DEF CommitStart, FewStarts
<1>2. ASSUME NEW r \in Runs PROVE \A i, j \in StartRows(r)' : i = j
  <2>1. CASE StartRows(r)' = StartRows(r)
    BY <2>1 DEF FewStarts
  <2>2. CASE StartRows(r)' # StartRows(r)
    <3>1. /\ CommitStart /\ ingest.run = r /\ ingest.starts = {}
          /\ \E n : StartRows(r)' = StartRows(r) \cup {n}
      BY <2>2, RowsOfRun
    <3>. QED
      BY <1>1, <3>1
  <2>. QED
    BY <2>1, <2>2
<1>3. ASSUME NEW r \in Runs, status'[r] \in Early, NEW i \in StartRows(r)'
      PROVE  outbox'[i].status = "pending" /\ i \notin Held'
  <2>1. /\ status[r] \in Early
        /\ CommitEvent /\ ingest.run = r => ~Terminal(StatusAfter(status[r], ingest.kind))
    BY <1>3, EarlyBefore
  <2>2. CASE i \notin StartRows(r)
    <3>1. /\ UNCHANGED worker /\ i \in DOMAIN outbox' \ DOMAIN outbox /\ outbox'[i].status = "pending"
      BY <1>3, <2>2, RowsOfRun
    <3>2. i \notin Held'
      BY <3>1, HoldsRow DEF Held
    <3>. QED
      BY <3>1, <3>2
  <2>3. CASE i \in StartRows(r)
    <3>1. /\ i \in DOMAIN outbox /\ outbox[i].kind = "START" /\ outbox[i].run = r
          /\ outbox[i].status = "pending" /\ i \notin Held /\ ~Due(i)
      BY <2>1, <2>3 DEF FewStarts, StartRows, PendingStarts, Pending, Due, NotEarly, Early
    <3>2. \A w \in Workers : worker[w].row # i
      BY <1>0, <3>1 DEF Held
    <3>3. CASE Quiet
      BY <3>1, <3>3 DEF Quiet, SameRow, Held
    <3>4. ASSUME NEW j \in DOMAIN outbox, Closed(j)
          PROVE  outbox'[i].status = "pending" /\ i \notin Held'
      <4>1. i # j /\ UNCHANGED worker
        BY <3>1, <3>4 DEF Closed
      <4>2. PICK s : outbox' = [outbox EXCEPT ![j].status = s]
        BY <3>4 DEF Closed
      <4>. QED
        BY <3>1, <4>1, <4>2 DEF Held
    <3>5. ASSUME NEW j \in DOMAIN outbox, NEW w \in Workers, Send(w, j)
          PROVE  outbox'[i].status = "pending" /\ i \notin Held'
      <4>1. i # j /\ outbox'[i].status = "pending" /\ worker'[w].row = j
            /\ \A v \in Workers \ {w} : worker'[v] = worker[v]
        BY <3>1, <3>5, SendFacts
      <4>. QED
        BY <3>2, <4>1 DEF Held
    <3>6. ASSUME NEW w \in Workers, Settle(w)
          PROVE  outbox'[i].status = "pending" /\ i \notin Held'
      <4>1. outbox'[i].status = outbox[i].status /\ worker' = [worker EXCEPT ![w] = Idle]
        BY <3>1, <3>2, <3>6, SettleFacts
      <4>2. \A v \in Workers : worker'[v] = Idle \/ worker'[v] = worker[v]
        BY <1>0, <4>1
      <4>. QED
        BY <1>0, <3>1, <3>2, <4>1, <4>2 DEF Held, Idle
    <3>7. ASSUME NEW w \in Workers, Dropped(w)
          PROVE  outbox'[i].status = "pending" /\ i \notin Held'
      <4>1. \A v \in Workers : worker'[v] = Idle \/ worker'[v] = worker[v]
        BY <1>0, <3>7 DEF Dropped
      <4>. QED
        BY <1>0, <3>1, <3>2, <3>7, <4>1 DEF Dropped, Held, Idle
    <3>8. CASE CommitEvent /\ Ending /\ Terminal(StatusAfter(status[ingest.run], ingest.kind))
      <4>1. ingest.run # r
        BY <2>1, <3>8
      <4>2. i \notin ingest.starts
        BY <3>1, <3>8, <4>1 DEF CommitEvent, TypeInv, IngestType, StartRows
      <4>. QED
        BY <3>1, <3>8, <4>2 DEF Ending, Held
    <3>. QED
      BY <3>3, <3>4, <3>5, <3>6, <3>7, <3>8, RowCases
  <2>. QED
    BY <2>2, <2>3
<1>4. ASSUME ingest' # NoIngest, ingest'.kind \in StartKinds
      PROVE  StartRows(ingest.run)' \subseteq ingest'.starts
  <2>1. ASSUME NEW r \in Runs, NEW kind \in EventKinds, BeginIngest(r, kind)
        PROVE  StartRows(ingest.run)' \subseteq ingest'.starts
    <3>1. /\ UNCHANGED outbox /\ ingest'.run = r /\ ingest'.kind = kind
          /\ ingest'.starts = PendingStarts(r) /\ Accepts(status[r], kind) /\ kind \in StartKinds
          /\ EventStatus[kind] # status[r]
      BY <1>4, <2>1 DEF BeginIngest, serverVars, IsNew, StartKinds, StatusKinds
    <3>2. status[r] \in Early
      <4>1. status[r] \in Statuses \ TerminalStatuses
        BY <3>1 DEF Accepts, TypeInv, ServerType
      <4>2. /\ EventStatus[kind] \in AllowedTransitions[status[r]]
            /\ EventStatus[kind] \in {"STARTING", "RUNNING"}
        BY <3>1 DEF Accepts, StatusKinds, StartKinds, EventStatus
      <4>3. AllowedTransitions["RUNNING"] = {"RUNNING"} \cup TerminalStatuses
        BY DEF AllowedTransitions
      <4>. QED
        BY <3>1, <4>1, <4>2, <4>3 DEF Statuses, Early, TerminalStatuses
    <3>3. StartRows(r) \subseteq PendingStarts(r)
      BY <3>2 DEF FewStarts
    <3>. QED
      BY <3>1, <3>3 DEF StartRows
  <2>2. CASE UNCHANGED ingest /\ ~CommitStart
    <3>1. PICK r \in Runs : r = ingest.run
      BY <1>4, <2>2 DEF TypeInv, IngestType
    <3>2. StartRows(r)' = StartRows(r)
      BY <2>2, <3>1, RowsOfRun
    <3>. QED
      BY <1>4, <2>2, <3>1, <3>2 DEF FewStarts, StartRows
  <2>. QED
    BY <1>4, <2>1, <2>2, IngestCases DEF CommitStart, CommitEvent
<1>. QED
  BY <1>2, <1>3, <1>4 DEF FewStarts, StartRows, PendingStarts, Pending

FewInv == SendInv /\ StartsKnown /\ FewStarts

LEMMA FewInvariant ==
    ASSUME NotEarly
    PROVE  (Init => FewInv) /\ (FewInv /\ [Next]_vars => FewInv')
<1>1. Init => FewInv
  <2>1. Init => FewStarts
    BY DEF Init, FewStarts, StartRows
  <2>. QED
    BY <2>1, SendInvariant, StartInvariant DEF StartInv, FewInv, Init
<1>2. FewInv /\ [Next]_vars => FewInv'
  <2>. SUFFICES ASSUME FewInv, [Next]_vars PROVE FewInv'
    OBVIOUS
  <2>1. SendInv /\ TypeInv /\ HeldApart /\ StartsKnown /\ FewStarts
    BY DEF FewInv, SendInv
  <2>2. SendInv' /\ StartsKnown' /\ FewStarts'
    BY <2>1, SendInvariant, StepStarts, StepFew
  <2>. QED
    BY <2>2 DEF FewInv
<1>. QED
  BY <1>1, <1>2

\* APNs accepts one START of a Run, and one more for each worker that ended
\* before it had recorded the answer.
OneStartPerDeath == \A r \in Runs : Starts(r) <= 1 + crashes

\* With one START row for a Run, all but one of what was accepted is forgotten.
LEMMA FewMeansOne == ASSUME SendInv, FewStarts PROVE OneStartPerDeath
<1>. SUFFICES ASSUME NEW r \in Runs PROVE Starts(r) <= 1 + crashes
  BY DEF OneStartPerDeath
<1>. DEFINE All == UNION {Hits(i) : i \in StartRows(r)}
<1>1. \A i \in DOMAIN outbox : outbox[i].hits \in Nat
  <2>1. \A i \in DOMAIN outbox : outbox[i] \in Row
    BY DEF SendInv, TypeInv, ServerType, Shaped
  <2>. QED
    BY <2>1 DEF Row
<1>2. ASSUME NEW i \in StartRows(r) PROVE All \subseteq Lost \cup {<<i, outbox[i].hits>>}
  <2>1. \A j \in StartRows(r) : j = i
    BY DEF FewStarts
  <2>2. i \in DOMAIN outbox /\ outbox[i].hits \in Nat
    BY <1>1 DEF StartRows
  <2>3. 1..(outbox[i].hits - 1) \subseteq Forgotten(i)
    BY <2>2 DEF Forgotten
  <2>4. \A x \in Hits(i) : x \in {i} \X Forgotten(i) \/ x = <<i, outbox[i].hits>>
    BY <2>2, <2>3 DEF Hits
  <2>5. {i} \X Forgotten(i) \subseteq Lost
    BY <2>2 DEF Lost
  <2>. QED
    BY <2>1, <2>4, <2>5
<1>3. StartRows(r) = {} => All = {}
  OBVIOUS
<1>. HIDE DEF All
<1>4. PICK x : All \subseteq Lost \cup {x}
  BY <1>2, <1>3
<1>5. /\ IsFiniteSet(Lost) /\ Cardinality(Lost) \in Nat
      /\ Cardinality(Lost) <= crashes /\ crashes \in Nat
  BY FS_CardinalityType DEF SendInv, LostBounded, TypeInv, CountType
<1>6. IsFiniteSet(Lost \cup {x}) /\ Cardinality(Lost \cup {x}) <= 1 + crashes
  <2>1. /\ IsFiniteSet(Lost \cup {x})
        /\ Cardinality(Lost \cup {x}) = IF x \in Lost THEN Cardinality(Lost)
                                                     ELSE Cardinality(Lost) + 1
    BY <1>5, FS_AddElement, Zenon
  <2>. QED
    BY <1>5, <2>1
<1>7. IsFiniteSet(All) /\ Cardinality(All) <= Cardinality(Lost \cup {x})
  BY <1>4, <1>6, FS_Subset
<1>8. Cardinality(All) \in Nat /\ Cardinality(Lost \cup {x}) \in Nat
  BY <1>6, <1>7, FS_CardinalityType
<1>. QED
  BY <1>5, <1>6, <1>7, <1>8 DEF Starts, All

\* A Run gets one START and at most one more for each worker that dies with it,
\* unless one is sent before the Run has started.
THEOREM OneStartAndTheLost == ASSUME NotEarly PROVE Spec => []OneStartPerDeath
<1>1. FewInv => OneStartPerDeath
  BY FewMeansOne DEF FewInv
<1>. QED
  BY <1>1, FewInvariant, PTL DEF Spec

\* A Run gets one activity, though run.starting and run.started both ask for
\* it: unless its START is sent before it has started, or a worker dies with it.
THEOREM OneActivityPerRun == ASSUME NoDeaths, NotEarly PROVE Spec => []OneStart
<1>. DEFINE Inv == FewInv /\ crashes = 0
<1>1. Init => Inv
  BY FewInvariant DEF Init
<1>2. Inv /\ [Next]_vars => Inv'
  BY FewInvariant, NobodyDies DEF FewInv, SendInv
<1>3. Inv => OneStart
  BY FewMeansOne DEF FewInv, OneStartPerDeath, OneStart
<1>. QED
  BY <1>1, <1>2, <1>3, PTL DEF Spec

----------------------------------------------------------------------------
(* The end of a Run reaches its activity.                                  *)

Apart == Races \cap {"sending", "registering"} = {}

\* The event handler, a call of the phone and the workers take turns.
Serial ==
    /\ ingest # NoIngest => call = NoCall
    /\ ingest # NoIngest \/ call # NoCall => \A w \in Workers : worker[w] = Idle

\* What an open transaction has read is still so.
ReadsHold ==
    /\ \A r \in Runs : ingest # NoIngest /\ ingest.run = r => ingest.live \in OneOf(PendingLive(r))
    /\ call # NoCall => /\ call.status = status
                        /\ \A r \in Runs : call.live[r] \in OneOf(PendingLive(r))
                        /\ call.kind = "register" =>
                              \A a \in DOMAIN call.report : call.report[a].phase = "shown"

\* Rows and bindings are about activities that have appeared for their Run.
AboutActivities ==
    /\ \A a \in Activities : activity[a].phase = "unborn" =>
          activity[a].run = None /\ binding[a].state = None
    /\ \A i \in DOMAIN outbox : outbox[i].kind # "START" =>
          activity[outbox[i].act].run = outbox[i].run

\* A Run has one activity.
OneEach ==
    \A a, b \in Activities : activity[a].run \in Runs /\ activity[b].run = activity[a].run => a = b

\* A worker that knows an END was accepted is about to record it.
EndsKnown ==
    \A w \in Workers : worker[w] # Idle =>
        /\ worker[w].kind = outbox[worker[w].row].kind
        /\ worker[w].kind = "END" /\ worker[w].answer = "accepted"
           => outbox[worker[w].row].act \in ended

\* A set of rows as a sequence leaves none of them out.
LEMMA SetAsSeqCovers ==
    ASSUME NEW S, IsFiniteSet(S)
    PROVE  \A x \in S : \E i \in DOMAIN SetToSeq(S) : SetToSeq(S)[i] = x
<1>. DEFINE n == Cardinality(S)
            Q(f) == f \in [1..n -> S] /\ IsInjective(f)
<1>1. n \in Nat /\ ExistsBijection(1..n, S)
  BY FS_CardinalityType
<1>2. \E f : Q(f)
  BY <1>1 DEF ExistsBijection, Bijection, Injection, IsInjective
<1>3. Q(CHOOSE f : Q(f))
  BY <1>2
<1>4. SetToSeq(S) = CHOOSE f \in [1..n -> S] : IsInjective(f)
  BY DEF SetToSeq
<1>5. SetToSeq(S) \in [1..n -> S] /\ IsInjective(SetToSeq(S))
  BY <1>3, <1>4
<1>. DEFINE seq == SetToSeq(S)
<1>6. seq \in Injection(1..n, S)
  BY <1>5 DEF Injection, IsInjective
<1>. HIDE DEF seq
<1>7. IsFiniteSet(1..n) /\ Cardinality(1..n) = Cardinality(S)
  BY <1>1, FS_Interval
<1>8. seq \in Surjection(1..n, S)
  BY <1>6, <1>7, FS_Injection
<1>. QED
  BY <1>8 DEF Surjection, seq

\* _coalesce_outbox, row by row: the rows found take the kind of their push,
\* every other push gets a new row.
LEMMA CoalescedExactly ==
    ASSUME Shaped(outbox), NEW S \in SUBSET Runs, NEW job \in Jobs(S),
           NEW found, \A r \in S : found[r] \in Nat /\ LiveRow(r, found[r])
    PROVE  LET box == Coalesced(found, job) IN
           /\ \A i \in DOMAIN outbox :
                 box[i].kind = IF \E r \in S : found[r] = i THEN job[outbox[i].run].kind
                               ELSE outbox[i].kind
           /\ \A i \in DOMAIN box \ DOMAIN outbox :
                 \E r \in S : box[i] = NewRow(job[r].kind, r, job[r].act)
           /\ \A r \in S : found[r] = 0 =>
                 \E i \in DOMAIN box : box[i] = NewRow(job[r].kind, r, job[r].act)
<1>. DEFINE old == [i \in DOMAIN outbox |->
                       IF \E r \in DOMAIN job : found[r] = i
                       THEN [outbox[i] EXCEPT !.kind = job[outbox[i].run].kind]
                       ELSE outbox[i]]
            D == {r \in DOMAIN job : found[r] = 0}
            f == [r \in D |-> NewRow(job[r].kind, r, job[r].act)]
            fresh == {f[r] : r \in D}
            new == SetToSeq(fresh)
<1>1. DOMAIN job = S /\ D \subseteq S /\ IsFiniteSet(D)
  BY SetsAreFinite, FS_Subset DEF Jobs
<1>2. \A r \in S : job[r].kind \in {"UPDATE", "END"} /\ job[r].act \in Activities
  BY DEF Jobs
<1>3. IsFiniteSet(fresh)
  <2>1. f = [r \in D |-> f[r]]
    OBVIOUS
  <2>. HIDE DEF f, D
  <2>. QED
    BY <1>1, <2>1, FiniteImage
<1>4. Coalesced(found, job) = old \o new
  BY DEF Coalesced
<1>5. /\ \A i \in DOMAIN outbox : old[i].kind = IF \E r \in S : found[r] = i
                                                THEN job[outbox[i].run].kind ELSE outbox[i].kind
      /\ old \in Seq(Row) /\ DOMAIN old = DOMAIN outbox
  <2>1. ASSUME NEW i \in DOMAIN outbox
        PROVE  /\ old[i] \in Row
               /\ old[i].kind = IF \E r \in S : found[r] = i
                                THEN job[outbox[i].run].kind ELSE outbox[i].kind
    <3>1. outbox[i] \in Row
      BY DEF Shaped
    <3>2. CASE \E r \in S : found[r] = i
      <4>1. PICK r \in S : found[r] = i
        BY <3>2
      <4>2. i # 0 /\ outbox[i].run = r
        BY <4>1 DEF LiveRow, Shaped
      <4>3. old[i] = [outbox[i] EXCEPT !.kind = job[r].kind] /\ job[r].kind \in {"UPDATE", "END"}
        BY <1>1, <1>2, <3>2, <4>2
      <4>. HIDE DEF old
      <4>. QED
        BY <3>1, <3>2, <4>2, <4>3 DEF Row
    <3>3. CASE ~\E r \in S : found[r] = i
      BY <1>1, <3>1, <3>3
    <3>. QED
      BY <3>2, <3>3
  <2>2. Len(outbox) \in Nat /\ DOMAIN outbox = 1..Len(outbox)
    BY DEF Shaped
  <2>3. old = [i \in DOMAIN outbox |-> old[i]]
    OBVIOUS
  <2>. HIDE DEF old
  <2>. QED
    BY <2>1, <2>2, <2>3
<1>6. new \in Seq(fresh) /\ \A x \in fresh : \E i \in DOMAIN new : new[i] = x
  <2>1. fresh \in SUBSET fresh
    OBVIOUS
  <2>. HIDE DEF fresh
  <2>. QED
    BY <1>3, <2>1, SetAsSeq, SetAsSeqCovers
<1>. HIDE DEF old, new, fresh
<1>7. /\ \A i \in DOMAIN outbox : (old \o new)[i] = old[i]
      /\ \A i \in DOMAIN (old \o new) \ DOMAIN outbox : (old \o new)[i] \in fresh
      /\ \A x \in fresh : \E i \in DOMAIN (old \o new) : (old \o new)[i] = x
  <2>1. /\ DOMAIN old = 1..Len(old) /\ Len(old) \in Nat
        /\ DOMAIN new = 1..Len(new) /\ Len(new) \in Nat
        /\ DOMAIN (old \o new) = 1..(Len(old) + Len(new))
        /\ \A i \in 1..(Len(old) + Len(new)) :
              (old \o new)[i] = IF i <= Len(old) THEN old[i] ELSE new[i - Len(old)]
    BY <1>5, <1>6
  <2>2. ASSUME NEW i \in DOMAIN (old \o new), i \notin DOMAIN outbox PROVE (old \o new)[i] \in fresh
    <3>1. i - Len(old) \in DOMAIN new /\ (old \o new)[i] = new[i - Len(old)]
      BY <1>5, <2>1, <2>2
    <3>. QED
      BY <1>6, <3>1
  <2>3. ASSUME NEW x \in fresh PROVE \E i \in DOMAIN (old \o new) : (old \o new)[i] = x
    <3>1. PICK i \in DOMAIN new : new[i] = x
      BY <1>6, <2>3
    <3>2. i + Len(old) \in DOMAIN (old \o new) /\ (old \o new)[i + Len(old)] = new[i]
      BY <2>1
    <3>. QED
      BY <3>1, <3>2
  <2>. QED
    BY <1>5, <2>1, <2>2, <2>3
<1>8. /\ \A x \in fresh : \E r \in S : x = NewRow(job[r].kind, r, job[r].act)
      /\ \A r \in S : found[r] = 0 => NewRow(job[r].kind, r, job[r].act) \in fresh
  <2>1. \A r \in D : f[r] = NewRow(job[r].kind, r, job[r].act)
    OBVIOUS
  <2>2. \A r \in S : found[r] = 0 => r \in D
    BY <1>1
  <2>. HIDE DEF f, D
  <2>. QED
    BY <1>1, <2>1, <2>2 DEF fresh
<1>. QED
  BY <1>4, <1>5, <1>7, <1>8

----------------------------------------------------------------------------
\* Nobody begins before the others have finished.
LEMMA StepSerial ==
    ASSUME Apart, TypeInv, Serial, [Next]_vars
    PROVE  Serial'
<1>1. Sending \/ \A w \in Workers : worker[w] = Idle
  BY HoldsRow DEF Sending
<1>2. HandlerMayBegin => ingest = NoIngest /\ call = NoCall /\ ~Sending
  BY DEF Apart, HandlerMayBegin
<1>3. ASSUME NEW i \in DOMAIN outbox, NEW w \in Workers, Send(w, i) PROVE Serial'
  <2>1. ingest = NoIngest /\ call = NoCall
    BY <1>3 DEF Apart, Send, Due
  <2>. QED
    BY <1>3, <2>1 DEF Send, Serial
<1>4. ASSUME UNCHANGED worker,
             ingest' = NoIngest \/ UNCHANGED ingest, call' = NoCall \/ UNCHANGED call
      PROVE  Serial'
  BY <1>4 DEF Serial
<1>5. ASSUME NEW w \in Workers, worker' = [worker EXCEPT ![w] = Idle], UNCHANGED <<ingest, call>>
      PROVE  Serial'
  BY <1>5 DEF Serial, TypeInv, WorkerType
<1>6. ASSUME HandlerMayBegin, UNCHANGED worker, UNCHANGED ingest \/ UNCHANGED call
      PROVE  Serial'
  BY <1>1, <1>2, <1>6 DEF Serial
<1>. QED
  BY <1>3, <1>4, <1>5, <1>6, Actions
     DEF BeginIngest, CommitStart, CommitEvent, Expire, Suppress, Unreachable, WorkerOnly, Settle,
         Deadlock, Crash, WorkerEnds, ExpirePlaceholder, RegisterDevice, BeginRegister, BeginSync,
         CommitCall, Appear, NewToken, Disappear, NewDeviceToken, PhoneOnly, vars, serverVars

\* While a transaction is open only the phone moves, and placeholders expire.
LEMMA OpenAlone ==
    ASSUME Apart, TypeInv, Serial, [Next]_vars, ingest # NoIngest \/ call # NoCall
    PROVE  \/ CommitStart \/ CommitEvent \/ CommitCall
           \/ /\ UNCHANGED <<status, ingest, call, worker>>
              /\ \A r \in Runs : PendingLive(r)' = PendingLive(r)
<1>1. \A w \in Workers : worker[w] = Idle
  BY DEF Serial
<1>2. ~HandlerMayBegin /\ \A i \in DOMAIN outbox : ~Due(i)
  BY DEF Apart, HandlerMayBegin, Due
<1>3. \A w \in Workers : ~Settle(w) /\ ~Deadlock(w) /\ ~Crash(w)
  BY <1>1 DEF Settle, Deadlock, Crash, NeedsRun, Idle, None
<1>4. UNCHANGED outbox => \A r \in Runs : PendingLive(r)' = PendingLive(r)
  BY DEF PendingLive, Pending
<1>5. ASSUME NEW i \in DOMAIN outbox, ExpirePlaceholder(i)
      PROVE  \A r \in Runs : PendingLive(r)' = PendingLive(r)
  <2>1. \A j \in DOMAIN outbox : outbox[j] \in Row
    BY DEF TypeInv, ServerType, Shaped
  <2>2. DOMAIN outbox' = DOMAIN outbox
        /\ \A j \in DOMAIN outbox : /\ outbox'[j].kind = outbox[j].kind
                                    /\ outbox'[j].run = outbox[j].run
                                    /\ outbox'[j].status = outbox[j].status
    BY <1>5, <2>1 DEF ExpirePlaceholder, Row
  <2>. QED
    BY <2>2 DEF PendingLive, Pending
<1>. QED
  BY <1>2, <1>3, <1>4, <1>5, Actions
     DEF BeginIngest, Expire, Suppress, Unreachable, Send, ExpirePlaceholder, RegisterDevice,
         BeginRegister, BeginSync, Appear, NewToken, Disappear, NewDeviceToken, PhoneOnly, vars,
         serverVars

\* What an open transaction has read stays so until it commits.
LEMMA StepReads ==
    ASSUME Apart, TypeInv, Serial, ReadsHold, [Next]_vars
    PROVE  ReadsHold'
<1>1. UNCHANGED outbox => \A r : PendingLive(r)' = PendingLive(r)
  BY DEF PendingLive, Pending
<1>2. HandlerMayBegin => ingest = NoIngest /\ call = NoCall
  BY DEF Apart, HandlerMayBegin
<1>3. ASSUME NEW r \in Runs, NEW kind \in EventKinds, BeginIngest(r, kind) PROVE ReadsHold'
  <2>1. /\ ingest'.run = r /\ ingest'.live \in OneOf(PendingLive(r))
        /\ call' = NoCall /\ UNCHANGED outbox
    BY <1>2, <1>3 DEF BeginIngest, serverVars
  <2>. QED
    BY <1>1, <2>1 DEF ReadsHold, OneOf
<1>4. ASSUME NEW kind, NEW report, Reads(kind, report), HandlerMayBegin,
             kind = "register" => \A a \in DOMAIN report : report[a].phase = "shown",
             UNCHANGED <<status, outbox, ingest>>
      PROVE  ReadsHold'
  <2>1. /\ call'.status = status /\ \A r \in Runs : call'.live[r] \in OneOf(PendingLive(r))
        /\ call'.kind = kind /\ call'.report = report
    BY <1>4 DEF Reads
  <2>. QED
    BY <1>1, <1>2, <1>4, <2>1 DEF ReadsHold, OneOf
<1>5. CASE CommitStart \/ CommitEvent \/ CommitCall
  <2>1. ingest' = NoIngest /\ call' = NoCall
    BY <1>5 DEF CommitStart, CommitEvent, CommitCall, Serial
  <2>. QED
    BY <2>1 DEF ReadsHold
<1>6. ASSUME UNCHANGED <<status, ingest, call>>,
             \A r \in Runs : PendingLive(r)' = PendingLive(r)
      PROVE  ReadsHold'
  BY <1>6 DEF ReadsHold, OneOf
<1>7. CASE ingest' = NoIngest /\ call' = NoCall
  BY <1>7 DEF ReadsHold
<1>8. CASE ingest # NoIngest \/ call # NoCall
  BY <1>5, <1>6, <1>8, OpenAlone
<1>9. CASE ingest = NoIngest /\ call = NoCall
  <2>1. ASSUME NEW a \in Activities, NEW g \in 1..MaxGen, BeginRegister(a, g) PROVE ReadsHold'
    BY <1>4, <2>1 DEF BeginRegister, serverVars
  <2>2. CASE BeginSync
    BY <1>4, <2>2 DEF BeginSync, serverVars
  <2>. QED
    BY <1>3, <1>5, <1>7, <1>9, <2>1, <2>2, Actions
       DEF Expire, Suppress, Unreachable, WorkerOnly, Send, Settle, Deadlock, Crash,
           ExpirePlaceholder, RegisterDevice, Appear, NewToken, Disappear, NewDeviceToken,
           PhoneOnly, vars
<1>. QED
  BY <1>8, <1>9

----------------------------------------------------------------------------
\* The rows after an event that is not a start, one by one.
LEMMA EventRowsExactly ==
    ASSUME TypeInv, CommitEvent, NEW r \in Runs, r = ingest.run
    PROVE  /\ \A i \in DOMAIN outbox : outbox[i].run # r =>
                 outbox'[i].kind = outbox[i].kind /\ outbox'[i].status = outbox[i].status
           /\ \A i \in DOMAIN outbox' \ DOMAIN outbox :
                 outbox'[i].run = r /\ outbox'[i].act \in Deliverable(r)
           /\ /\ Terminal(StatusAfter(status[r], ingest.kind)) /\ Deliverable(r) # {}
              /\ ingest.live \in OneOf(PendingLive(r))
              => \E i \in DOMAIN outbox' :
                    /\ outbox'[i].kind = "END" /\ outbox'[i].run = r
                    /\ outbox'[i].status = "pending"
<1>. DEFINE to == Deliverable(r)
            last == Terminal(StatusAfter(status[r], ingest.kind))
            kind == IF last THEN "END" ELSE "UPDATE"
            S == IF to = {} THEN {} ELSE {r}
<1>1. PICK a \in IF to = {} THEN {None} ELSE to :
         outbox' = LET job == IF to = {} THEN <<>> ELSE [x \in {r} |-> [kind |-> kind, act |-> a]]
                       box == Coalesced([x \in {r} |-> ingest.live], job) IN
                   IF last THEN Withdrawn(box, ingest.starts) ELSE box
  BY DEF CommitEvent
<1>2. PICK found : found = [x \in {r} |-> ingest.live]
  OBVIOUS
<1>3. PICK job : job = IF to = {} THEN <<>> ELSE [x \in {r} |-> [kind |-> kind, act |-> a]]
  OBVIOUS
<1>4. PICK box : /\ box = Coalesced(found, job)
                 /\ outbox' = IF last THEN Withdrawn(box, ingest.starts) ELSE box
  BY <1>1, <1>2, <1>3
<1>5. /\ ingest.live \in Nat /\ LiveRow(r, ingest.live) /\ found[r] = ingest.live
      /\ Shaped(outbox) /\ ingest.starts \subseteq StartRows(r)
  BY <1>2 DEF CommitEvent, TypeInv, IngestType, ServerType
<1>6. /\ job \in Jobs(S) /\ S \in SUBSET Runs
      /\ \A x \in S : x = r /\ job[x].kind = kind /\ job[x].act \in to
      /\ to # {} => S = {r}
  BY <1>1, <1>3 DEF Jobs, Deliverable
<1>. HIDE DEF S, kind, last, to
<1>7. Rewritten(box, outbox)
  BY <1>4, <1>5, <1>6, CoalescedRows
<1>8. /\ \A i \in DOMAIN outbox :
            box[i].kind = IF \E x \in S : found[x] = i THEN job[outbox[i].run].kind
                          ELSE outbox[i].kind
      /\ \A i \in DOMAIN box \ DOMAIN outbox :
            \E x \in S : box[i] = NewRow(job[x].kind, x, job[x].act)
      /\ \A x \in S : found[x] = 0 =>
            \E i \in DOMAIN box : box[i] = NewRow(job[x].kind, x, job[x].act)
  BY <1>4, <1>5, <1>6, CoalescedExactly
<1>9. DOMAIN outbox \subseteq DOMAIN box /\ \A i \in DOMAIN outbox : SameRow(box[i], outbox[i]) /\ i # 0
  <2>1. /\ DOMAIN outbox = 1..Len(outbox) /\ DOMAIN box = 1..Len(box)
        /\ Len(outbox) \in Nat /\ Len(box) \in Nat
    BY <1>5, <1>7 DEF Rewritten, Shaped
  <2>. QED
    BY <1>7, <2>1 DEF Rewritten
<1>10. \A i \in DOMAIN outbox : outbox[i].run # r => box[i].kind = outbox[i].kind
  BY <1>5, <1>6, <1>8, <1>9 DEF LiveRow
<1>11. \A i \in DOMAIN box \ DOMAIN outbox : box[i].run = r /\ box[i].act \in to
  BY <1>6, <1>8 DEF NewRow
<1>12. ASSUME last, to # {}, ingest.live \in OneOf(PendingLive(r))
       PROVE  \E i \in DOMAIN box : /\ box[i].kind = "END" /\ box[i].run = r
                                    /\ box[i].status = "pending" /\ i \notin ingest.starts
  <2>1. r \in S /\ job[r].kind = "END"
    BY <1>6, <1>12 DEF kind
  <2>2. CASE ingest.live # 0
    <3>1. ingest.live \in PendingLive(r)
      BY <1>12, <2>2 DEF OneOf
    <3>2. ingest.live \in DOMAIN outbox /\ outbox[ingest.live].run = r
          /\ outbox[ingest.live].status = "pending" /\ outbox[ingest.live].kind # "START"
      BY <3>1 DEF PendingLive, Pending
    <3>3. box[ingest.live].kind = "END"
      BY <1>5, <1>8, <2>1, <3>2
    <3>. QED
      BY <1>5, <1>9, <3>2, <3>3 DEF SameRow, StartRows
  <2>3. CASE ingest.live = 0
    <3>1. PICK i \in DOMAIN box : box[i] = NewRow("END", r, job[r].act)
      BY <1>5, <1>8, <2>1, <2>3
    <3>2. box[i].kind = "END" /\ box[i].run = r /\ box[i].status = "pending"
      BY <3>1 DEF NewRow
    <3>3. i \notin ingest.starts
      BY <1>5, <1>9, <3>2 DEF SameRow, StartRows
    <3>. QED
      BY <3>2, <3>3
  <2>. QED
    BY <2>2, <2>3
<1>13. /\ DOMAIN outbox' = DOMAIN box
       /\ \A i \in DOMAIN box :
             /\ outbox'[i].kind = box[i].kind /\ outbox'[i].run = box[i].run
             /\ outbox'[i].act = box[i].act
             /\ i \notin ingest.starts => outbox'[i].status = box[i].status
  <2>1. CASE outbox' = box
    BY <2>1
  <2>2. CASE outbox' = Withdrawn(box, ingest.starts)
    <3>1. /\ DOMAIN outbox' = DOMAIN box
          /\ \A i \in DOMAIN box : box[i] \in Row
          /\ \A i \in DOMAIN box :
                outbox'[i] = IF i \in ingest.starts THEN [box[i] EXCEPT !.status = "cancelled"]
                             ELSE box[i]
      BY <1>7, <2>2, WithdrawnRows DEF Rewritten, Shaped
    <3>. QED
      BY <3>1 DEF Row
  <2>. QED
    BY <1>4, <2>1, <2>2
<1>14. \A i \in DOMAIN outbox : outbox[i].run # r =>
          outbox'[i].kind = outbox[i].kind /\ outbox'[i].status = outbox[i].status
  BY <1>5, <1>9, <1>10, <1>13 DEF SameRow, StartRows
<1>15. \A i \in DOMAIN outbox' \ DOMAIN outbox : outbox'[i].run = r /\ outbox'[i].act \in to
  BY <1>11, <1>13
<1>16. last /\ to # {} /\ ingest.live \in OneOf(PendingLive(r)) =>
          \E i \in DOMAIN outbox' : /\ outbox'[i].kind = "END" /\ outbox'[i].run = r
                                    /\ outbox'[i].status = "pending"
  BY <1>12, <1>13
<1>. QED
  BY <1>14, <1>15, <1>16 DEF to, last

\* The rows after a call of the phone, one by one.
LEMMA CallRowsExactly ==
    ASSUME TypeInv, CommitCall
    PROVE  /\ \A i \in DOMAIN outbox :
                 /\ outbox'[i].status = outbox[i].status
                 /\ outbox[i].kind = "END" /\ Terminal(call.status[outbox[i].run])
                    => outbox'[i].kind = "END"
           /\ \A i \in DOMAIN outbox' \ DOMAIN outbox :
                 activity[outbox'[i].act].run = outbox'[i].run
           /\ \A a \in DOMAIN call.report : \A r \in Runs :
                 /\ QueuedFor(call, a) /\ activity[a].run = r /\ Terminal(call.status[r])
                 /\ call.live[r] \in OneOf(PendingLive(r))
                 => \E i \in DOMAIN outbox' : /\ outbox'[i].kind = "END" /\ outbox'[i].run = r
                                              /\ outbox'[i].status = "pending"
<1>. DEFINE queued == {a \in DOMAIN call.report : QueuedFor(call, a)}
            runs == {activity[a].run : a \in queued}
            over == {r \in runs : Terminal(call.status[r])}
            new == {a \in DOMAIN call.report : binding[a].state = None}
<1>1. PICK some \in SUBSET runs : \E to \in [some -> queued] :
         /\ over \subseteq some
         /\ \A r \in some : activity[to[r]].run = r
         /\ outbox' = LET job == [r \in some |-> [kind |-> IF r \in over THEN "END" ELSE "UPDATE",
                                                  act |-> to[r]]] IN
                      WithReplaced(Coalesced(call.live, job), new)
  BY DEF CommitCall
<1>2. PICK to \in [some -> queued] :
         /\ over \subseteq some
         /\ \A r \in some : activity[to[r]].run = r
         /\ outbox' = LET job == [r \in some |-> [kind |-> IF r \in over THEN "END" ELSE "UPDATE",
                                                  act |-> to[r]]] IN
                      WithReplaced(Coalesced(call.live, job), new)
  BY <1>1
<1>3. PICK job : job = [r \in some |-> [kind |-> IF r \in over THEN "END" ELSE "UPDATE",
                                        act |-> to[r]]]
  OBVIOUS
<1>4. PICK found : found = call.live
  OBVIOUS
<1>5. PICK box : box = Coalesced(found, job) /\ outbox' = WithReplaced(box, new)
  BY <1>2, <1>3, <1>4
<1>6. /\ call \in CallState /\ \A r \in Runs : LiveRow(r, call.live[r])
      /\ \A a \in DOMAIN call.report : activity[a].run \in Runs
      /\ Shaped(outbox)
  BY DEF CommitCall, TypeInv, CallType, ServerType
<1>7. DOMAIN call.report \subseteq Activities /\ call.live \in [Runs -> Nat]
  BY <1>6 DEF CallState
<1>8. /\ some \in SUBSET Runs /\ job \in Jobs(some)
      /\ \A r \in some : found[r] \in Nat /\ LiveRow(r, found[r])
      /\ \A r \in some : /\ job[r].kind = IF r \in over THEN "END" ELSE "UPDATE"
                         /\ activity[job[r].act].run = r
  <2>1. some \in SUBSET Runs /\ queued \subseteq Activities
    BY <1>6, <1>7
  <2>2. job \in Jobs(some)
    BY <1>3, <2>1 DEF Jobs
  <2>. QED
    BY <1>2, <1>3, <1>4, <1>6, <1>7, <2>1, <2>2
<1>9. \A a \in DOMAIN call.report : \A r \in Runs :
         QueuedFor(call, a) /\ activity[a].run = r /\ Terminal(call.status[r])
         => r \in over /\ r \in some
  BY <1>2
<1>10. \A r \in some : Terminal(call.status[r]) => r \in over
  BY <1>1
<1>. HIDE DEF over, runs, queued, new
<1>11. Rewritten(box, outbox)
  BY <1>5, <1>6, <1>8, CoalescedRows
<1>12. /\ \A i \in DOMAIN outbox :
             box[i].kind = IF \E r \in some : found[r] = i THEN job[outbox[i].run].kind
                           ELSE outbox[i].kind
       /\ \A i \in DOMAIN box \ DOMAIN outbox :
             \E r \in some : box[i] = NewRow(job[r].kind, r, job[r].act)
       /\ \A r \in some : found[r] = 0 =>
             \E i \in DOMAIN box : box[i] = NewRow(job[r].kind, r, job[r].act)
  BY <1>5, <1>6, <1>8, CoalescedExactly
<1>13. DOMAIN outbox \subseteq DOMAIN box /\ \A i \in DOMAIN outbox : SameRow(box[i], outbox[i]) /\ i # 0
  <2>1. /\ DOMAIN outbox = 1..Len(outbox) /\ DOMAIN box = 1..Len(box)
        /\ Len(outbox) \in Nat /\ Len(box) \in Nat
    BY <1>6, <1>11 DEF Rewritten, Shaped
  <2>. QED
    BY <1>11, <2>1 DEF Rewritten
<1>14. /\ DOMAIN outbox' = DOMAIN box
       /\ \A i \in DOMAIN box :
             /\ outbox'[i].kind = box[i].kind /\ outbox'[i].run = box[i].run
             /\ outbox'[i].act = box[i].act /\ outbox'[i].status = box[i].status
  <2>1. PICK one : WithReplaced(box, new) =
                      [i \in DOMAIN box |-> IF i \in one THEN [box[i] EXCEPT !.place = "replaced"]
                                            ELSE box[i]]
    BY DEF WithReplaced
  <2>2. \A i \in DOMAIN box : box[i] \in Row
    BY <1>11 DEF Rewritten, Shaped
  <2>. QED
    BY <1>5, <2>1, <2>2 DEF Row
<1>15. ASSUME NEW i \in DOMAIN outbox
       PROVE  /\ box[i].status = outbox[i].status
              /\ outbox[i].kind = "END" /\ Terminal(call.status[outbox[i].run])
                 => box[i].kind = "END"
  <2>1. (\E r \in some : found[r] = i) => outbox[i].run \in some
    BY <1>8, <1>13 DEF LiveRow
  <2>. QED
    BY <1>8, <1>10, <1>12, <1>13, <2>1 DEF SameRow
<1>16. \A i \in DOMAIN box \ DOMAIN outbox : activity[box[i].act].run = box[i].run
  BY <1>8, <1>12 DEF NewRow
<1>17. ASSUME NEW a \in DOMAIN call.report, NEW r \in Runs,
              QueuedFor(call, a), activity[a].run = r, Terminal(call.status[r]),
              call.live[r] \in OneOf(PendingLive(r))
       PROVE  \E i \in DOMAIN box : /\ box[i].kind = "END" /\ box[i].run = r
                                    /\ box[i].status = "pending"
  <2>1. r \in some /\ job[r].kind = "END"
    BY <1>8, <1>9, <1>17
  <2>2. CASE found[r] # 0
    <3>1. found[r] \in PendingLive(r)
      BY <1>4, <1>17, <2>2 DEF OneOf
    <3>2. found[r] \in DOMAIN outbox /\ outbox[found[r]].run = r /\ outbox[found[r]].status = "pending"
      BY <3>1 DEF PendingLive, Pending
    <3>3. box[found[r]].kind = "END"
      BY <1>12, <2>1, <3>2
    <3>. QED
      BY <1>13, <3>2, <3>3 DEF SameRow
  <2>3. CASE found[r] = 0
    <3>1. PICK i \in DOMAIN box : box[i] = NewRow("END", r, job[r].act)
      BY <1>12, <2>1, <2>3
    <3>. QED
      BY <3>1 DEF NewRow
  <2>. QED
    BY <2>2, <2>3
<1>18. DOMAIN outbox \subseteq DOMAIN box
  BY <1>13
<1>. QED
  BY <1>14, <1>15, <1>16, <1>17, <1>18

----------------------------------------------------------------------------
\* An activity appears once, for one Run, and is over once.
LEMMA ActivityMoves ==
    ASSUME TypeInv, [Next]_vars, NEW a \in Activities
    PROVE  \/ /\ activity'[a].run = activity[a].run
              /\ \/ activity'[a].phase = activity[a].phase
                 \/ activity[a].phase = "shown" /\ activity'[a].phase = "over"
           \/ \E r \in Runs : Appear(a, r) /\ activity'[a].run = r /\ activity'[a].phase = "shown"
<1>. activity \in [Activities -> OnPhone]
  BY DEF TypeInv, PhoneType
<1>1. ASSUME NEW b \in Activities, NEW r \in Runs, Appear(b, r)
      PROVE  IF a = b THEN activity'[a].run = r /\ activity'[a].phase = "shown"
             ELSE activity'[a] = activity[a]
  BY <1>1 DEF Appear, OnPhone
<1>2. ASSUME NEW b \in Activities, NewToken(b)
      PROVE  activity'[a].run = activity[a].run /\ activity'[a].phase = activity[a].phase
  BY <1>2 DEF NewToken, OnPhone
<1>3. ASSUME NEW b \in Activities, Disappear(b)
      PROVE  /\ activity'[a].run = activity[a].run
             /\ \/ activity'[a].phase = activity[a].phase
                \/ activity[a].phase = "shown" /\ activity'[a].phase = "over"
  BY <1>3 DEF Disappear, Shown, OnPhone
<1>4. CASE CommitCall
  BY <1>4 DEF CommitCall, OnPhone
<1>5. CASE UNCHANGED activity
  BY <1>5
<1>. QED
  BY <1>1, <1>2, <1>3, <1>4, <1>5, Actions
     DEF BeginIngest, CommitStart, CommitEvent, Expire, Suppress, Unreachable, WorkerOnly, Send,
         Settle, Deadlock, Crash, ExpirePlaceholder, RegisterDevice, BeginRegister, BeginSync,
         NewDeviceToken, phoneVars, vars

\* A new update or END is about an activity of its Run.
LEMMA NewRowsAbout ==
    ASSUME TypeInv, [Next]_vars, NEW i \in DOMAIN outbox' \ DOMAIN outbox, outbox'[i].kind # "START"
    PROVE  outbox'[i].act \in Activities /\ activity[outbox'[i].act].run = outbox'[i].run
<1>. outbox \in Seq(Row)
  BY DEF TypeInv, ServerType, Shaped
<1>1. outbox'[i].act \in Activities
  <2>1. Shaped(outbox')
    BY StepFollows DEF Follows
  <2>2. outbox'[i] \in Row /\ outbox'[i].act # None
    BY <2>1 DEF Shaped
  <2>. QED
    BY <2>2 DEF Row
<1>2. CASE CommitStart
  <2>1. PICK x : x = NewRow("START", ingest.run, None)
    OBVIOUS
  <2>2. outbox' = Append(outbox, x) /\ x.kind = "START"
    BY <1>2, <2>1 DEF CommitStart, NewRow
  <2>. QED
    BY <2>2
<1>3. CASE CommitEvent
  <2>1. PICK r \in Runs : r = ingest.run
    BY <1>3 DEF CommitEvent, TypeInv, IngestType
  <2>. QED
    BY <1>1, <1>3, <2>1, EventRowsExactly DEF Deliverable
<1>4. CASE CommitCall
  BY <1>1, <1>4, CallRowsExactly
<1>5. CASE DOMAIN outbox' = DOMAIN outbox
  BY <1>5
<1>. QED
  BY <1>2, <1>3, <1>4, <1>5, Actions
     DEF BeginIngest, Expire, Suppress, Unreachable, Send,
         Settle, Deadlock, Crash, ExpirePlaceholder, RegisterDevice, BeginRegister, BeginSync,
         Appear, NewToken, Disappear, NewDeviceToken, PhoneOnly, vars, serverVars

\* An activity that has not appeared has no binding and nothing is sent to it.
LEMMA StepAbout ==
    ASSUME TypeInv, AboutActivities, [Next]_vars
    PROVE  AboutActivities'
<1>. binding \in [Activities -> BindingRow] /\ Shaped(outbox)
  BY DEF TypeInv, ServerType
<1>1. \A i \in DOMAIN outbox : outbox[i].kind # "START" =>
         /\ outbox[i].act \in Activities /\ activity[outbox[i].act].run \in Runs
         /\ activity[outbox[i].act].phase # "unborn"
  <2>1. \A i \in DOMAIN outbox : outbox[i].run \in Runs
    <3>1. \A i \in DOMAIN outbox : outbox[i] \in Row
      BY DEF Shaped
    <3>. QED
      BY <3>1 DEF Row
  <2>. QED
    BY <2>1, TargetOf, NoneIsNoName DEF AboutActivities
<1>2. ASSUME NEW a \in Activities, activity'[a].phase = "unborn"
      PROVE  activity[a].phase = "unborn" /\ activity'[a].run = None /\ binding[a].state = None
  BY <1>2, ActivityMoves DEF AboutActivities
<1>3. ASSUME NEW a \in Activities, activity[a].phase = "unborn" PROVE binding'[a].state = None
  <2>1. binding[a].state = None /\ activity[a].run = None
    BY <1>3 DEF AboutActivities
  <2>2. ASSUME NEW i \in DOMAIN outbox, Expire(i) PROVE binding'[a] = binding[a]
    BY <1>1, <1>3, <2>2 DEF Expire
  <2>3. ASSUME NEW w \in Workers, Settle(w) PROVE binding'[a] = binding[a]
    <3>1. worker[w].kind # "START" =>
             outbox[worker[w].row].act \in Activities /\ outbox[worker[w].row].act # a
      BY <1>1, <1>3, <2>3 DEF Settle, TypeInv, WorkerType
    <3>. QED
      BY <2>3, <3>1 DEF Settle
  <2>4. CASE CommitCall
    <3>1. a \notin DOMAIN call.report /\ call.kind \in {"register", "sync"}
      BY <2>1, <2>4, NoneIsNoName DEF CommitCall, TypeInv, CallType, CallState
    <3>2. binding'[a] = BindingFrom(call, a)
      BY <2>4 DEF CommitCall
    <3>. QED
      BY <2>1, <3>1, <3>2 DEF BindingFrom, None
  <2>5. CASE UNCHANGED binding
    BY <2>1, <2>5
  <2>. QED
    BY <2>1, <2>2, <2>3, <2>4, <2>5, Actions
       DEF BeginIngest, CommitStart, CommitEvent, Suppress, Unreachable, Send, Deadlock, Crash,
           ExpirePlaceholder, RegisterDevice, BeginRegister, BeginSync, Appear, NewToken,
           Disappear, NewDeviceToken, PhoneOnly, vars, serverVars
<1>4. ASSUME NEW i \in DOMAIN outbox', outbox'[i].kind # "START"
      PROVE  activity'[outbox'[i].act].run = outbox'[i].run
  <2>1. ASSUME NEW a \in Activities, activity[a].run \in Runs
        PROVE  activity'[a].run = activity[a].run
    BY <2>1, ActivityMoves, NoneIsNoName DEF Appear, AboutActivities
  <2>2. CASE i \in DOMAIN outbox
    <3>1. /\ outbox'[i].run = outbox[i].run /\ outbox'[i].act = outbox[i].act
          /\ outbox[i].kind # "START"
      BY <1>4, <2>2, StepFollows DEF Follows
    <3>. QED
      BY <1>1, <2>1, <2>2, <3>1 DEF AboutActivities
  <2>3. CASE i \notin DOMAIN outbox
    <3>1. outbox'[i].act \in Activities /\ activity[outbox'[i].act].run = outbox'[i].run
      BY <1>4, <2>3, NewRowsAbout
    <3>2. outbox'[i].run \in Runs
      <4>1. outbox'[i] \in Row
        BY <1>4, StepFollows DEF Follows, Shaped
      <4>. QED
        BY <4>1 DEF Row
    <3>. QED
      BY <2>1, <3>1, <3>2
  <2>. QED
    BY <2>2, <2>3
<1>. QED
  BY <1>2, <1>3, <1>4 DEF AboutActivities

\* An activity appears only if its Run has none.
LEMMA StepOne ==
    ASSUME SendInv, OneStart, AboutActivities, OneEach, [Next]_vars
    PROVE  OneEach'
<1>. SUFFICES ASSUME NEW a \in Activities, NEW b \in Activities, a # b,
                     activity'[a].run \in Runs, activity'[b].run = activity'[a].run
              PROVE  FALSE
  BY DEF OneEach
<1>0. TypeInv
  BY DEF SendInv
<1>1. ASSUME NEW c \in Activities, NEW r \in Runs, Appear(c, r)
      PROVE  \A d \in Activities : activity[d].run # r
  <2>. DEFINE all == {d \in Activities : activity[d].run = r}
  <2>1. Cardinality(all) < Starts(r) /\ Starts(r) <= 1
    BY <1>1 DEF Appear, OneStart
  <2>2. IsFiniteSet(all) /\ Cardinality(all) \in Nat
    BY SetsAreFinite, FS_Subset, FS_CardinalityType
  <2>3. Starts(r) \in Nat
    <3>1. IsFiniteSet(UNION {Hits(i) : i \in StartRows(r)})
      BY FiniteHits
    <3>. QED
      BY <3>1, FS_CardinalityType DEF Starts
  <2>4. Cardinality(all) = 0
    BY <2>1, <2>2, <2>3
  <2>. QED
    BY <2>2, <2>4, FS_EmptySet
<1>2. ASSUME NEW c \in Activities, NEW d \in Activities, c # d,
             NEW r \in Runs, Appear(c, r), activity'[c].run = r, activity'[d].run = r
      PROVE  FALSE
  <2>1. activity'[d] = activity[d]
    BY <1>0, <1>2 DEF Appear, TypeInv, PhoneType
  <2>. QED
    BY <1>1, <1>2, <2>1
<1>3. CASE activity'[a].run = activity[a].run /\ activity'[b].run = activity[b].run
  BY <1>3 DEF OneEach
<1>. QED
  BY <1>0, <1>2, <1>3, ActivityMoves

\* A worker knows what it is sending.
LEMMA StepKnows ==
    ASSUME TypeInv, Serial, EndsKnown, [Next]_vars
    PROVE  EndsKnown'
<1>0. /\ DOMAIN outbox \subseteq DOMAIN outbox' /\ Shaped(outbox)
      /\ \A i \in DOMAIN outbox : outbox[i] \in Row /\ outbox'[i].act = outbox[i].act
      /\ worker \in [Workers -> Delivery]
  BY StepFollows DEF Follows, Shaped, TypeInv, ServerType, WorkerType
<1>1. ASSUME UNCHANGED <<worker, ended>>, \A i \in DOMAIN outbox : outbox'[i].kind = outbox[i].kind
      PROVE  EndsKnown'
  BY <1>0, <1>1 DEF EndsKnown, TypeInv, WorkerType, Idle
<1>2. ASSUME NEW i \in DOMAIN outbox, NEW w \in Workers, Send(w, i) PROVE EndsKnown'
  <2>1. PICK answer \in Answers(i) :
           /\ worker' = [worker EXCEPT ![w] = [row |-> i, kind |-> outbox[i].kind, answer |-> answer]]
           /\ ended' = IF answer = "accepted" /\ outbox[i].kind = "END"
                       THEN ended \cup {outbox[i].act} ELSE ended
    BY <1>2 DEF Send
  <2>2. \A j \in DOMAIN outbox : outbox'[j].kind = outbox[j].kind
    BY <1>2, SendFacts
  <2>3. /\ worker'[w].row = i /\ worker'[w].kind = outbox[i].kind /\ worker'[w].answer = answer
        /\ \A v \in Workers \ {w} : worker'[v] = worker[v]
    BY <1>0, <2>1
  <2>4. \A v \in Workers : worker'[v] # Idle => worker'[v].row \in DOMAIN outbox
    BY <2>3 DEF TypeInv, WorkerType
  <2>. QED
    BY <1>0, <2>1, <2>2, <2>3, <2>4 DEF EndsKnown
<1>3. ASSUME NEW w \in Workers, worker' = [worker EXCEPT ![w] = Idle], UNCHANGED ended,
             \A i \in DOMAIN outbox : outbox'[i].kind = outbox[i].kind
      PROVE  EndsKnown'
  <2>1. worker'[w] = Idle /\ \A v \in Workers \ {w} : worker'[v] = worker[v]
    BY <1>0, <1>3
  <2>. QED
    BY <1>0, <1>3, <2>1 DEF EndsKnown, TypeInv, WorkerType
<1>4. CASE CommitStart \/ CommitEvent \/ CommitCall
  <2>1. \A v \in Workers : worker'[v] = Idle
    BY <1>4 DEF CommitStart, CommitEvent, CommitCall, Serial
  <2>. QED
    BY <2>1 DEF EndsKnown
<1>5. ASSUME NEW i \in DOMAIN outbox, Expire(i) \/ Suppress(i) \/ Unreachable(i) \/ ExpirePlaceholder(i)
      PROVE  EndsKnown'
  <2>1. \A j \in DOMAIN outbox : outbox'[j].kind = outbox[j].kind
    BY <1>0, <1>5 DEF Expire, Suppress, Unreachable, ExpirePlaceholder, Row
  <2>. QED
    BY <1>1, <1>5, <2>1 DEF Expire, Suppress, Unreachable, ExpirePlaceholder, WorkerOnly
<1>6. ASSUME NEW w \in Workers, Settle(w) PROVE EndsKnown'
  BY <1>3, <1>6, SettleFacts DEF Settle
<1>7. ASSUME NEW w \in Workers, Deadlock(w) \/ Crash(w) PROVE EndsKnown'
  BY <1>1, <1>3, <1>7 DEF Deadlock, Crash, WorkerEnds, serverVars
<1>8. CASE UNCHANGED <<worker, ended, outbox>>
  BY <1>1, <1>8
<1>. QED
  BY <1>2, <1>4, <1>5, <1>6, <1>7, <1>8, Actions
     DEF BeginIngest, RegisterDevice, BeginRegister, BeginSync, Appear, NewToken, Disappear,
         NewDeviceToken, PhoneOnly, vars, serverVars

\* An activity the server can reach ...
Reachable(a) ==
    /\ Shown(a) /\ Terminal(status[activity[a].run])
    /\ binding[a].state = "active" /\ ~binding[a].dead /\ binding[a].token # 0

\* ... and one it has told of the end.
Told(a) ==
    \/ a \in ended
    \/ \E i \in DOMAIN outbox :
          /\ outbox[i].kind = "END" /\ outbox[i].act = a
          /\ outbox[i].status \in {"pending", "failed", "expired"}

\* A Run ends by an event that is not a start.
LEMMA EndsByEvent ==
    ASSUME TypeInv, StartsKnown, [Next]_vars, NEW r \in Runs, Terminal(status'[r]), ~Terminal(status[r])
    PROVE  CommitEvent /\ ingest.run = r /\ Terminal(StatusAfter(status[r], ingest.kind))
<1>0. status \in [Runs -> Statuses]
  BY DEF TypeInv, ServerType
<1>1. CASE CommitStart
  <2>1. /\ ingest.run \in Runs /\ ingest.kind \in StartKinds
        /\ status' = [status EXCEPT ![ingest.run] = StatusAfter(status[ingest.run], ingest.kind)]
    BY <1>1 DEF CommitStart, TypeInv, IngestType
  <2>2. ~Terminal(StatusAfter(status[ingest.run], ingest.kind))
    BY <2>1 DEF StartKinds, StatusAfter, StatusKinds, EventStatus, Terminal, TerminalStatuses
  <2>. QED
    BY <1>0, <2>1, <2>2
<1>2. CASE CommitEvent
  <2>1. /\ ingest.run \in Runs
        /\ status' = [status EXCEPT ![ingest.run] = StatusAfter(status[ingest.run], ingest.kind)]
    BY <1>2 DEF CommitEvent, TypeInv, IngestType
  <2>. QED
    BY <1>0, <1>2, <2>1
<1>3. CASE UNCHANGED status
  BY <1>3
<1>. QED
  BY <1>1, <1>2, <1>3, IngestCases DEF BeginIngest, serverVars

\* A queued END of a Run is for its activity.
LEMMA EndRowFound ==
    ASSUME TypeInv', AboutActivities', OneEach', NEW a \in Activities, NEW r \in Runs,
           activity'[a].run = r,
           \E i \in DOMAIN outbox' : /\ outbox'[i].kind = "END" /\ outbox'[i].run = r
                                     /\ outbox'[i].status = "pending"
    PROVE  Told(a)'
<1>1. PICK i \in DOMAIN outbox' : /\ outbox'[i].kind = "END" /\ outbox'[i].run = r
                                  /\ outbox'[i].status = "pending"
  OBVIOUS
<1>2. outbox'[i] \in Row /\ outbox'[i].act # None
  BY <1>1 DEF TypeInv, ServerType, Shaped
<1>3. outbox'[i].act \in Activities
  BY <1>2 DEF Row
<1>4. activity'[outbox'[i].act].run = r
  BY <1>1 DEF AboutActivities
<1>5. outbox'[i].act = a
  BY <1>3, <1>4 DEF OneEach
<1>. QED
  BY <1>1, <1>5 DEF Told

\* What was told stays told: an END is only taken back if its target is gone.
LEMMA ToldStays ==
    ASSUME TypeInv, [Next]_vars, NEW a \in Activities, Told(a), ended \subseteq ended',
           \A i \in DOMAIN outbox :
              /\ outbox[i].kind = "END" /\ outbox[i].act = a
              /\ outbox[i].status \in {"pending", "failed", "expired"}
              => /\ outbox'[i].kind = "END"
                 /\ outbox'[i].status \in {"pending", "failed", "expired"}
    PROVE  Told(a)'
<1>1. \A i \in DOMAIN outbox : i \in DOMAIN outbox' /\ outbox'[i].act = outbox[i].act
  <2>1. /\ DOMAIN outbox = 1..Len(outbox) /\ DOMAIN outbox' = 1..Len(outbox')
        /\ Len(outbox) \in Nat /\ Len(outbox') \in Nat
    BY StepFollows DEF TypeInv, ServerType, Shaped, Follows
  <2>. QED
    BY <2>1, StepFollows DEF Follows
<1>. QED
  BY <1>1 DEF Told

\* An activity that the phone reports and the server can reach is told.
LEMMA CallTells ==
    ASSUME TypeInv, Serial, ReadsHold, AboutActivities, AboutActivities', OneEach', TypeInv',
           [Next]_vars, CommitCall, NEW a \in Activities, Reachable(a) => Told(a), Reachable(a)'
    PROVE  Told(a)'
<1>1. /\ call # NoCall /\ call \in CallState /\ call.status = status
      /\ \A r \in Runs : call.live[r] \in OneOf(PendingLive(r))
      /\ call.kind = "register" => \A b \in DOMAIN call.report : call.report[b].phase = "shown"
      /\ \A b \in DOMAIN call.report : activity[b].run \in Runs
      /\ UNCHANGED <<status, ended>> /\ binding'[a] = BindingFrom(call, a)
  BY DEF CommitCall, ReadsHold, TypeInv, CallType
<1>2. activity'[a].run = activity[a].run /\ activity'[a].phase = activity[a].phase
      /\ activity[a].phase = "shown" /\ activity[a].run \in Runs
  <2>1. activity'[a].run = activity[a].run /\ activity'[a].phase = activity[a].phase
    BY DEF CommitCall, TypeInv, PhoneType, OnPhone
  <2>. QED
    BY <2>1 DEF Reachable, Shown, TypeInv, PhoneType
<1>3. PICK r \in Runs : r = activity[a].run
  BY <1>2
<1>4. Terminal(status[r]) /\ binding'[a].state = "active" /\ ~binding'[a].dead /\ binding'[a].token # 0
  BY <1>1, <1>2, <1>3 DEF Reachable
<1>5. CASE a \in DOMAIN call.report /\ QueuedFor(call, a)
  <2>1. \E i \in DOMAIN outbox' : /\ outbox'[i].kind = "END" /\ outbox'[i].run = r
                                  /\ outbox'[i].status = "pending"
    BY <1>1, <1>3, <1>4, <1>5, CallRowsExactly
  <2>. QED
    BY <1>2, <1>3, <2>1, EndRowFound
<1>6. CASE ~(a \in DOMAIN call.report /\ QueuedFor(call, a))
  <2>1. binding'[a] = binding[a]
    <3>1. binding[a] \in BindingRow /\ call.kind \in {"register", "sync"}
      BY <1>1 DEF TypeInv, ServerType, CallState
    <3>2. CASE a \notin DOMAIN call.report
      BY <1>1, <1>4, <3>1, <3>2 DEF BindingFrom, BindingRow
    <3>3. CASE a \in DOMAIN call.report /\ call.kind = "register"
      <4>1. call.report[a].phase = "shown" /\ call.report[a] \in Report
        BY <1>1, <3>3 DEF CallState
      <4>2. binding'[a] = Registered(binding[a], call.report[a].gen)
        BY <1>1, <3>3 DEF BindingFrom
      <4>3. ~(call.report[a].gen >= binding[a].gen)
        BY <1>1, <1>4, <1>6, <3>3, <4>1 DEF QueuedFor
      <4>. QED
        BY <4>2, <4>3 DEF Registered
    <3>4. CASE a \in DOMAIN call.report /\ call.kind = "sync"
      <4>1. binding'[a] = Synced(binding[a], call.report[a])
        BY <1>1, <3>4 DEF BindingFrom
      <4>2. call.report[a].phase # "shown"
        BY <1>1, <1>4, <1>6, <3>4 DEF QueuedFor
      <4>3. binding'[a].state = "ended"
        BY <4>1, <4>2 DEF Synced
      <4>. QED
        BY <1>4, <4>3
    <3>. QED
      BY <3>1, <3>2, <3>3, <3>4
  <2>2. Told(a)
    BY <1>2, <1>3, <1>4, <2>1 DEF Reachable, Shown
  <2>3. ASSUME NEW i \in DOMAIN outbox, outbox[i].kind = "END", outbox[i].act = a
        PROVE  outbox'[i].kind = "END" /\ outbox'[i].status = outbox[i].status
    <3>1. outbox[i].run = r
      BY <1>3, <2>3 DEF AboutActivities
    <3>. QED
      BY <1>1, <1>4, <2>3, <3>1, CallRowsExactly
  <2>. QED
    BY <1>1, <2>2, <2>3, ToldStays
<1>. QED
  BY <1>5, <1>6

\* The end of a Run is told to its activity, unless the row for it says why not.
LEMMA StepEnd ==
    ASSUME TypeInv, TypeInv', StartsKnown, Serial, ReadsHold, AboutActivities, AboutActivities',
           OneEach', EndsKnown, [Next]_vars, NEW a \in Activities,
           Reachable(a) => Told(a), Reachable(a)'
    PROVE  Told(a)'
<1>. Shaped(outbox) /\ binding \in [Activities -> BindingRow]
  BY DEF TypeInv, ServerType
<1>1. /\ activity[a].phase = "shown" /\ activity'[a].run = activity[a].run
      /\ activity[a].run \in Runs
  <2>1. ASSUME NEW r \in Runs, Appear(a, r) PROVE FALSE
    BY <2>1 DEF Appear, AboutActivities, Reachable, None, PhoneOnly, serverVars
  <2>. QED
    BY <2>1, ActivityMoves DEF Reachable, Shown, TypeInv, PhoneType
<1>2. PICK r \in Runs : r = activity[a].run
  BY <1>1
<1>3. Terminal(status'[r]) /\ binding'[a].state = "active" /\ ~binding'[a].dead /\ binding'[a].token # 0
  BY <1>1, <1>2 DEF Reachable
<1>4. ASSUME Terminal(status[r]), binding'[a] = binding[a] PROVE Told(a)
  BY <1>1, <1>2, <1>3, <1>4 DEF Reachable, Shown
<1>5. \A i \in DOMAIN outbox : outbox[i] \in Row
  BY DEF Shaped
<1>6. CASE CommitEvent
  <2>1. PICK q \in Runs : q = ingest.run
    BY <1>6 DEF CommitEvent, TypeInv, IngestType
  <2>2. UNCHANGED <<binding, activity, ended>> /\ ingest # NoIngest
    BY <1>6 DEF CommitEvent, phoneVars
  <2>3. CASE q = r
    <3>1. Terminal(StatusAfter(status[r], ingest.kind))
      BY <1>3, <1>6, <2>1, <2>3 DEF CommitEvent, TypeInv, ServerType
    <3>2. a \in Deliverable(r)
      BY <1>2, <1>3, <2>2 DEF Deliverable
    <3>3. ingest.live \in OneOf(PendingLive(r))
      BY <2>1, <2>2, <2>3 DEF ReadsHold
    <3>4. \E i \in DOMAIN outbox' : /\ outbox'[i].kind = "END" /\ outbox'[i].run = r
                                    /\ outbox'[i].status = "pending"
      BY <1>6, <2>1, <2>3, <3>1, <3>2, <3>3, EventRowsExactly
    <3>. QED
      BY <1>1, <1>2, <3>4, EndRowFound
  <2>4. CASE q # r
    <3>1. Terminal(status[r])
      BY <1>3, <1>6, <2>1, <2>4, EndsByEvent
    <3>2. \A i \in DOMAIN outbox : outbox[i].kind = "END" /\ outbox[i].act = a =>
             outbox'[i].kind = "END" /\ outbox'[i].status = outbox[i].status
      BY <1>2, <1>6, <2>1, <2>4, EventRowsExactly DEF AboutActivities
    <3>. QED
      BY <1>4, <2>2, <3>1, <3>2, ToldStays
  <2>. QED
    BY <2>3, <2>4
<1>7. CASE CommitCall
  BY <1>7, CallTells
<1>8. CASE ~CommitEvent /\ ~CommitCall
  <2>1. Terminal(status[r])
    BY <1>3, <1>8, EndsByEvent
  <2>2. ASSUME binding'[a] = binding[a], ended \subseteq ended',
               \A i \in DOMAIN outbox :
                  outbox'[i].kind = outbox[i].kind /\ outbox'[i].status = outbox[i].status
        PROVE  Told(a)'
    BY <1>4, <2>1, <2>2, ToldStays
  <2>3. CASE UNCHANGED <<binding, ended, outbox>>
    BY <2>2, <2>3
  <2>4. CASE CommitStart
    <3>1. PICK x : x = NewRow("START", ingest.run, None)
      OBVIOUS
    <3>2. outbox' = Append(outbox, x) \/ UNCHANGED outbox
      BY <2>4, <3>1 DEF CommitStart
    <3>3. \A i \in DOMAIN outbox : outbox'[i] = outbox[i]
      BY <3>2 DEF Shaped
    <3>. QED
      BY <2>2, <2>4, <3>3 DEF CommitStart
  <2>5. ASSUME NEW i \in DOMAIN outbox, Expire(i) PROVE Told(a)'
    <3>1. \A j \in DOMAIN outbox :
             /\ outbox'[j].kind = outbox[j].kind
             /\ outbox'[j].status = IF j = i THEN "expired" ELSE outbox[j].status
      BY <1>5, <2>5 DEF Expire, Row
    <3>2. binding'[a] = binding[a]
      BY <1>3, <2>5 DEF Expire, BindingRow
    <3>. QED
      BY <1>4, <2>1, <2>5, <3>1, <3>2, ToldStays DEF Expire, WorkerOnly
  <2>6. ASSUME NEW i \in DOMAIN outbox, Suppress(i) \/ Unreachable(i) PROVE Told(a)'
    <3>1. \A j \in DOMAIN outbox :
             /\ outbox'[j].kind = outbox[j].kind
             /\ j # i => outbox'[j].status = outbox[j].status
      BY <1>5, <2>6 DEF Suppress, Unreachable, Row
    <3>2. UNCHANGED <<binding, ended>>
      BY <2>6 DEF Suppress, Unreachable, WorkerOnly
    <3>3. ~(outbox[i].kind = "END" /\ outbox[i].act = a)
      BY <1>3, <2>6, <3>2 DEF Suppress, Unreachable, TokenFor
    <3>. QED
      BY <1>4, <2>1, <3>1, <3>2, <3>3, ToldStays
  <2>7. ASSUME NEW i \in DOMAIN outbox, NEW w \in Workers, Send(w, i) PROVE Told(a)'
    BY <2>2, <2>7, SendFacts DEF Send
  <2>8. ASSUME NEW w \in Workers, Settle(w) PROVE Told(a)'
    <3>1. PICK i \in DOMAIN outbox : i = worker[w].row
      BY <2>8, SettleFacts
    <3>2. /\ worker[w] # Idle /\ UNCHANGED ended
          /\ binding' = IF worker[w].kind = "START" THEN binding
                        ELSE [binding EXCEPT ![outbox[i].act] =
                                 BindingAfter(@, worker[w].kind, worker[w].answer)]
      BY <2>8, <3>1 DEF Settle
    <3>3. binding'[a] = binding[a]
      <4>1. ASSUME binding'[a] = BindingAfter(binding[a], worker[w].kind, worker[w].answer)
            PROVE  binding'[a] = binding[a]
        BY <1>3, <4>1 DEF BindingAfter, BindingRow
      <4>. QED
        BY <3>2, <4>1
    <3>4. /\ \A j \in DOMAIN outbox : outbox'[j].kind = outbox[j].kind
          /\ \A j \in DOMAIN outbox \ {i} : outbox'[j].status = outbox[j].status
          /\ outbox'[i].status \in {"sent", "failed", "pending"}
          /\ outbox'[i].status = "sent" <=> worker[w].answer = "accepted"
      BY <2>8, <3>1, SettleFacts
    <3>5. outbox[i].kind = "END" /\ outbox[i].act = a => outbox'[i].status # "sent"
      <4>. SUFFICES ASSUME outbox[i].kind = "END", outbox[i].act = a, worker[w].answer = "accepted"
                    PROVE  FALSE
        BY <3>4
      <4>1. worker[w].kind = "END"
        BY <3>1, <3>2 DEF EndsKnown
      <4>2. binding'[a] = BindingAfter(binding[a], "END", worker[w].answer)
        BY <3>2, <4>1
      <4>3. binding'[a] = [binding[a] EXCEPT !.state = "ended"]
        BY <4>2 DEF BindingAfter, ForgetsToken
      <4>4. binding'[a].state = "ended"
        BY <4>3 DEF BindingRow
      <4>. QED
        BY <1>3, <4>4
    <3>. QED
      BY <1>4, <2>1, <3>2, <3>3, <3>4, <3>5, ToldStays
  <2>9. ASSUME NEW i \in DOMAIN outbox, ExpirePlaceholder(i) PROVE Told(a)'
    <3>1. \A j \in DOMAIN outbox :
             outbox'[j].kind = outbox[j].kind /\ outbox'[j].status = outbox[j].status
      BY <1>5, <2>9 DEF ExpirePlaceholder, Row
    <3>. QED
      BY <2>2, <2>9, <3>1 DEF ExpirePlaceholder
  <2>. QED
    BY <1>8, <2>3, <2>4, <2>5, <2>6, <2>7, <2>8, <2>9, Actions
       DEF BeginIngest, Deadlock, Crash, RegisterDevice, BeginRegister, BeginSync, Appear,
           NewToken, Disappear, NewDeviceToken, PhoneOnly, vars, serverVars
<1>. QED
  BY <1>6, <1>7, <1>8

----------------------------------------------------------------------------
EndInv == /\ Serial /\ ReadsHold /\ AboutActivities /\ OneEach /\ EndsKnown
          /\ \A a \in Activities : Reachable(a) => Told(a)

\* An activity the server can reach is told that its Run ended, or the row of
\* its END says why not: if handlers, calls and workers do not overlap, no START
\* is sent before its Run has started, and no worker dies.
THEOREM EndIsTold == ASSUME Apart, NoDeaths, NotEarly PROVE Spec => []EndNotLost
<1>. DEFINE Inv == FewInv /\ crashes = 0 /\ EndInv
<1>1. Init => Inv
  <2>. SUFFICES ASSUME Init PROVE EndInv
    BY FewInvariant DEF Init
  <2>1. Serial /\ ReadsHold /\ EndsKnown
    BY DEF Init, Serial, ReadsHold, EndsKnown
  <2>2. AboutActivities
    BY DEF Init, AboutActivities, NoActivity, NoBinding
  <2>3. OneEach
    BY NoneIsNoName DEF Init, OneEach, NoActivity
  <2>4. \A a \in Activities : ~Reachable(a)
    BY DEF Init, Reachable, Shown, NoActivity
  <2>. QED
    BY <2>1, <2>2, <2>3, <2>4 DEF EndInv
<1>2. Inv /\ [Next]_vars => Inv'
  <2>. SUFFICES ASSUME Inv, [Next]_vars PROVE Inv'
    OBVIOUS
  <2>1. FewInv' /\ crashes' = 0
    BY FewInvariant, NobodyDies DEF FewInv, SendInv
  <2>2. /\ SendInv /\ TypeInv /\ StartsKnown /\ OneStart
        /\ Serial /\ ReadsHold /\ AboutActivities /\ OneEach /\ EndsKnown
    BY FewMeansOne DEF FewInv, SendInv, EndInv, OneStartPerDeath, OneStart
  <2>3. TypeInv'
    BY <2>1 DEF FewInv, SendInv
  <2>4. Serial' /\ ReadsHold'
    BY <2>2, StepSerial, StepReads
  <2>5. AboutActivities'
    BY <2>2, StepAbout
  <2>6. OneEach'
    BY <2>2, StepOne
  <2>7. EndsKnown'
    BY <2>2, StepKnows
  <2>8. ASSUME NEW a \in Activities, Reachable(a)' PROVE Told(a)'
    <3>1. Reachable(a) => Told(a)
      BY DEF EndInv
    <3>. QED
      BY <2>2, <2>3, <2>5, <2>6, <2>8, <3>1, StepEnd
  <2>. QED
    BY <2>1, <2>4, <2>5, <2>6, <2>7, <2>8 DEF EndInv
<1>3. Inv => EndNotLost
  BY DEF EndInv, EndNotLost, Reachable, Told
<1>. QED
  BY <1>1, <1>2, <1>3, PTL DEF Spec
=============================================================================
