------------------------ MODULE MachinePairingProofs ------------------------
(***************************************************************************)
(* Credentials of MachinePairing, for any phones, CLI processes, sessions  *)
(* and webhooks: a pairing session is used once, an accepted credential is *)
(* of the Workspace that claimed it, and a revoked one never comes back.   *)
(***************************************************************************)
EXTENDS MachinePairing, TLAPS

\* A process that works on a session has one.
ProcShape ==
    \A c \in Clis : proc[c].pc \in {"waiting", "locked", "answered", "stored"}
                        => proc[c].sess \in Sessions

\* A webhook that is accepted belongs to a machine.
HookHasMachine == \A h \in Hooks : hook[h] = "live" => mach.ws # None

TypeInv == TypeOK /\ ProcShape /\ HookHasMachine

Session == [row : {"none", "open", "gone"}, by : Devices \union {None}, exchanged : Nat]
Token == [state : {"none", "live", "revoked", "gone"}, owner : Devices \union {None}]

\* A session that is held for its exchange is claimed and unused, and held once.
LockedUnused ==
    \A c \in Clis : proc[c].pc = "locked" =>
        /\ sess[proc[c].sess].row = "open" /\ sess[proc[c].sess].by # None
        /\ sess[proc[c].sess].exchanged = 0
        /\ \A d \in Clis : proc[d].pc = "locked" /\ proc[d].sess = proc[c].sess => d = c

\* A session is claimed after it was created, and exchanged once.
SessionsInOrder ==
    /\ \A q \in requests : q.op = "claim" /\ q.phase = "locked" => sess[q.sess].row # "none"
    /\ \A s \in Sessions : sess[s].row = "none" => sess[s].by = None
    /\ \A s \in Sessions : sess[s].exchanged <= 1

SessionInv == LockedUnused /\ SessionsInOrder

\* A credential comes from the exchange of its session.
IssuedByExchange ==
    \A s \in Sessions, c \in Clis : token[<<s, c>>].state # "none" => sess[s].exchanged >= 1

\* Who has claimed a session that is open, or has a live credential, owns the machine.
ClaimedByOwner ==
    /\ \A s \in Sessions : sess[s].row = "open" /\ sess[s].by # None => sess[s].by = mach.ws
    /\ \A t \in Tokens : token[t].state = "live" => mach.ws # None /\ token[t].owner = mach.ws

\* What was there when the machine was revoked has ended.
DeadHasEnded ==
    /\ \A t \in Tokens \intersect dead : token[t].state \in {"revoked", "gone"}
    /\ \A h \in Hooks \intersect dead : hook[h] \in {"revoked", "gone"}

PairingInv == TypeInv /\ SessionInv /\ IssuedByExchange /\ ClaimedByOwner /\ DeadHasEnded

----------------------------------------------------------------------------
\* The actions of Next, with their parameters.
LEMMA Actions ==
    ASSUME Next
    PROVE  \/ \E d \in Devices : Bootstrap(d)
           \/ \E d \in Devices : Stop(d)
           \/ \E d \in Devices : Revoke(d)
           \/ \E d \in Devices : Reset(d)
           \/ \E d \in Devices : SendPush(d)
           \/ \E d \in Devices : NewChallenge(d)
           \/ \E d \in Devices : ExpireChallenge(d)
           \/ \E d \in Devices : DeleteWorkspace(d)
           \/ \E d \in Devices, s \in Sessions : BeginClaim(d, s)
           \/ \E s \in Sessions : ExpireSession(s)
           \/ \E by \in Tokens \union Hooks : BeginUpload(by)
           \/ \E h \in Hooks : RemoveHook(h)
           \/ \E h \in Hooks, t \in Tokens : BeginHook(t, h)
           \/ \E q \in requests : LockClaim(q)
           \/ \E q \in requests : CommitClaim(q)
           \/ \E q \in requests : CreateHook(q)
           \/ \E q \in requests : ReadSubscriptions(q)
           \/ \E q \in requests : CommitUpload(q)
           \/ \E q \in requests : Refuse(q)
           \/ \E c \in Clis, s \in Sessions : CreateSession(c, s)
           \/ \E c \in Clis : Resume(c)
           \/ \E c \in Clis : Quit(c)
           \/ \E c \in Clis : LockExchange(c)
           \/ \E c \in Clis : CommitExchange(c)
           \/ \E c \in Clis : StoreCredential(c)
           \/ \E c \in Clis : ForgetPending(c)
           \/ \E c \in Clis : BeginUnpair(c)
           \/ \E c \in Clis : RevokeSelf(c)
           \/ \E c \in Clis : ForgetCredential(c)
  BY Zenon DEF Next

----------------------------------------------------------------------------
(* Types.                                                                  *)

\* The first state has the types.
LEMMA InitType == Init => TypeInv
  BY DEF Init, TypeInv, TypeOK, ProcShape, HookHasMachine, NoSession, NoMachine, NoToken, IdleCli

\* A session that is claimed, used or gone is still a session.
LEMMA SessionFields ==
    ASSUME TypeOK, NEW s \in Sessions
    PROVE  /\ \A row \in {"none", "open", "gone"} : [sess[s] EXCEPT !.row = row] \in Session
           /\ \A by \in Devices \union {None} : [sess[s] EXCEPT !.by = by] \in Session
           /\ \A n \in Nat : [sess[s] EXCEPT !.exchanged = n] \in Session
  BY DEF TypeOK, Session

\* A credential that ends is still a credential.
LEMMA TokenEnds ==
    ASSUME TypeOK, NEW t \in Tokens, NEW state \in {"revoked", "gone"}
    PROVE  [token[t] EXCEPT !.state = state] \in Token
  BY DEF TypeOK, Token

\* Revocation keeps the types.
LEMMA RevokeType ==
    ASSUME TypeOK, RevokeMachine
    PROVE  /\ push' \in [Devices -> {"none", "queued", "late"}]
           /\ token' \in [Tokens -> Token]
           /\ hook' \in [Hooks -> {"none", "live", "revoked", "gone"}]
           /\ subs' = {} /\ dead' \subseteq Tokens \union Hooks
           /\ mach' \in [ws : Devices \union {None}, revoked : BOOLEAN]
<1>1. push' \in [Devices -> {"none", "queued", "late"}]
  BY DEF RevokeMachine, Cancelled, TypeOK
<1>2. token' \in [Tokens -> Token]
  <2>1. token \in [Tokens -> Token]
    BY DEF TypeOK, Token
  <2>. QED
    BY <2>1, TokenEnds DEF RevokeMachine, RevokedTokens
<1>3. hook' \in [Hooks -> {"none", "live", "revoked", "gone"}]
  BY DEF RevokeMachine, TypeOK
<1>4. dead' \subseteq Tokens \union Hooks
  BY DEF RevokeMachine, Issued, TypeOK
<1>5. mach' \in [ws : Devices \union {None}, revoked : BOOLEAN]
  BY DEF RevokeMachine, TypeOK
<1>. QED
  BY <1>1, <1>2, <1>3, <1>4, <1>5 DEF RevokeMachine

\* A request that has come further is still a request.
LEMMA RequestMoves ==
    ASSUME TypeOK, NEW q \in requests
    PROVE  /\ q.op = "claim" => /\ [q EXCEPT !.phase = "locked"] \in Requests
                                /\ q.dev \in Devices /\ q.sess \in Sessions
           /\ q.op = "upload" => /\ [q EXCEPT !.phase = "read", !.subs = subs] \in Requests
                                 /\ [q EXCEPT !.phase = "read", !.subs = subs].op = "upload"
                                 /\ q.subs \in SUBSET Devices
<1>1. CASE q \in [op : {"claim"}, dev : Devices, sess : Sessions, phase : {"begun", "locked"}]
  BY <1>1 DEF Requests
<1>2. CASE q \in [op : {"hook"}, hook : Hooks]
  BY <1>2
<1>3. CASE q \in [op : {"upload"}, ws : Devices, phase : {"begun", "read"}, subs : SUBSET Devices]
  <2>1. subs \in SUBSET Devices
    BY DEF TypeOK
  <2>2. [q EXCEPT !.phase = "read", !.subs = subs]
        \in [op : {"upload"}, ws : Devices, phase : {"begun", "read"}, subs : SUBSET Devices]
    BY <1>3, <2>1
  <2>. QED
    BY <1>3, <2>2 DEF Requests
<1>. QED
  BY <1>1, <1>2, <1>3 DEF TypeOK, Requests

\* Every step keeps them.
LEMMA StepType ==
    ASSUME TypeInv, [Next]_vars
    PROVE  TypeInv'
<1>. USE DEF TypeInv, TypeOK, ProcShape, HookHasMachine
<1>1. CASE \E d \in Devices : Bootstrap(d)
  BY <1>1 DEF Bootstrap
<1>2. CASE \E d \in Devices : Stop(d)
  BY <1>2 DEF Stop, Cancelled
<1>3. CASE \E d \in Devices : Revoke(d)
  <2>1. RevokeMachine /\ UNCHANGED <<dev, chal, sess, proc, cred, pend, requests>>
    BY <1>3 DEF Revoke
  <2>2. mach'.ws = mach.ws /\ \A h \in Hooks : hook'[h] # "live"
    BY <2>1 DEF RevokeMachine
  <2>. QED
    BY <2>1, <2>2, RevokeType DEF Token
<1>4. CASE \E d \in Devices : Reset(d)
  BY <1>4 DEF Reset, Cancelled
<1>5. CASE \E d \in Devices : SendPush(d)
  BY <1>5 DEF SendPush
<1>6. CASE \E d \in Devices : NewChallenge(d)
  BY <1>6 DEF NewChallenge
<1>7. CASE \E d \in Devices : ExpireChallenge(d)
  BY <1>7 DEF ExpireChallenge
<1>8. CASE \E d \in Devices : DeleteWorkspace(d)
  <2>1. PICK d \in Devices : DeleteWorkspace(d)
    BY <1>8
  <2>2. /\ dev' \in [Devices -> {"none", "live", "reset", "deleted"}]
        /\ chal' \subseteq Devices /\ subs' \subseteq Devices
        /\ push' \in [Devices -> {"none", "queued", "late"}]
        /\ UNCHANGED <<proc, cred, pend, requests>>
    BY <2>1 DEF DeleteWorkspace
  <2>3. sess' \in [Sessions -> Session]
    BY <2>1, SessionFields DEF DeleteWorkspace, DeletedSessions, Session
  <2>4. /\ mach' \in [ws : Devices \union {None}, revoked : BOOLEAN]
        /\ hook' \in [Hooks -> {"none", "live", "revoked", "gone"}]
        /\ dead' \subseteq Tokens \union Hooks
        /\ \A h \in Hooks : hook'[h] = "live" => mach'.ws # None
    <3>1. CASE mach.ws = d
      <4>1. /\ mach' = NoMachine /\ dead' = dead \union Issued
            /\ hook' = [h \in Hooks |-> IF hook[h] = "none" THEN "none" ELSE "gone"]
        BY <2>1, <3>1, Zenon DEF DeleteWorkspace
      <4>. QED
        BY <4>1 DEF Issued, NoMachine
    <3>2. CASE mach.ws # d
      BY <2>1, <3>2 DEF DeleteWorkspace
    <3>. QED
      BY <3>1, <3>2
  <2>5. token' \in [Tokens -> Token]
    <3>1. token \in [Tokens -> Token]
      BY DEF Token
    <3>2. CASE mach.ws = d
      <4>1. token' = [t \in Tokens |-> IF token[t].state = "none" THEN token[t]
                                       ELSE [token[t] EXCEPT !.state = "gone"]]
        BY <2>1, <3>2, Zenon DEF DeleteWorkspace
      <4>2. \A t \in Tokens : [token[t] EXCEPT !.state = "gone"] \in Token
        BY TokenEnds
      <4>. QED
        BY <3>1, <4>1, <4>2
    <3>3. CASE mach.ws # d
      BY <2>1, <3>1, <3>3 DEF DeleteWorkspace
    <3>. QED
      BY <3>2, <3>3
  <2>. QED
    BY <2>2, <2>3, <2>4, <2>5 DEF Session, Token
<1>9. CASE \E d \in Devices, s \in Sessions : BeginClaim(d, s)
  BY <1>9 DEF BeginClaim, Begin, Requests
<1>10. CASE \E s \in Sessions : ExpireSession(s)
  BY <1>10 DEF ExpireSession
<1>11. CASE \E by \in Tokens \union Hooks : BeginUpload(by)
  <2>1. PICK by \in Tokens \union Hooks : BeginUpload(by)
    BY <1>11
  <2>2. mach.ws \in Devices
    BY <2>1 DEF BeginUpload, HookAccepted, TokenAccepted
  <2>3. [op |-> "upload", ws |-> mach.ws, phase |-> "begun", subs |-> {}] \in Requests
    BY <2>2 DEF Requests
  <2>. QED
    BY <2>1, <2>3 DEF BeginUpload, Begin
<1>12. CASE \E h \in Hooks : RemoveHook(h)
  BY <1>12 DEF RemoveHook
<1>13. CASE \E h \in Hooks, t \in Tokens : BeginHook(t, h)
  BY <1>13 DEF BeginHook, Begin, Requests
<1>14. CASE \E q \in requests : LockClaim(q)
  <2>1. PICK q \in requests : LockClaim(q)
    BY <1>14
  <2>2. requests' \subseteq Requests
    BY <2>1, RequestMoves DEF LockClaim
  <2>. QED
    BY <2>1, <2>2 DEF LockClaim
<1>15. CASE \E q \in requests : CommitClaim(q)
  <2>1. PICK q \in requests : CommitClaim(q)
    BY <1>15
  <2>2. q.dev \in Devices /\ q.sess \in Sessions
    BY <2>1, RequestMoves DEF CommitClaim
  <2>3. sess' = [sess EXCEPT ![q.sess] = [sess[q.sess] EXCEPT !.by = q.dev]]
    BY <2>1, Zenon DEF CommitClaim
  <2>4. sess' \in [Sessions -> Session]
    BY <2>2, <2>3, SessionFields DEF Session
  <2>5. /\ mach' \in [ws : Devices \union {None}, revoked : BOOLEAN] /\ mach'.ws # None
        /\ subs' \subseteq Devices /\ requests' \subseteq Requests
    BY <2>1, <2>2, NoneIsNothing DEF CommitClaim
  <2>. QED
    BY <2>1, <2>4, <2>5 DEF CommitClaim, Session
<1>16. CASE \E q \in requests : CreateHook(q)
  BY <1>16 DEF CreateHook
<1>17. CASE \E q \in requests : ReadSubscriptions(q)
  <2>1. PICK q \in requests : ReadSubscriptions(q)
    BY <1>17
  <2>2. requests' \subseteq Requests
    BY <2>1, RequestMoves DEF ReadSubscriptions
  <2>. QED
    BY <2>1, <2>2 DEF ReadSubscriptions
<1>18. CASE \E q \in requests : CommitUpload(q)
  BY <1>18 DEF CommitUpload
<1>19. CASE \E q \in requests : Refuse(q)
  BY <1>19 DEF Refuse
<1>20. CASE \E c \in Clis, s \in Sessions : CreateSession(c, s)
  <2>1. PICK c \in Clis, s \in Sessions : CreateSession(c, s)
    BY <1>20
  <2>2. sess' = [sess EXCEPT ![s] = [sess[s] EXCEPT !.row = "open"]]
    BY <2>1, Zenon DEF CreateSession
  <2>3. sess' \in [Sessions -> Session]
    BY <2>2, SessionFields DEF Session
  <2>. QED
    BY <2>1, <2>3 DEF CreateSession, Session
<1>21. CASE \E c \in Clis : Resume(c)
  BY <1>21 DEF Resume, Goto, serverVars
<1>22. CASE \E c \in Clis : Quit(c)
  BY <1>22 DEF Quit, Goto, serverVars
<1>23. CASE \E c \in Clis : LockExchange(c)
  BY <1>23 DEF LockExchange, Goto, serverVars
<1>24. CASE \E c \in Clis : CommitExchange(c)
  <2>1. PICK c \in Clis : CommitExchange(c)
    BY <1>24
  <2> DEFINE s == proc[c].sess
  <2>2. s \in Sessions /\ <<s, c>> \in Tokens /\ sess[s].by \in Devices \union {None}
        /\ sess[s].exchanged \in Nat
    BY <2>1 DEF CommitExchange, Tokens
  <2>3. sess' = [sess EXCEPT ![s] = [sess[s] EXCEPT !.exchanged = sess[s].exchanged + 1]]
    BY <2>1, Zenon DEF CommitExchange
  <2>4. sess' \in [Sessions -> Session]
    <3>. DEFINE n == sess[s].exchanged + 1
    <3>1. [sess[s] EXCEPT !.exchanged = n] \in Session
      <4>1. n \in Nat
        BY <2>2
      <4>. HIDE DEF n
      <4>. QED
        BY <2>2, <4>1, SessionFields
    <3>2. sess \in [Sessions -> Session]
      BY DEF Session
    <3>. QED
      BY <2>2, <2>3, <3>1, <3>2
  <2>5. token' \in [Tokens -> Token]
    BY <2>1, <2>2 DEF CommitExchange, Token
  <2>6. UNCHANGED <<dev, chal, mach, subs, hook, push, requests, cred, pend, dead>>
        /\ proc' = [proc EXCEPT ![c] = [pc |-> "answered", sess |-> s]]
    BY <2>1, Zenon DEF CommitExchange, Goto
  <2>. QED
    BY <2>2, <2>4, <2>5, <2>6 DEF Session, Token
<1>25. CASE \E c \in Clis : StoreCredential(c)
  BY <1>25 DEF StoreCredential, Goto, serverVars, Tokens
<1>26. CASE \E c \in Clis : ForgetPending(c)
  BY <1>26 DEF ForgetPending, Goto, serverVars
<1>27. CASE \E c \in Clis : BeginUnpair(c)
  BY <1>27 DEF BeginUnpair, Goto, serverVars
<1>28. CASE \E c \in Clis : RevokeSelf(c)
  <2>1. PICK c \in Clis : RevokeSelf(c)
    BY <1>28
  <2>2. /\ RevokeMachine /\ UNCHANGED <<dev, chal, sess, requests, cred, pend>>
        /\ proc' = [proc EXCEPT ![c] = [pc |-> "unpaired", sess |-> None]]
    BY <2>1 DEF RevokeSelf, Goto
  <2>3. mach'.ws = mach.ws /\ \A h \in Hooks : hook'[h] # "live"
    BY <2>2 DEF RevokeMachine
  <2>. QED
    BY <2>2, <2>3, RevokeType DEF Token
<1>29. CASE \E c \in Clis : ForgetCredential(c)
  BY <1>29 DEF ForgetCredential, Goto, serverVars
<1>30. CASE UNCHANGED vars
  BY <1>30 DEF vars
<1>. QED
  BY <1>1, <1>2, <1>3, <1>4, <1>5, <1>6, <1>7, <1>8, <1>9, <1>10, <1>11, <1>12, <1>13,
     <1>14, <1>15, <1>16, <1>17, <1>18, <1>19, <1>20, <1>21, <1>22, <1>23, <1>24, <1>25,
     <1>26, <1>27, <1>28, <1>29, <1>30, Actions

----------------------------------------------------------------------------
(* Pairing sessions.                                                       *)

\* A process that holds a session holds its row.
LEMMA HeldIsLocked ==
    ASSUME TypeInv, NEW c \in Clis, proc[c].pc = "locked"
    PROVE  SessionLocked(proc[c].sess) /\ proc[c].sess \in Sessions
<1>1. proc[c] = [pc |-> "locked", sess |-> proc[c].sess]
  BY DEF TypeInv, TypeOK
<1>. QED
  BY <1>1 DEF SessionLocked, TypeInv, ProcShape

\* Where no session changes and nobody takes one, all stays as it is.
LEMMA QuietSession ==
    ASSUME SessionInv, sess' = sess,
           \A c \in Clis : proc'[c].pc = "locked" => proc'[c] = proc[c],
           \A q \in requests' : q.op = "claim" /\ q.phase = "locked" => q \in requests
    PROVE  SessionInv'
  BY DEF SessionInv, LockedUnused, SessionsInOrder

\* A session is exchanged by whoever holds its row.
LEMMA StepSession ==
    ASSUME TypeInv, SessionInv, [Next]_vars
    PROVE  SessionInv'
<1>. TypeOK /\ ProcShape /\ LockedUnused /\ SessionsInOrder
  BY DEF TypeInv, SessionInv
<1>1. CASE \E d \in Devices : Bootstrap(d)
  BY <1>1, QuietSession DEF Bootstrap
<1>2. CASE \E d \in Devices : Stop(d)
  BY <1>2, QuietSession DEF Stop
<1>3. CASE \E d \in Devices : Revoke(d)
  BY <1>3, QuietSession DEF Revoke
<1>4. CASE \E d \in Devices : Reset(d)
  BY <1>4, QuietSession DEF Reset
<1>5. CASE \E d \in Devices : SendPush(d)
  BY <1>5, QuietSession DEF SendPush
<1>6. CASE \E d \in Devices : NewChallenge(d)
  BY <1>6, QuietSession DEF NewChallenge
<1>7. CASE \E d \in Devices : ExpireChallenge(d)
  BY <1>7, QuietSession DEF ExpireChallenge
<1>8. CASE \E d \in Devices : DeleteWorkspace(d)
  <2>1. PICK d \in Devices : DeleteWorkspace(d)
    BY <1>8
  <2>2. UNCHANGED <<proc, requests>> /\ ~WorkspaceHeld(d) /\ sess' = DeletedSessions(d)
    BY <2>1 DEF DeleteWorkspace
  <2>3. \A s \in Sessions : /\ sess'[s].by = sess[s].by /\ sess'[s].exchanged = sess[s].exchanged
                            /\ sess'[s].row = IF sess[s].by = d THEN "gone" ELSE sess[s].row
    BY <2>2 DEF DeletedSessions, TypeOK
  <2>4. \A c \in Clis : proc[c].pc = "locked" => sess[proc[c].sess].by # d
    BY <2>2, HeldIsLocked DEF WorkspaceHeld
  <2>5. LockedUnused'
    BY <2>2, <2>3, <2>4, HeldIsLocked DEF LockedUnused
  <2>6. \A q \in requests : q.op = "claim" => q.sess \in Sessions
    BY RequestMoves
  <2>7. SessionsInOrder'
    BY <2>2, <2>3, <2>6, NoneIsNothing DEF SessionsInOrder
  <2>. QED
    BY <2>5, <2>7 DEF SessionInv
<1>9. CASE \E d \in Devices, s \in Sessions : BeginClaim(d, s)
  BY <1>9, QuietSession DEF BeginClaim, Begin
<1>10. CASE \E s \in Sessions : ExpireSession(s)
  <2>1. PICK s \in Sessions : ExpireSession(s)
    BY <1>10
  <2>2. UNCHANGED <<proc, requests>> /\ ~SessionLocked(s)
        /\ sess' = [sess EXCEPT ![s] = [sess[s] EXCEPT !.row = "gone"]] /\ sess[s].row = "open"
    BY <2>1, Zenon DEF ExpireSession
  <2>3. \A r \in Sessions : /\ sess'[r].by = sess[r].by /\ sess'[r].exchanged = sess[r].exchanged
                            /\ sess'[r].row = IF r = s THEN "gone" ELSE sess[r].row
    BY <2>2 DEF TypeOK
  <2>4. \A c \in Clis : proc[c].pc = "locked" => proc[c].sess # s /\ proc[c].sess \in Sessions
    BY <2>2, HeldIsLocked
  <2>5. LockedUnused'
    BY <2>2, <2>3, <2>4 DEF LockedUnused
  <2>6. \A q \in requests : q.op = "claim" => q.sess \in Sessions
    BY RequestMoves
  <2>7. SessionsInOrder'
    BY <2>2, <2>3, <2>6 DEF SessionsInOrder
  <2>. QED
    BY <2>5, <2>7 DEF SessionInv
<1>11. CASE \E by \in Tokens \union Hooks : BeginUpload(by)
  BY <1>11, QuietSession DEF BeginUpload, Begin
<1>12. CASE \E h \in Hooks : RemoveHook(h)
  BY <1>12, QuietSession DEF RemoveHook
<1>13. CASE \E h \in Hooks, t \in Tokens : BeginHook(t, h)
  BY <1>13, QuietSession DEF BeginHook, Begin
<1>14. CASE \E q \in requests : LockClaim(q)
  <2>1. PICK q \in requests : LockClaim(q)
    BY <1>14
  <2>2. UNCHANGED <<sess, proc>> /\ sess[q.sess].row = "open"
        /\ requests' = (requests \ {q}) \union {[q EXCEPT !.phase = "locked"]}
    BY <2>1 DEF LockClaim
  <2>3. [q EXCEPT !.phase = "locked"].sess = q.sess
    OBVIOUS
  <2>. QED
    BY <2>2, <2>3 DEF SessionInv, LockedUnused, SessionsInOrder
<1>15. CASE \E q \in requests : CommitClaim(q)
  <2>1. PICK q \in requests : CommitClaim(q)
    BY <1>15
  <2>2. /\ proc' = proc /\ requests' = requests \ {q}
        /\ sess' = [sess EXCEPT ![q.sess] = [sess[q.sess] EXCEPT !.by = q.dev]]
        /\ q.op = "claim" /\ q.phase = "locked"
    BY <2>1, Zenon DEF CommitClaim
  <2>3. q.dev # None /\ q.sess \in Sessions
    BY <2>2, RequestMoves, NoneIsNothing
  <2>4. \A r \in Sessions : /\ sess'[r].row = sess[r].row /\ sess'[r].exchanged = sess[r].exchanged
                            /\ sess'[r].by = IF r = q.sess THEN q.dev ELSE sess[r].by
    BY <2>2, <2>3 DEF TypeOK
  <2>5. sess[q.sess].row # "none"
    BY <2>2 DEF SessionsInOrder
  <2>6. LockedUnused'
    BY <2>2, <2>3, <2>4, HeldIsLocked DEF LockedUnused
  <2>7. \A p \in requests : p.op = "claim" => p.sess \in Sessions
    BY RequestMoves
  <2>8. SessionsInOrder'
    BY <2>2, <2>4, <2>5, <2>7 DEF SessionsInOrder
  <2>. QED
    BY <2>6, <2>8 DEF SessionInv
<1>16. CASE \E q \in requests : CreateHook(q)
  BY <1>16, QuietSession DEF CreateHook
<1>17. CASE \E q \in requests : ReadSubscriptions(q)
  <2>1. PICK q \in requests : ReadSubscriptions(q)
    BY <1>17
  <2>2. [q EXCEPT !.phase = "read", !.subs = subs].op = "upload"
    BY <2>1, RequestMoves DEF ReadSubscriptions
  <2>3. \A p \in requests' : p.op = "claim" => p \in requests
    BY <2>1, <2>2 DEF ReadSubscriptions
  <2>4. UNCHANGED <<sess, proc>>
    BY <2>1 DEF ReadSubscriptions
  <2>. QED
    BY <2>3, <2>4, QuietSession
<1>18. CASE \E q \in requests : CommitUpload(q)
  BY <1>18, QuietSession DEF CommitUpload
<1>19. CASE \E q \in requests : Refuse(q)
  BY <1>19, QuietSession DEF Refuse
<1>20. CASE \E c \in Clis, s \in Sessions : CreateSession(c, s)
  <2>1. PICK c \in Clis, s \in Sessions : CreateSession(c, s)
    BY <1>20
  <2>2. /\ sess' = [sess EXCEPT ![s] = [sess[s] EXCEPT !.row = "open"]] /\ sess[s].row = "none"
        /\ proc' = [proc EXCEPT ![c] = [pc |-> "waiting", sess |-> s]] /\ requests' = requests
    BY <2>1, Zenon DEF CreateSession
  <2>3. \A r \in Sessions : /\ sess'[r].by = sess[r].by /\ sess'[r].exchanged = sess[r].exchanged
                            /\ sess'[r].row = IF r = s THEN "open" ELSE sess[r].row
    BY <2>2 DEF TypeOK
  <2>4. \A d \in Clis : proc'[d].pc = "locked" => proc'[d] = proc[d]
    BY <2>2 DEF TypeOK
  <2>5. LockedUnused'
    BY <2>3, <2>4, HeldIsLocked DEF LockedUnused
  <2>6. \A q \in requests : q.op = "claim" => q.sess \in Sessions
    BY RequestMoves
  <2>7. SessionsInOrder'
    BY <2>2, <2>3, <2>6 DEF SessionsInOrder
  <2>. QED
    BY <2>5, <2>7 DEF SessionInv
<1>21. CASE \E c \in Clis : Resume(c)
  BY <1>21, QuietSession DEF Resume, Goto, serverVars, TypeOK
<1>22. CASE \E c \in Clis : Quit(c)
  BY <1>22, QuietSession DEF Quit, Goto, serverVars, TypeOK
<1>23. CASE \E c \in Clis : LockExchange(c)
  <2>1. PICK c \in Clis : LockExchange(c)
    BY <1>23
  <2> DEFINE s == proc[c].sess
  <2>2. /\ proc' = [proc EXCEPT ![c] = [pc |-> "locked", sess |-> s]]
        /\ UNCHANGED <<sess, requests>> /\ ~SessionLocked(s)
        /\ sess[s].row = "open" /\ sess[s].by # None /\ sess[s].exchanged = 0
    BY <2>1 DEF LockExchange, Goto, serverVars
  <2>3. \A d \in Clis : proc[d].pc = "locked" => proc[d].sess # s
    BY <2>2, HeldIsLocked
  <2>4. proc'[c] = [pc |-> "locked", sess |-> s] /\ \A d \in Clis \ {c} : proc'[d] = proc[d]
    BY <2>2 DEF TypeOK
  <2>5. LockedUnused'
    BY <2>2, <2>3, <2>4 DEF LockedUnused
  <2>6. SessionsInOrder'
    BY <2>2 DEF SessionsInOrder
  <2>. QED
    BY <2>5, <2>6 DEF SessionInv
<1>24. CASE \E c \in Clis : CommitExchange(c)
  <2>1. PICK c \in Clis : CommitExchange(c)
    BY <1>24
  <2> DEFINE s == proc[c].sess
  <2>2. /\ sess' = [sess EXCEPT ![s] = [sess[s] EXCEPT !.exchanged = sess[s].exchanged + 1]]
        /\ proc' = [proc EXCEPT ![c] = [pc |-> "answered", sess |-> s]]
        /\ requests' = requests /\ proc[c].pc = "locked"
    BY <2>1, Zenon DEF CommitExchange, Goto
  <2>3. s \in Sessions /\ sess[s].exchanged = 0
    BY <2>2 DEF LockedUnused, ProcShape
  <2>4. \A r \in Sessions : /\ sess'[r].by = sess[r].by /\ sess'[r].row = sess[r].row
                            /\ sess'[r].exchanged = IF r = s THEN 1 ELSE sess[r].exchanged
    BY <2>2, <2>3 DEF TypeOK
  <2>5. \A d \in Clis : proc'[d].pc = "locked" => proc'[d] = proc[d] /\ proc[d].sess # s
    BY <2>2 DEF TypeOK, LockedUnused
  <2>6. LockedUnused'
    BY <2>4, <2>5, HeldIsLocked DEF LockedUnused
  <2>7. \A q \in requests : q.op = "claim" => q.sess \in Sessions
    BY RequestMoves
  <2>8. SessionsInOrder'
    BY <2>2, <2>4, <2>7 DEF SessionsInOrder
  <2>. QED
    BY <2>6, <2>8 DEF SessionInv
<1>25. CASE \E c \in Clis : StoreCredential(c)
  BY <1>25, QuietSession DEF StoreCredential, Goto, serverVars, TypeOK
<1>26. CASE \E c \in Clis : ForgetPending(c)
  BY <1>26, QuietSession DEF ForgetPending, Goto, serverVars, TypeOK
<1>27. CASE \E c \in Clis : BeginUnpair(c)
  BY <1>27, QuietSession DEF BeginUnpair, Goto, serverVars, TypeOK
<1>28. CASE \E c \in Clis : RevokeSelf(c)
  BY <1>28, QuietSession DEF RevokeSelf, Goto, serverVars, TypeOK
<1>29. CASE \E c \in Clis : ForgetCredential(c)
  BY <1>29, QuietSession DEF ForgetCredential, Goto, serverVars, TypeOK
<1>30. CASE UNCHANGED vars
  BY <1>30, QuietSession DEF vars
<1>. QED
  BY <1>1, <1>2, <1>3, <1>4, <1>5, <1>6, <1>7, <1>8, <1>9, <1>10, <1>11, <1>12, <1>13, <1>14,
     <1>15, <1>16, <1>17, <1>18, <1>19, <1>20, <1>21, <1>22, <1>23, <1>24, <1>25, <1>26, <1>27,
     <1>28, <1>29, <1>30, Actions

----------------------------------------------------------------------------
(* Credentials.                                                            *)

CredentialInv == IssuedByExchange /\ ClaimedByOwner /\ DeadHasEnded

\* Where no session, machine or credential changes, all stays as it is.
LEMMA QuietCredential ==
    ASSUME CredentialInv, UNCHANGED <<sess, mach, token, dead>>,
           \A h \in Hooks : hook[h] \in {"revoked", "gone"} => hook'[h] = hook[h]
    PROVE  CredentialInv'
  BY DEF CredentialInv, IssuedByExchange, ClaimedByOwner, DeadHasEnded

\* Revocation ends all that was issued, and changes no owner.
LEMMA RevokeCredential ==
    ASSUME TypeInv, CredentialInv, RevokeMachine, sess' = sess
    PROVE  CredentialInv'
<1>. IssuedByExchange /\ ClaimedByOwner /\ DeadHasEnded /\ TypeOK
  BY DEF CredentialInv, TypeInv
<1>1. mach'.ws = mach.ws
  BY DEF RevokeMachine, TypeOK
<1>2. \A t \in Tokens : token'[t].state = IF token[t].state = "live" THEN "revoked"
                                           ELSE token[t].state
  BY DEF RevokeMachine, RevokedTokens, TypeOK
<1>3. \A h \in Hooks : hook'[h] = IF hook[h] = "live" THEN "revoked" ELSE hook[h]
  BY DEF RevokeMachine
<1>4. \A s \in Sessions, c \in Clis : <<s, c>> \in Tokens
  BY DEF Tokens
<1>5. IssuedByExchange'
  BY <1>2, <1>4 DEF IssuedByExchange
<1>6. ClaimedByOwner'
  BY <1>1, <1>2 DEF ClaimedByOwner
<1>7. \A t \in Tokens \intersect dead' : token[t].state # "none"
  BY HooksAreNoTokens DEF RevokeMachine, Issued, DeadHasEnded, Tokens
<1>8. \A h \in Hooks \intersect dead' : hook[h] # "none"
  BY HooksAreNoTokens DEF RevokeMachine, Issued, DeadHasEnded, Tokens
<1>9. DeadHasEnded'
  BY <1>2, <1>3, <1>7, <1>8 DEF DeadHasEnded, TypeOK
<1>. QED
  BY <1>5, <1>6, <1>9 DEF CredentialInv

\* Deletion of the Workspace of the machine ends it all, too.
LEMMA DeleteCredential ==
    ASSUME TypeInv, SessionInv, CredentialInv, NEW d \in Devices, DeleteWorkspace(d)
    PROVE  CredentialInv'
<1>. IssuedByExchange /\ ClaimedByOwner /\ DeadHasEnded /\ TypeOK
  BY DEF CredentialInv, TypeInv
<1>1. \A s \in Sessions : /\ sess'[s].by = sess[s].by /\ sess'[s].exchanged = sess[s].exchanged
                          /\ sess'[s].row = IF sess[s].by = d THEN "gone" ELSE sess[s].row
  BY DEF DeleteWorkspace, DeletedSessions, TypeOK
<1>2. \A s \in Sessions, c \in Clis : <<s, c>> \in Tokens
  BY DEF Tokens
<1>3. CASE mach.ws = d
  <2>1. /\ mach' = NoMachine /\ dead' = dead \union Issued
        /\ token' = [t \in Tokens |-> IF token[t].state = "none" THEN token[t]
                                      ELSE [token[t] EXCEPT !.state = "gone"]]
        /\ hook' = [h \in Hooks |-> IF hook[h] = "none" THEN "none" ELSE "gone"]
    BY <1>3, Zenon DEF DeleteWorkspace
  <2>2. \A t \in Tokens : token'[t].state = IF token[t].state = "none" THEN "none" ELSE "gone"
    BY <2>1 DEF TypeOK
  <2>3. IssuedByExchange'
    BY <1>1, <1>2, <2>2 DEF IssuedByExchange
  <2>4. \A s \in Sessions : sess'[s].row = "open" => sess'[s].by = None
    BY <1>1, <1>3 DEF ClaimedByOwner
  <2>5. ClaimedByOwner'
    BY <2>2, <2>4 DEF ClaimedByOwner
  <2>6. /\ \A t \in Tokens \intersect dead' : token[t].state # "none"
        /\ \A h \in Hooks \intersect dead' : hook[h] # "none"
    BY <2>1, HooksAreNoTokens DEF Issued, DeadHasEnded, Tokens
  <2>7. DeadHasEnded'
    BY <2>1, <2>2, <2>6 DEF DeadHasEnded
  <2>. QED
    BY <2>3, <2>5, <2>7 DEF CredentialInv
<1>4. CASE mach.ws # d
  <2>1. UNCHANGED <<mach, token, hook, dead>>
    BY <1>4 DEF DeleteWorkspace
  <2>2. IssuedByExchange'
    BY <1>1, <1>2, <2>1 DEF IssuedByExchange
  <2>3. ClaimedByOwner'
    BY <1>1, <2>1 DEF ClaimedByOwner
  <2>4. DeadHasEnded'
    BY <2>1 DEF DeadHasEnded
  <2>. QED
    BY <2>2, <2>3, <2>4 DEF CredentialInv
<1>. QED
  BY <1>3, <1>4

\* A claim is for the machine's own Workspace, or makes it that of the machine.
LEMMA ClaimCredential ==
    ASSUME TypeInv, SessionInv, CredentialInv, NEW q \in requests, CommitClaim(q)
    PROVE  CredentialInv'
<1>. IssuedByExchange /\ ClaimedByOwner /\ DeadHasEnded /\ TypeOK
  BY DEF CredentialInv, TypeInv
<1>1. /\ sess' = [sess EXCEPT ![q.sess] = [sess[q.sess] EXCEPT !.by = q.dev]]
      /\ mach' = [ws |-> IF mach.ws = None THEN q.dev ELSE mach.ws, revoked |-> FALSE]
      /\ UNCHANGED <<token, hook, dead>> /\ q.op = "claim"
      /\ mach.ws = None \/ mach.ws = q.dev
  BY Zenon DEF CommitClaim, MachineFree
<1>2. q.sess \in Sessions /\ q.dev \in Devices
  BY <1>1, RequestMoves
<1>3. \A r \in Sessions : /\ sess'[r].row = sess[r].row /\ sess'[r].exchanged = sess[r].exchanged
                          /\ sess'[r].by = IF r = q.sess THEN q.dev ELSE sess[r].by
  BY <1>1, <1>2 DEF TypeOK
<1>4. mach'.ws = q.dev /\ (mach.ws # None => mach'.ws = mach.ws)
  BY <1>1
<1>5. IssuedByExchange'
  BY <1>1, <1>3 DEF IssuedByExchange
<1>6. ClaimedByOwner'
  BY <1>1, <1>2, <1>3, <1>4, NoneIsNothing DEF ClaimedByOwner
<1>7. DeadHasEnded'
  BY <1>1 DEF DeadHasEnded
<1>. QED
  BY <1>5, <1>6, <1>7 DEF CredentialInv

\* An exchange issues a credential that nobody had, to the owner of the machine.
LEMMA ExchangeCredential ==
    ASSUME TypeInv, SessionInv, CredentialInv, NEW c \in Clis, CommitExchange(c)
    PROVE  CredentialInv'
<1> DEFINE s == proc[c].sess
           t == <<s, c>>
<1>. IssuedByExchange /\ ClaimedByOwner /\ DeadHasEnded /\ TypeOK /\ LockedUnused
  BY DEF CredentialInv, TypeInv, SessionInv
<1>1. /\ sess' = [sess EXCEPT ![s] = [sess[s] EXCEPT !.exchanged = sess[s].exchanged + 1]]
      /\ token' = [token EXCEPT ![t] = [state |-> "live", owner |-> sess[s].by]]
      /\ UNCHANGED <<mach, hook, dead>> /\ mach.ws # None /\ proc[c].pc = "locked"
  BY Zenon DEF CommitExchange
<1>2. s \in Sessions /\ t \in Tokens /\ sess[s].exchanged = 0
      /\ sess[s].row = "open" /\ sess[s].by # None
  BY <1>1 DEF LockedUnused, TypeInv, ProcShape, Tokens
<1>3. token[t].state = "none" /\ sess[s].by = mach.ws
  BY <1>2 DEF IssuedByExchange, ClaimedByOwner
<1>4. t \notin dead
  BY <1>2, <1>3 DEF DeadHasEnded
<1>5. \A r \in Sessions : /\ sess'[r].by = sess[r].by /\ sess'[r].row = sess[r].row
                          /\ sess'[r].exchanged = IF r = s THEN 1 ELSE sess[r].exchanged
  BY <1>1, <1>2 DEF TypeOK
<1>6. /\ token'[t] = [state |-> "live", owner |-> mach.ws]
      /\ \A u \in Tokens : u # t => token'[u] = token[u]
  BY <1>1, <1>2, <1>3 DEF TypeOK
<1>7. IssuedByExchange'
  <2>. SUFFICES ASSUME NEW r \in Sessions, NEW e \in Clis, token'[<<r, e>>].state # "none"
                PROVE  sess'[r].exchanged >= 1
    BY DEF IssuedByExchange
  <2>1. CASE r = s
    BY <2>1, <1>5
  <2>2. CASE r # s
    <3>1. <<r, e>> \in Tokens /\ <<r, e>> # t
      BY <2>2 DEF Tokens
    <3>. QED
      BY <1>5, <1>6, <2>2, <3>1 DEF IssuedByExchange
  <2>. QED
    BY <2>1, <2>2
<1>8. ClaimedByOwner'
  BY <1>1, <1>5, <1>6 DEF ClaimedByOwner
<1>9. DeadHasEnded'
  BY <1>1, <1>4, <1>6 DEF DeadHasEnded
<1>. QED
  BY <1>7, <1>8, <1>9 DEF CredentialInv

\* Every step keeps what is known about credentials.
LEMMA StepCredential ==
    ASSUME TypeInv, SessionInv, CredentialInv, [Next]_vars
    PROVE  CredentialInv'
<1>1. CASE \E d \in Devices : Bootstrap(d)
  BY <1>1, QuietCredential DEF Bootstrap
<1>2. CASE \E d \in Devices : Stop(d)
  BY <1>2, QuietCredential DEF Stop
<1>3. CASE \E d \in Devices : Revoke(d)
  BY <1>3, RevokeCredential DEF Revoke
<1>4. CASE \E d \in Devices : Reset(d)
  BY <1>4, QuietCredential DEF Reset
<1>5. CASE \E d \in Devices : SendPush(d)
  BY <1>5, QuietCredential DEF SendPush
<1>6. CASE \E d \in Devices : NewChallenge(d)
  BY <1>6, QuietCredential DEF NewChallenge
<1>7. CASE \E d \in Devices : ExpireChallenge(d)
  BY <1>7, QuietCredential DEF ExpireChallenge
<1>8. CASE \E d \in Devices : DeleteWorkspace(d)
  BY <1>8, DeleteCredential
<1>9. CASE \E d \in Devices, s \in Sessions : BeginClaim(d, s)
  BY <1>9, QuietCredential DEF BeginClaim, Begin
<1>10. CASE \E s \in Sessions : ExpireSession(s)
  <2>1. UNCHANGED <<mach, token, hook, dead>>
    BY <1>10 DEF ExpireSession
  <2>2. \A s \in Sessions : /\ sess'[s].exchanged = sess[s].exchanged /\ sess'[s].by = sess[s].by
                            /\ sess'[s].row = "open" /\ sess[s].by # None => sess[s].row = "open"
    BY <1>10 DEF ExpireSession, TypeInv, TypeOK, SessionInv, SessionsInOrder
  <2>. QED
    BY <2>1, <2>2 DEF CredentialInv, IssuedByExchange, ClaimedByOwner, DeadHasEnded
<1>11. CASE \E by \in Tokens \union Hooks : BeginUpload(by)
  BY <1>11, QuietCredential DEF BeginUpload, Begin
<1>12. CASE \E h \in Hooks : RemoveHook(h)
  BY <1>12, QuietCredential DEF RemoveHook, TypeInv, TypeOK
<1>13. CASE \E h \in Hooks, t \in Tokens : BeginHook(t, h)
  BY <1>13, QuietCredential DEF BeginHook, Begin
<1>14. CASE \E q \in requests : LockClaim(q)
  BY <1>14, QuietCredential DEF LockClaim
<1>15. CASE \E q \in requests : CommitClaim(q)
  BY <1>15, ClaimCredential
<1>16. CASE \E q \in requests : CreateHook(q)
  BY <1>16, QuietCredential DEF CreateHook, TypeInv, TypeOK
<1>17. CASE \E q \in requests : ReadSubscriptions(q)
  BY <1>17, QuietCredential DEF ReadSubscriptions
<1>18. CASE \E q \in requests : CommitUpload(q)
  BY <1>18, QuietCredential DEF CommitUpload
<1>19. CASE \E q \in requests : Refuse(q)
  BY <1>19, QuietCredential DEF Refuse
<1>20. CASE \E c \in Clis, s \in Sessions : CreateSession(c, s)
  <2>1. UNCHANGED <<mach, token, hook, dead>>
    BY <1>20 DEF CreateSession
  <2>2. \A s \in Sessions : /\ sess'[s].exchanged = sess[s].exchanged /\ sess'[s].by = sess[s].by
                            /\ sess'[s].row = "open" /\ sess[s].by # None => sess[s].row = "open"
    BY <1>20 DEF CreateSession, TypeInv, TypeOK, SessionInv, SessionsInOrder
  <2>. QED
    BY <2>1, <2>2 DEF CredentialInv, IssuedByExchange, ClaimedByOwner, DeadHasEnded
<1>21. CASE \E c \in Clis : Resume(c)
  BY <1>21, QuietCredential DEF Resume, Goto, serverVars
<1>22. CASE \E c \in Clis : Quit(c)
  BY <1>22, QuietCredential DEF Quit, Goto, serverVars
<1>23. CASE \E c \in Clis : LockExchange(c)
  BY <1>23, QuietCredential DEF LockExchange, Goto, serverVars
<1>24. CASE \E c \in Clis : CommitExchange(c)
  BY <1>24, ExchangeCredential
<1>25. CASE \E c \in Clis : StoreCredential(c)
  BY <1>25, QuietCredential DEF StoreCredential, Goto, serverVars
<1>26. CASE \E c \in Clis : ForgetPending(c)
  BY <1>26, QuietCredential DEF ForgetPending, Goto, serverVars
<1>27. CASE \E c \in Clis : BeginUnpair(c)
  BY <1>27, QuietCredential DEF BeginUnpair, Goto, serverVars
<1>28. CASE \E c \in Clis : RevokeSelf(c)
  BY <1>28, RevokeCredential DEF RevokeSelf
<1>29. CASE \E c \in Clis : ForgetCredential(c)
  BY <1>29, QuietCredential DEF ForgetCredential, Goto, serverVars
<1>30. CASE UNCHANGED vars
  BY <1>30, QuietCredential DEF vars
<1>. QED
  BY <1>1, <1>2, <1>3, <1>4, <1>5, <1>6, <1>7, <1>8, <1>9, <1>10, <1>11, <1>12, <1>13, <1>14,
     <1>15, <1>16, <1>17, <1>18, <1>19, <1>20, <1>21, <1>22, <1>23, <1>24, <1>25, <1>26, <1>27,
     <1>28, <1>29, <1>30, Actions

----------------------------------------------------------------------------
\* In the first state nothing was created.
LEMMA InitPairing == Init => PairingInv
<1>. SUFFICES ASSUME Init PROVE PairingInv
  OBVIOUS
<1>1. \A c \in Clis : proc[c].pc = "idle"
  BY DEF Init, IdleCli
<1>2. \A s \in Sessions : sess[s].row = "none" /\ sess[s].by = None /\ sess[s].exchanged = 0
  BY DEF Init, NoSession
<1>3. \A t \in Tokens : token[t].state = "none"
  BY DEF Init, NoToken
<1>4. requests = {} /\ dead = {}
  BY DEF Init
<1>5. SessionInv
  BY <1>1, <1>2, <1>4 DEF SessionInv, LockedUnused, SessionsInOrder
<1>6. IssuedByExchange /\ ClaimedByOwner /\ DeadHasEnded
  BY <1>2, <1>3, <1>4 DEF IssuedByExchange, ClaimedByOwner, DeadHasEnded, Tokens
<1>. QED
  BY <1>5, <1>6, InitType DEF PairingInv

\* The invariant of pairing.
LEMMA PairingInvariant == Spec => []PairingInv
<1>1. PairingInv /\ [Next]_vars => PairingInv'
  BY StepType, StepSession, StepCredential DEF PairingInv, CredentialInv
<1>. QED
  BY InitPairing, <1>1, PTL DEF Spec

\* The variables have their types.
THEOREM PairingTypes == Spec => []TypeOK
<1>1. PairingInv => TypeOK
  BY DEF PairingInv, TypeInv
<1>. QED
  BY <1>1, PairingInvariant, PTL

\* A credential or webhook that existed when its machine was revoked or deleted
\* is refused for ever, however often the machine is paired again afterwards
\* (_revoke_machine changes the credentials, and not only the machine).
THEOREM RevokedIsRefused == Spec => []RevokedStaysRefused
<1>1. PairingInv => RevokedStaysRefused
  BY DEF PairingInv, DeadHasEnded, RevokedStaysRefused, TokenAccepted, HookAccepted
<1>. QED
  BY <1>1, PairingInvariant, PTL

\* A pairing session yields one credential at most, and an accepted credential
\* belongs to the Workspace of the machine (exchange_pairing_session under the
\* row lock of the session).
THEOREM OneCredentialOneOwner == Spec => []OneOwner
<1>1. PairingInv => OneOwner
  BY DEF PairingInv, SessionInv, SessionsInOrder, ClaimedByOwner, OneOwner, TokenAccepted
<1>. QED
  BY <1>1, PairingInvariant, PTL

----------------------------------------------------------------------------
(* What a deletion and a farewell leave.                                   *)

\* Whoever is subscribed, or has a credential that was not deleted, belongs to
\* the machine; an upload that has read the subscriptions holds its Workspace.
WorkspaceInv ==
    /\ subs \subseteq {mach.ws}
    /\ \A t \in Tokens : token[t].state \in {"live", "revoked"} =>
          mach.ws # None /\ token[t].owner = mach.ws
    /\ \A q \in requests : q.op = "upload" /\ q.phase = "read" =>
          q.subs \subseteq {q.ws} /\ dev[q.ws] # "deleted"
    /\ DeletedLeavesNothing

\* Steps on other rows.
LEMMA QuietWorkspace ==
    ASSUME WorkspaceInv, UNCHANGED <<dev, sess, mach, subs, token, push>>, chal' \subseteq chal,
           \A q \in requests' : q.op = "upload" /\ q.phase = "read" => q \in requests
    PROVE  WorkspaceInv'
  BY DEF WorkspaceInv, DeletedLeavesNothing

\* Revocation ends subscriptions, pushes and credentials of the machine.
LEMMA RevokeWorkspace ==
    ASSUME TypeInv, WorkspaceInv, RevokeMachine, UNCHANGED <<dev, chal, sess, requests>>
    PROVE  WorkspaceInv'
<1>1. mach'.ws = mach.ws /\ subs' = {}
  BY DEF RevokeMachine, TypeInv, TypeOK
<1>2. \A t \in Tokens : /\ token'[t].owner = token[t].owner
                        /\ token'[t].state = IF token[t].state = "live" THEN "revoked"
                                             ELSE token[t].state
  BY DEF RevokeMachine, RevokedTokens, TypeInv, TypeOK
<1>3. \A d \in Devices : push[d] = "none" => push'[d] = "none"
  BY DEF RevokeMachine, Cancelled
<1>. QED
  BY <1>1, <1>2, <1>3 DEF WorkspaceInv, DeletedLeavesNothing

\* The deletion itself.
LEMMA DeleteLeavesNothing ==
    ASSUME PairingInv, WorkspaceInv, NEW d \in Devices, DeleteWorkspace(d)
    PROVE  WorkspaceInv'
<1>. TypeOK
  BY DEF PairingInv, TypeInv
<1>1. /\ \A e \in Devices : dev'[e] = IF e = d THEN "deleted" ELSE dev[e]
      /\ \A e \in Devices : push'[e] = IF e = d THEN "none" ELSE push[e]
      /\ chal' = chal \ {d} /\ subs' = subs \ {d} /\ requests' = requests
      /\ dev[d] = "live"
  BY DEF DeleteWorkspace, DeviceAccepted, TypeOK
<1>2. \A s \in Sessions : /\ sess'[s].by = sess[s].by
                          /\ sess'[s].row = IF sess[s].by = d THEN "gone" ELSE sess[s].row
  BY DEF DeleteWorkspace, DeletedSessions, TypeOK
<1>3. /\ mach'.ws # d
      /\ mach'.ws = mach.ws \/ (mach.ws = d /\ mach'.ws = None)
      /\ \A t \in Tokens :
            /\ token'[t].owner = token[t].owner
            /\ token'[t].state = IF mach.ws = d /\ token[t].state # "none" THEN "gone"
                                 ELSE token[t].state
  <2>1. CASE mach.ws = d
    <3>1. /\ mach' = NoMachine
          /\ token' = [t \in Tokens |-> IF token[t].state = "none" THEN token[t]
                                        ELSE [token[t] EXCEPT !.state = "gone"]]
      BY <2>1, Zenon DEF DeleteWorkspace
    <3>. QED
      BY <2>1, <3>1, NoneIsNothing DEF NoMachine, TypeOK
  <2>2. CASE mach.ws # d
    BY <2>2 DEF DeleteWorkspace
  <2>. QED
    BY <2>1, <2>2
<1>4. \A q \in requests' : q.op = "upload" /\ q.phase = "read" =>
         q.subs \subseteq {q.ws} /\ dev'[q.ws] # "deleted"
  <2>. SUFFICES ASSUME NEW q \in requests, q.op = "upload", q.phase = "read"
                PROVE  q.subs \subseteq {q.ws} /\ dev'[q.ws] # "deleted"
    BY <1>1
  <2>1. q.ws # d
    BY DEF DeleteWorkspace, WorkspaceHeld
  <2>2. q.ws \in Devices
    BY DEF TypeOK, Requests
  <2>. QED
    BY <1>1, <2>1, <2>2 DEF WorkspaceInv
<1>5. subs' \subseteq {mach'.ws}
  BY <1>1, <1>3 DEF WorkspaceInv
<1>6. \A t \in Tokens : token'[t].state \in {"live", "revoked"} =>
         mach'.ws # None /\ token'[t].owner = mach'.ws
  BY <1>3 DEF WorkspaceInv
<1>7. \A t \in Tokens : token'[t].owner = d => token'[t].state \in {"none", "gone"}
  BY <1>3 DEF WorkspaceInv, TypeOK
<1>8. DeletedLeavesNothing'
  <2>. SUFFICES ASSUME NEW e \in Devices, dev'[e] = "deleted"
                PROVE  /\ mach'.ws # e /\ e \notin subs' /\ push'[e] = "none" /\ e \notin chal'
                       /\ \A s \in Sessions : sess'[s].by = e => sess'[s].row = "gone"
                       /\ \A t \in Tokens :
                             token'[t].owner = e => token'[t].state \in {"none", "gone"}
    BY DEF DeletedLeavesNothing
  <2>1. CASE e = d
    BY <1>1, <1>2, <1>3, <1>7, <2>1
  <2>2. CASE e # d
    BY <1>1, <1>2, <1>3, <2>2, NoneIsNothing DEF WorkspaceInv, DeletedLeavesNothing
  <2>. QED
    BY <2>1, <2>2
<1>. QED
  BY <1>4, <1>5, <1>6, <1>8 DEF WorkspaceInv

\* A claim is committed only for a Device that still has its Workspace.
LEMMA ClaimWorkspace ==
    ASSUME PairingInv, WorkspaceInv, NEW q \in requests, CommitClaim(q)
    PROVE  WorkspaceInv'
<1>. TypeOK
  BY DEF PairingInv, TypeInv
<1>1. /\ sess' = [sess EXCEPT ![q.sess] = [sess[q.sess] EXCEPT !.by = q.dev]]
      /\ mach' = [ws |-> IF mach.ws = None THEN q.dev ELSE mach.ws, revoked |-> FALSE]
      /\ UNCHANGED <<dev, chal, token, push>> /\ q.op = "claim"
      /\ subs' = subs \union {q.dev} /\ requests' = requests \ {q}
      /\ mach.ws = None \/ mach.ws = q.dev
      /\ dev[q.dev] # "deleted"
  BY Zenon DEF CommitClaim, MachineFree, HasWorkspace
<1>2. q.sess \in Sessions /\ q.dev \in Devices
  BY <1>1, RequestMoves
<1>3. \A r \in Sessions : /\ sess'[r].row = sess[r].row
                          /\ sess'[r].by = IF r = q.sess THEN q.dev ELSE sess[r].by
  BY <1>1, <1>2 DEF TypeOK
<1>4. mach'.ws = q.dev /\ subs' \subseteq {mach'.ws}
  BY <1>1, <1>2, NoneIsNothing DEF WorkspaceInv, TypeOK
<1>5. \A t \in Tokens : token[t].state \in {"live", "revoked"} =>
         mach'.ws # None /\ token[t].owner = mach'.ws
  BY <1>1, <1>2, <1>4, NoneIsNothing DEF WorkspaceInv
<1>6. DeletedLeavesNothing'
  BY <1>1, <1>3, <1>4 DEF WorkspaceInv, DeletedLeavesNothing
<1>. QED
  BY <1>1, <1>4, <1>5, <1>6 DEF WorkspaceInv

\* An exchange gives its credential to the owner of the machine.
LEMMA ExchangeWorkspace ==
    ASSUME PairingInv, WorkspaceInv, NEW c \in Clis, CommitExchange(c)
    PROVE  WorkspaceInv'
<1> DEFINE s == proc[c].sess
           t == <<s, c>>
<1>. TypeOK
  BY DEF PairingInv, TypeInv
<1>1. /\ sess' = [sess EXCEPT ![s] = [sess[s] EXCEPT !.exchanged = sess[s].exchanged + 1]]
      /\ token' = [token EXCEPT ![t] = [state |-> "live", owner |-> sess[s].by]]
      /\ UNCHANGED <<dev, chal, mach, subs, push, requests>>
      /\ mach.ws # None /\ proc[c].pc = "locked"
  BY Zenon DEF CommitExchange
<1>2. s \in Sessions /\ t \in Tokens /\ sess[s].row = "open" /\ sess[s].by = mach.ws
  BY <1>1 DEF PairingInv, TypeInv, ProcShape, SessionInv, LockedUnused, ClaimedByOwner, Tokens
<1>3. \A r \in Sessions : sess'[r].by = sess[r].by /\ sess'[r].row = sess[r].row
  BY <1>1, <1>2 DEF TypeOK
<1>4. /\ token'[t] = [state |-> "live", owner |-> mach.ws]
      /\ \A u \in Tokens : u # t => token'[u] = token[u]
  BY <1>1, <1>2 DEF TypeOK
<1>5. \A u \in Tokens : token'[u].state \in {"live", "revoked"} =>
         mach.ws # None /\ token'[u].owner = mach.ws
  BY <1>1, <1>4 DEF WorkspaceInv
<1>6. DeletedLeavesNothing'
  BY <1>1, <1>3, <1>4 DEF WorkspaceInv, DeletedLeavesNothing
<1>. QED
  BY <1>1, <1>5, <1>6 DEF WorkspaceInv

\* An upload reads the subscriptions of the machine's Workspace only, and holds
\* it until its pushes are committed.
LEMMA UploadWorkspace ==
    ASSUME PairingInv, WorkspaceInv, NEW q \in requests, ReadSubscriptions(q) \/ CommitUpload(q)
    PROVE  WorkspaceInv'
<1>. TypeOK
  BY DEF PairingInv, TypeInv
<1>1. q \in [op : {"upload"}, ws : Devices, phase : {"begun", "read"}, subs : SUBSET Devices]
  BY DEF ReadSubscriptions, CommitUpload, TypeOK, Requests
<1>2. CASE ReadSubscriptions(q)
  <2>1. /\ UNCHANGED <<dev, chal, sess, mach, subs, token, push>> /\ mach.ws = q.ws
        /\ requests' = (requests \ {q}) \union {[q EXCEPT !.phase = "read", !.subs = subs]}
    BY <1>2 DEF ReadSubscriptions
  <2>2. /\ [q EXCEPT !.phase = "read", !.subs = subs].ws = q.ws
        /\ [q EXCEPT !.phase = "read", !.subs = subs].subs = subs
    BY <1>1
  <2>3. dev[q.ws] # "deleted" /\ subs \subseteq {q.ws}
    BY <1>1, <2>1 DEF WorkspaceInv, DeletedLeavesNothing
  <2>4. DeletedLeavesNothing'
    BY <2>1 DEF WorkspaceInv, DeletedLeavesNothing
  <2>5. \A p \in requests' : p.op = "upload" /\ p.phase = "read" =>
           p.subs \subseteq {p.ws} /\ dev[p.ws] # "deleted"
    <3>. DEFINE p0 == [q EXCEPT !.phase = "read", !.subs = subs]
    <3>1. p0.ws = q.ws /\ p0.subs = subs /\ requests' = (requests \ {q}) \union {p0}
      BY <2>1, <2>2
    <3>. HIDE DEF p0
    <3>. QED
      BY <2>3, <3>1 DEF WorkspaceInv
  <2>. QED
    BY <2>1, <2>4, <2>5 DEF WorkspaceInv
<1>3. CASE CommitUpload(q)
  <2>1. /\ UNCHANGED <<dev, chal, sess, mach, subs, token>> /\ requests' = requests \ {q}
        /\ q.subs \subseteq {q.ws} /\ dev[q.ws] # "deleted"
        /\ \A d \in Devices : d \notin q.subs => push'[d] = push[d]
    BY <1>3 DEF CommitUpload, WorkspaceInv
  <2>2. \A d \in Devices : dev[d] = "deleted" => push'[d] = push[d]
    BY <2>1
  <2>. QED
    BY <2>1, <2>2 DEF WorkspaceInv, DeletedLeavesNothing
<1>. QED
  BY <1>2, <1>3

\* Every step keeps it.
LEMMA StepWorkspace ==
    ASSUME PairingInv, WorkspaceInv, [Next]_vars
    PROVE  WorkspaceInv'
<1>. TypeInv /\ TypeOK
  BY DEF PairingInv, TypeInv
<1>1. CASE \E d \in Devices : Bootstrap(d)
  BY <1>1 DEF Bootstrap, WorkspaceInv, DeletedLeavesNothing, TypeOK, Requests
<1>2. CASE \E d \in Devices : Stop(d)
  BY <1>2 DEF Stop, Cancelled, WorkspaceInv, DeletedLeavesNothing
<1>3. CASE \E d \in Devices : Revoke(d)
  BY <1>3, RevokeWorkspace DEF Revoke
<1>4. CASE \E d \in Devices : Reset(d)
  BY <1>4 DEF Reset, Cancelled, DeviceAccepted, WorkspaceInv, DeletedLeavesNothing, TypeOK, Requests
<1>5. CASE \E d \in Devices : SendPush(d)
  BY <1>5 DEF SendPush, WorkspaceInv, DeletedLeavesNothing
<1>6. CASE \E d \in Devices : NewChallenge(d)
  BY <1>6 DEF NewChallenge, DeviceAccepted, WorkspaceInv, DeletedLeavesNothing
<1>7. CASE \E d \in Devices : ExpireChallenge(d)
  BY <1>7, QuietWorkspace DEF ExpireChallenge
<1>8. CASE \E d \in Devices : DeleteWorkspace(d)
  BY <1>8, DeleteLeavesNothing
<1>9. CASE \E d \in Devices, s \in Sessions : BeginClaim(d, s)
  BY <1>9, QuietWorkspace DEF BeginClaim, Begin
<1>10. CASE \E s \in Sessions : ExpireSession(s)
  BY <1>10 DEF ExpireSession, WorkspaceInv, DeletedLeavesNothing, TypeOK
<1>11. CASE \E by \in Tokens \union Hooks : BeginUpload(by)
  BY <1>11, QuietWorkspace DEF BeginUpload, Begin
<1>12. CASE \E h \in Hooks : RemoveHook(h)
  BY <1>12, QuietWorkspace DEF RemoveHook
<1>13. CASE \E h \in Hooks, t \in Tokens : BeginHook(t, h)
  BY <1>13, QuietWorkspace DEF BeginHook, Begin
<1>14. CASE \E q \in requests : LockClaim(q)
  <2>1. PICK q \in requests : LockClaim(q)
    BY <1>14
  <2>2. q \in [op : {"claim"}, dev : Devices, sess : Sessions, phase : {"begun", "locked"}]
    BY <2>1 DEF LockClaim, TypeOK, Requests
  <2>3. [q EXCEPT !.phase = "locked"].op = "claim"
    BY <2>2
  <2>. QED
    BY <2>1, <2>3, QuietWorkspace DEF LockClaim
<1>15. CASE \E q \in requests : CommitClaim(q)
  BY <1>15, ClaimWorkspace
<1>16. CASE \E q \in requests : CreateHook(q)
  BY <1>16, QuietWorkspace DEF CreateHook
<1>17. CASE \E q \in requests : ReadSubscriptions(q)
  BY <1>17, UploadWorkspace
<1>18. CASE \E q \in requests : CommitUpload(q)
  BY <1>18, UploadWorkspace
<1>19. CASE \E q \in requests : Refuse(q)
  BY <1>19, QuietWorkspace DEF Refuse
<1>20. CASE \E c \in Clis, s \in Sessions : CreateSession(c, s)
  BY <1>20 DEF CreateSession, WorkspaceInv, DeletedLeavesNothing, TypeOK, PairingInv, SessionInv,
              SessionsInOrder
<1>21. CASE \E c \in Clis : Resume(c)
  BY <1>21, QuietWorkspace DEF Resume, Goto, serverVars
<1>22. CASE \E c \in Clis : Quit(c)
  BY <1>22, QuietWorkspace DEF Quit, Goto, serverVars
<1>23. CASE \E c \in Clis : LockExchange(c)
  BY <1>23, QuietWorkspace DEF LockExchange, Goto, serverVars
<1>24. CASE \E c \in Clis : CommitExchange(c)
  BY <1>24, ExchangeWorkspace
<1>25. CASE \E c \in Clis : StoreCredential(c)
  BY <1>25, QuietWorkspace DEF StoreCredential, Goto, serverVars
<1>26. CASE \E c \in Clis : ForgetPending(c)
  BY <1>26, QuietWorkspace DEF ForgetPending, Goto, serverVars
<1>27. CASE \E c \in Clis : BeginUnpair(c)
  BY <1>27, QuietWorkspace DEF BeginUnpair, Goto, serverVars
<1>28. CASE \E c \in Clis : RevokeSelf(c)
  BY <1>28, RevokeWorkspace DEF RevokeSelf
<1>29. CASE \E c \in Clis : ForgetCredential(c)
  BY <1>29, QuietWorkspace DEF ForgetCredential, Goto, serverVars
<1>30. CASE UNCHANGED vars
  BY <1>30, QuietWorkspace DEF vars
<1>. QED
  BY <1>1, <1>2, <1>3, <1>4, <1>5, <1>6, <1>7, <1>8, <1>9, <1>10, <1>11, <1>12, <1>13, <1>14,
     <1>15, <1>16, <1>17, <1>18, <1>19, <1>20, <1>21, <1>22, <1>23, <1>24, <1>25, <1>26, <1>27,
     <1>28, <1>29, <1>30, Actions

\* After delete_workspace nothing of the Workspace is left or comes back: not by
\* a claim, an exchange or an upload that was authenticated before.
THEOREM DeletionIsComplete == Spec => []DeletedLeavesNothing
<1>1. Init => WorkspaceInv
  BY DEF Init, WorkspaceInv, DeletedLeavesNothing, NoToken, NoMachine
<1>2. WorkspaceInv => DeletedLeavesNothing
  BY DEF WorkspaceInv
<1>. QED
  BY <1>1, <1>2, PairingInvariant, StepWorkspace, PTL DEF Spec

\* No step queues a push for a device that is not subscribed when it commits,
\* and whatever ends a subscription takes the queued push along.
LEMMA StepSilent ==
    ASSUME TypeOK, StoppedIsSilent, [Next]_vars
    PROVE  StoppedIsSilent'
<1>. USE DEF StoppedIsSilent, TypeOK
<1>1. CASE \E d \in Devices : Bootstrap(d)
  BY <1>1 DEF Bootstrap
<1>2. CASE \E d \in Devices : Stop(d)
  BY <1>2 DEF Stop, Cancelled
<1>3. CASE \E d \in Devices : Revoke(d)
  BY <1>3 DEF Revoke, RevokeMachine, Cancelled
<1>4. CASE \E d \in Devices : Reset(d)
  BY <1>4 DEF Reset, Cancelled
<1>5. CASE \E d \in Devices : SendPush(d)
  BY <1>5 DEF SendPush
<1>6. CASE \E d \in Devices : NewChallenge(d)
  BY <1>6 DEF NewChallenge
<1>7. CASE \E d \in Devices : ExpireChallenge(d)
  BY <1>7 DEF ExpireChallenge
<1>8. CASE \E d \in Devices : DeleteWorkspace(d)
  BY <1>8 DEF DeleteWorkspace
<1>9. CASE \E d \in Devices, s \in Sessions : BeginClaim(d, s)
  BY <1>9 DEF BeginClaim, Begin
<1>10. CASE \E s \in Sessions : ExpireSession(s)
  BY <1>10 DEF ExpireSession
<1>11. CASE \E by \in Tokens \union Hooks : BeginUpload(by)
  BY <1>11 DEF BeginUpload, Begin
<1>12. CASE \E h \in Hooks : RemoveHook(h)
  BY <1>12 DEF RemoveHook
<1>13. CASE \E h \in Hooks, t \in Tokens : BeginHook(t, h)
  BY <1>13 DEF BeginHook, Begin
<1>14. CASE \E q \in requests : LockClaim(q)
  BY <1>14 DEF LockClaim
<1>15. CASE \E q \in requests : CommitClaim(q)
  BY <1>15 DEF CommitClaim
<1>16. CASE \E q \in requests : CreateHook(q)
  BY <1>16 DEF CreateHook
<1>17. CASE \E q \in requests : ReadSubscriptions(q)
  BY <1>17 DEF ReadSubscriptions
<1>18. CASE \E q \in requests : CommitUpload(q)
  BY <1>18 DEF CommitUpload
<1>19. CASE \E q \in requests : Refuse(q)
  BY <1>19 DEF Refuse
<1>20. CASE \E c \in Clis, s \in Sessions : CreateSession(c, s)
  BY <1>20 DEF CreateSession
<1>21. CASE \E c \in Clis : Resume(c)
  BY <1>21 DEF Resume, serverVars
<1>22. CASE \E c \in Clis : Quit(c)
  BY <1>22 DEF Quit, serverVars
<1>23. CASE \E c \in Clis : LockExchange(c)
  BY <1>23 DEF LockExchange, serverVars
<1>24. CASE \E c \in Clis : CommitExchange(c)
  BY <1>24 DEF CommitExchange
<1>25. CASE \E c \in Clis : StoreCredential(c)
  BY <1>25 DEF StoreCredential, serverVars
<1>26. CASE \E c \in Clis : ForgetPending(c)
  BY <1>26 DEF ForgetPending, serverVars
<1>27. CASE \E c \in Clis : BeginUnpair(c)
  BY <1>27 DEF BeginUnpair, serverVars
<1>28. CASE \E c \in Clis : RevokeSelf(c)
  BY <1>28 DEF RevokeSelf, RevokeMachine, Cancelled
<1>29. CASE \E c \in Clis : ForgetCredential(c)
  BY <1>29 DEF ForgetCredential, serverVars
<1>30. CASE UNCHANGED vars
  BY <1>30 DEF vars
<1>. QED
  BY <1>1, <1>2, <1>3, <1>4, <1>5, <1>6, <1>7, <1>8, <1>9, <1>10, <1>11, <1>12, <1>13, <1>14,
     <1>15, <1>16, <1>17, <1>18, <1>19, <1>20, <1>21, <1>22, <1>23, <1>24, <1>25, <1>26, <1>27,
     <1>28, <1>29, <1>30, Actions

\* Once a device has stopped receiving, was reset or lost its machine, no push
\* is queued for it, but by an upload that had read its subscription before.
THEOREM StoppedGetsNothing == Spec => []StoppedIsSilent
<1>1. Init => StoppedIsSilent
  BY DEF Init, StoppedIsSilent
<1>. QED
  BY <1>1, PairingTypes, StepSilent, PTL DEF Spec
=============================================================================
