--------------------------- MODULE MachinePairing ---------------------------
(***************************************************************************)
(* How one machine is paired with iPhones, and how that ends.              *)
(*                                                                         *)
(*   CLI processes  create a pairing session, wait until a phone claims    *)
(*                  it, exchange its secret for a machine credential and   *)
(*                  store that (pairing/flow.py, cli/app.py); they share   *)
(*                  one credential store and one machine ID.               *)
(*   server         checks credentials and commits each request            *)
(*                  (api.py, auth.py, lifecycle.py).                       *)
(*   phones         claim, stop receiving, revoke, reset, delete.          *)
(*                                                                         *)
(* Each Device bootstraps a Workspace of its own, so a device stands for   *)
(* its Workspace too.  A request that adds rows (a claim, a webhook, an    *)
(* upload) and revoke-self are authenticated when they begin and commit    *)
(* later; what is committed in between is not seen again by the credential *)
(* check (the ORM session keeps the rows it has read).  The requests that  *)
(* only take away are one step: begun before a reset and committed after   *)
(* it, they take away what nobody uses.  Row locks: a claim and an         *)
(* exchange hold their pairing session, an upload its Run.  A foreign key  *)
(* whose row is gone rolls the transaction back.                           *)
(*                                                                         *)
(* Left out: rate limits, quotas (RequestQuotas), machine metadata, Live   *)
(* Activity bindings (LiveActivityPush), audit rows.                       *)
(***************************************************************************)
EXTENDS Naturals, FiniteSets

CONSTANTS
    Sessions,     \* pairing sessions that may be created
    Devices,      \* identities of the app, one Workspace each
    Clis,         \* CLI processes
    Hooks,        \* webhooks that may be created
    Guests,       \* bound: devices that do no more than claim and revoke, and
                  \* CLI processes that only resume a pairing
    MaxRequests,  \* bound: requests in flight, one and claims that join it
    None

ASSUME BoundsAreKnown == MaxRequests \in Nat /\ Guests \subseteq Devices \union Clis
ASSUME NoneIsNothing == None \notin Sessions \union Devices
ASSUME HooksAreNoTokens == Hooks \intersect (Sessions \X Clis) = {}

VARIABLES
    dev,       \* "none", "live", "reset" or "deleted"
    chal,      \* devices with a deletion challenge
    sess,      \* pairing_sessions
    mach,      \* the row of the machine, ws = None: there is none
    subs,      \* devices subscribed to the machine
    token,     \* machine_credentials, by session and process that got it
    hook,      \* webhooks
    push,      \* whether a push to the device is queued, "late": by an upload
               \* that read the subscriptions before the device left them
    requests,  \* requests in flight
    proc,      \* the CLI processes
    cred,      \* machine_credential of the credential store
    pend,      \* PENDING_SESSION_KEY and PENDING_SECRET_KEY of it
    dead       \* credentials and webhooks of the machine that existed when it
               \* was revoked or deleted

vars == <<dev, chal, sess, mach, subs, token, hook, push, requests, proc,
          cred, pend, dead>>

Tokens == Sessions \X Clis
NoSession == [row |-> "none", by |-> None, exchanged |-> 0]
NoMachine == [ws |-> None, revoked |-> FALSE]
NoToken == [state |-> "none", owner |-> None]
IdleCli == [pc |-> "idle", sess |-> None]

Init ==
    /\ dev = [d \in Devices |-> "none"]
    /\ chal = {}
    /\ sess = [s \in Sessions |-> NoSession]
    /\ mach = NoMachine
    /\ subs = {}
    /\ token = [t \in Tokens |-> NoToken]
    /\ hook = [h \in Hooks |-> "none"]
    /\ push = [d \in Devices |-> "none"]
    /\ requests = {}
    /\ proc = [c \in Clis |-> IdleCli]
    /\ cred = None /\ pend = None
    /\ dead = {}

----------------------------------------------------------------------------
(* Credentials.                                                            *)

\* authenticate, for a machine credential.
TokenAccepted(t) ==
    token[t].state = "live" /\ mach.ws # None /\ ~mach.revoked

\* authenticate, for a device credential.
DeviceAccepted(d) == dev[d] = "live"

\* Mutant of HookAccepted: a webhook is found after its deletion.
HookAcceptedDeleted(h) == hook[h] \in {"live", "gone"}

\* _webhook_auth: the machine of the webhook is not looked at.
HookAccepted(h) == hook[h] = "live"

----------------------------------------------------------------------------
(* Pairing sessions and their locks.                                       *)

\* The row is held FOR UPDATE by a claim or an exchange.
SessionLocked(s) ==
    \/ \E q \in requests : q.op = "claim" /\ q.sess = s /\ q.phase = "locked"
    \/ \E c \in Clis : proc[c] = [pc |-> "locked", sess |-> s]

\* create_pairing_session, and pair_machine that keeps the answer in the
\* credential store before it shows the QR code: nobody can claim a session
\* whose answer was lost.
CreateSession(c, s) ==
    /\ c \notin Guests /\ proc[c].pc = "idle" /\ sess[s].row = "none"
    /\ sess' = [sess EXCEPT ![s].row = "open"]
    /\ pend' = s
    /\ proc' = [proc EXCEPT ![c] = [pc |-> "waiting", sess |-> s]]
    /\ UNCHANGED <<dev, chal, mach, subs, token, hook, push, requests, cred, dead>>

\* The time of a session passes: every handler refuses it, whether retention
\* has deleted the row yet or not.  After the exchange they refuse it anyway.
ExpireSession(s) ==
    /\ sess[s].row = "open" /\ sess[s].exchanged = 0 /\ ~SessionLocked(s)
    /\ sess' = [sess EXCEPT ![s].row = "gone"]
    /\ UNCHANGED <<dev, chal, mach, subs, token, hook, push, requests, proc, cred, pend, dead>>

----------------------------------------------------------------------------
(* Requests in flight.                                                     *)

Requests ==
    [op : {"claim"}, dev : Devices, sess : Sessions, phase : {"begun", "locked"}]
    \union [op : {"hook"}, hook : Hooks]
    \union [op : {"upload"}, ws : Devices, phase : {"begun", "read"}, subs : SUBSET Devices]

Begin(q) ==
    /\ q \notin requests
    /\ \/ requests = {}
       \/ q.op = "claim" /\ Cardinality(requests) < MaxRequests
    /\ requests' = requests \union {q}
    /\ UNCHANGED <<dev, chal, sess, mach, subs, token, hook, push, proc, cred, pend, dead>>

\* The credential of a request is checked, nothing is written yet.
BeginClaim(d, s) ==
    /\ DeviceAccepted(d)
    /\ Begin([op |-> "claim", dev |-> d, sess |-> s, phase |-> "begun"])

BeginHook(t, h) ==
    /\ TokenAccepted(t) /\ hook[h] = "none"
    /\ Begin([op |-> "hook", hook |-> h])

\* upload_events with a machine credential, webhook_run_event with a webhook's.
BeginUpload(by) ==
    /\ IF by \in Hooks THEN HookAccepted(by) ELSE TokenAccepted(by)
    /\ Begin([op |-> "upload", ws |-> mach.ws, phase |-> "begun", subs |-> {}])

\* A request ends without effect: a 4xx, a foreign key, a lost connection.
Refuse(q) ==
    /\ q \in requests
    /\ requests' = requests \ {q}
    /\ UNCHANGED <<dev, chal, sess, mach, subs, token, hook, push, proc, cred, pend, dead>>

----------------------------------------------------------------------------
(* Devices.                                                                *)

\* bootstrap_device: an installation_id that is known is refused.
Bootstrap(d) ==
    /\ dev[d] = "none"
    /\ dev' = [dev EXCEPT ![d] = "live"]
    /\ UNCHANGED <<chal, sess, mach, subs, token, hook, push, requests, proc, cred, pend, dead>>

HasWorkspace(d) == dev[d] \in {"live", "reset"}

\* claim_pairing_session: lock and check the row ...
LockClaim(q) ==
    /\ q \in requests /\ q.op = "claim" /\ q.phase = "begun"
    /\ ~SessionLocked(q.sess)
    /\ sess[q.sess].row = "open" /\ sess[q.sess].by = None
    /\ requests' = (requests \ {q}) \union {[q EXCEPT !.phase = "locked"]}
    /\ UNCHANGED <<dev, chal, sess, mach, subs, token, hook, push, proc, cred, pend, dead>>

\* Mutant of MachineFree: the Workspace of a revoked machine is not compared.
MachineFreeAnywhere(d) == mach.ws = None \/ mach.revoked

\* The machine ID is new, or revoked and of the same Workspace.
MachineFree(d) == mach.ws = None \/ (mach.revoked /\ mach.ws = d)

\* ... then write the machine, the subscription and the session.
CommitClaim(q) ==
    /\ q \in requests /\ q.op = "claim" /\ q.phase = "locked"
    /\ HasWorkspace(q.dev) /\ MachineFree(q.dev)
    /\ mach' = [ws |-> IF mach.ws = None THEN q.dev ELSE mach.ws, revoked |-> FALSE]
    /\ subs' = subs \union {q.dev}
    /\ sess' = [sess EXCEPT ![q.sess].by = q.dev]
    /\ requests' = requests \ {q}
    /\ UNCHANGED <<dev, chal, token, hook, push, proc, cred, pend, dead>>

\* Mutant of Cancelled: the pushes stay queued.
NotCancelled(ds) == push

\* _cancel_pending_pushes for the devices ds.
Cancelled(ds) == [d \in Devices |-> IF d \in ds THEN "none" ELSE push[d]]

\* stop_receiving_subscription.
Stop(d) ==
    /\ d \notin Guests /\ DeviceAccepted(d) /\ d \in subs /\ mach.ws = d
    /\ push' = Cancelled({d})
    /\ subs' = subs \ {d}
    /\ UNCHANGED <<dev, chal, sess, mach, token, hook, proc, cred, pend, dead, requests>>

\* Mutant of RevokedTokens: the row of the machine is thought to be enough.
RevokedTokensKept == token

RevokedTokens ==
    [t \in Tokens |-> IF token[t].state = "live" THEN [token[t] EXCEPT !.state = "revoked"]
                      ELSE token[t]]

\* What the machine could show so far.
Issued == {t \in Tokens : token[t].state # "none"} \union {h \in Hooks : hook[h] # "none"}

\* _revoke_machine.
RevokeMachine ==
    /\ push' = Cancelled(subs)
    /\ token' = RevokedTokens
    /\ hook' = [h \in Hooks |-> IF hook[h] = "live" THEN "revoked" ELSE hook[h]]
    /\ subs' = {}
    /\ mach' = [mach EXCEPT !.revoked = TRUE]
    /\ dead' = dead \union Issued

\* revoke_machine reads the row after the credential was checked.
Revoke(d) ==
    /\ DeviceAccepted(d) /\ mach.ws = d /\ ~mach.revoked
    /\ RevokeMachine
    /\ UNCHANGED <<dev, chal, sess, proc, cred, pend, requests>>

\* reset_device.
Reset(d) ==
    /\ d \notin Guests /\ DeviceAccepted(d)
    /\ push' = Cancelled({d})
    /\ dev' = [dev EXCEPT ![d] = "reset"]
    /\ subs' = subs \ {d}
    /\ chal' = chal \ {d}
    /\ UNCHANGED <<sess, mach, token, hook, proc, cred, pend, dead, requests>>

----------------------------------------------------------------------------
(* Deletion of a Workspace.                                                *)

\* create_workspace_deletion_challenge: the old challenge is replaced.
NewChallenge(d) ==
    /\ d \notin Guests /\ DeviceAccepted(d)
    /\ chal' = chal \union {d}
    /\ UNCHANGED <<dev, sess, mach, subs, token, hook, push, requests, proc, cred, pend, dead>>

\* A challenge whose time is over is deleted, by delete_workspace or retention.
ExpireChallenge(d) ==
    /\ d \in chal
    /\ chal' = chal \ {d}
    /\ UNCHANGED <<dev, sess, mach, subs, token, hook, push, requests, proc, cred, pend, dead>>

\* Somebody holds a row of the Workspace that the deletion has to wait for.
WorkspaceHeld(d) ==
    \/ \E s \in Sessions : sess[s].by = d /\ SessionLocked(s)
    \/ \E q \in requests : q.op = "upload" /\ q.phase = "read" /\ q.ws = d

\* Mutant of DeletedSessions: pairing sessions are not deleted.
DeletedSessionsKept(d) == sess

DeletedSessions(d) ==
    [s \in Sessions |-> IF sess[s].by = d THEN [sess[s] EXCEPT !.row = "gone"] ELSE sess[s]]

\* delete_workspace and _delete_workspace_rows; the challenge row must still
\* be the one that was compared.
DeleteWorkspace(d) ==
    /\ DeviceAccepted(d) /\ d \in chal
    /\ ~WorkspaceHeld(d)
    /\ dev' = [dev EXCEPT ![d] = "deleted"]
    /\ chal' = chal \ {d}
    /\ push' = [push EXCEPT ![d] = "none"]
    /\ subs' = subs \ {d}
    /\ sess' = DeletedSessions(d)
    /\ IF mach.ws = d
       THEN /\ mach' = NoMachine
            /\ token' = [t \in Tokens |-> IF token[t].state = "none" THEN token[t]
                                          ELSE [token[t] EXCEPT !.state = "gone"]]
            /\ hook' = [h \in Hooks |-> IF hook[h] = "none" THEN "none" ELSE "gone"]
            /\ dead' = dead \union Issued
       ELSE UNCHANGED <<mach, token, hook, dead>>
    /\ UNCHANGED <<proc, cred, pend, requests>>

----------------------------------------------------------------------------
(* Requests of the machine and of webhooks.                                *)

\* create_webhook and revoke_webhook, after the credential was checked: the
\* machine may be revoked by now, only its row must exist.
CreateHook(q) ==
    /\ q \in requests /\ q.op = "hook" /\ hook[q.hook] = "none" /\ mach.ws # None
    /\ hook' = [hook EXCEPT ![q.hook] = "live"]
    /\ requests' = requests \ {q}
    /\ UNCHANGED <<dev, chal, sess, mach, subs, token, push, proc, cred, pend, dead>>

RemoveHook(h) ==
    /\ \E t \in Tokens : TokenAccepted(t)
    /\ hook[h] = "live"
    /\ hook' = [hook EXCEPT ![h] = "revoked"]
    /\ UNCHANGED <<dev, chal, sess, mach, subs, token, push, requests, proc, cred, pend, dead>>

\* ingest_events locks the Run, then schedule_run_pushes reads the devices ...
ReadSubscriptions(q) ==
    /\ q \in requests /\ q.op = "upload" /\ q.phase = "begun" /\ mach.ws = q.ws
    /\ requests' = (requests \ {q})
                   \union {[q EXCEPT !.phase = "read", !.subs = subs]}
    /\ UNCHANGED <<dev, chal, sess, mach, subs, token, hook, push, proc, cred, pend, dead>>

\* ... and the pushes for them are committed.
CommitUpload(q) ==
    /\ q \in requests /\ q.op = "upload" /\ q.phase = "read"
    /\ push' = [d \in Devices |-> IF d \notin q.subs THEN push[d]
                                  ELSE IF d \in subs THEN "queued" ELSE "late"]
    /\ requests' = requests \ {q}
    /\ UNCHANGED <<dev, chal, sess, mach, subs, token, hook, proc, cred, pend, dead>>

\* A push worker takes the row (LiveActivityPush).
SendPush(d) ==
    /\ push[d] # "none"
    /\ push' = [push EXCEPT ![d] = "none"]
    /\ UNCHANGED <<dev, chal, sess, mach, subs, token, hook, requests, proc, cred, pend, dead>>

----------------------------------------------------------------------------
(* CLI processes.                                                          *)

Goto(c, pc, s) == proc' = [proc EXCEPT ![c] = [pc |-> pc, sess |-> s]]

serverVars == <<dev, chal, sess, mach, subs, token, hook, push, requests, dead>>

\* resume_pairing.
Resume(c) ==
    /\ proc[c].pc = "idle" /\ pend # None
    /\ Goto(c, "waiting", pend)
    /\ UNCHANGED <<serverVars, cred, pend>>

\* The process ends: --no-wait, the deadline, a refusal, a lost answer, a
\* crash; the credential store stays as it is.
Quit(c) ==
    /\ proc[c].pc # "idle"
    /\ Goto(c, "idle", None)
    /\ UNCHANGED <<serverVars, cred, pend>>

\* get_pairing_session says "claimed" ("exchanged" is waited on like
\* "pending"), so exchange_pairing_session locks and checks the row ...
LockExchange(c) ==
    /\ proc[c].pc = "waiting" /\ ~SessionLocked(proc[c].sess)
    /\ LET s == sess[proc[c].sess] IN s.row = "open" /\ s.by # None /\ s.exchanged = 0
    /\ Goto(c, "locked", proc[c].sess)
    /\ UNCHANGED <<serverVars, cred, pend>>

\* ... then issue the credential; a revoked machine gets one too.
CommitExchange(c) ==
    /\ proc[c].pc = "locked" /\ mach.ws # None
    /\ LET s == proc[c].sess IN
        /\ token' = [token EXCEPT ![<<s, c>>] = [state |-> "live", owner |-> sess[s].by]]
        /\ sess' = [sess EXCEPT ![s].exchanged = @ + 1]
        /\ Goto(c, "answered", s)
    /\ UNCHANGED <<dev, chal, mach, subs, hook, push, requests, cred, pend, dead>>

\* The answer is stored first, the pending session is forgotten after it.
StoreCredential(c) ==
    /\ proc[c].pc = "answered"
    /\ cred' = <<proc[c].sess, c>>
    /\ Goto(c, "stored", proc[c].sess)
    /\ UNCHANGED <<serverVars, pend>>

ForgetPending(c) ==
    /\ proc[c].pc = "stored"
    /\ pend' = None
    /\ Goto(c, "idle", None)
    /\ UNCHANGED <<serverVars, cred>>

\* device_unpair asks the server; a refused credential is kept.
BeginUnpair(c) ==
    /\ c \notin Guests /\ proc[c].pc = "idle" /\ cred # None /\ TokenAccepted(cred)
    /\ Goto(c, "unpairing", None)
    /\ UNCHANGED <<serverVars, cred, pend>>

\* revoke_machine_self: the machine was read with the credential, so that a
\* revocation in between is not noticed.
RevokeSelf(c) ==
    /\ proc[c].pc = "unpairing" /\ mach.ws # None
    /\ RevokeMachine
    /\ Goto(c, "unpaired", None)
    /\ UNCHANGED <<dev, chal, sess, requests, cred, pend>>

\* device_unpair after the answer, or --local-only without asking.
ForgetCredential(c) ==
    /\ \/ proc[c].pc = "unpaired"
       \/ c \notin Guests /\ proc[c].pc = "idle" /\ cred # None
    /\ cred' = None /\ pend' = None
    /\ Goto(c, "idle", None)
    /\ UNCHANGED serverVars

----------------------------------------------------------------------------
Next ==
    \/ \E d \in Devices :
        \/ Bootstrap(d) \/ Stop(d) \/ Revoke(d) \/ Reset(d) \/ SendPush(d)
        \/ NewChallenge(d) \/ ExpireChallenge(d) \/ DeleteWorkspace(d)
        \/ \E s \in Sessions : BeginClaim(d, s)
    \/ \E s \in Sessions : ExpireSession(s)
    \/ \E by \in Tokens \union Hooks : BeginUpload(by)
    \/ \E h \in Hooks : RemoveHook(h) \/ \E t \in Tokens : BeginHook(t, h)
    \/ \E q \in requests :
        \/ LockClaim(q) \/ CommitClaim(q) \/ CreateHook(q)
        \/ ReadSubscriptions(q) \/ CommitUpload(q) \/ Refuse(q)
    \/ \E c \in Clis :
        \/ \E s \in Sessions : CreateSession(c, s)
        \/ Resume(c) \/ Quit(c) \/ LockExchange(c) \/ CommitExchange(c)
        \/ StoreCredential(c) \/ ForgetPending(c)
        \/ BeginUnpair(c) \/ RevokeSelf(c) \/ ForgetCredential(c)

Spec == Init /\ [][Next]_vars

----------------------------------------------------------------------------
(* Properties.                                                             *)

\* Every variable has the shape its comment gives it, and what one request or
\* process refers to is an identity or session of the instance.
TypeOK ==
    /\ dev \in [Devices -> {"none", "live", "reset", "deleted"}]
    /\ chal \subseteq Devices
    /\ sess \in [Sessions -> [row : {"none", "open", "gone"},
                              by : Devices \union {None}, exchanged : Nat]]
    /\ mach \in [ws : Devices \union {None}, revoked : BOOLEAN]
    /\ subs \subseteq Devices
    /\ token \in [Tokens -> [state : {"none", "live", "revoked", "gone"},
                             owner : Devices \union {None}]]
    /\ hook \in [Hooks -> {"none", "live", "revoked", "gone"}]
    /\ push \in [Devices -> {"none", "queued", "late"}]
    /\ requests \subseteq Requests
    /\ proc \in [Clis -> [pc : {"idle", "waiting", "locked", "answered",
                                "stored", "unpairing", "unpaired"},
                          sess : Sessions \union {None}]]
    /\ cred \in Tokens \union {None}
    /\ pend \in Sessions \union {None}
    /\ dead \subseteq Tokens \union Hooks

\* A credential or webhook that existed when its machine was revoked or deleted
\* is refused for ever, also after the same machine is paired again, which
\* clears machines.revoked_at (_revoke_machine, claim_pairing_session).
RevokedStaysRefused ==
    /\ \A t \in Tokens \intersect dead : ~TokenAccepted(t)
    /\ \A h \in Hooks \intersect dead : ~HookAccepted(h)

\* A pairing session yields one credential, however many CLI processes exchange
\* it, and an accepted credential belongs to the Workspace of the device that
\* claimed its session (exchange_pairing_session, claim_pairing_session).
OneOwner ==
    /\ \A s \in Sessions : sess[s].exchanged <= 1
    /\ \A t \in Tokens : TokenAccepted(t) => token[t].owner = mach.ws

\* After delete_workspace nothing of the Workspace is left, and no request that
\* was authenticated before puts anything back.
DeletedLeavesNothing ==
    \A d \in Devices : dev[d] = "deleted" =>
        /\ mach.ws # d /\ d \notin subs /\ push[d] = "none" /\ d \notin chal
        /\ \A s \in Sessions : sess[s].by = d => sess[s].row = "gone"
        /\ \A t \in Tokens : token[t].owner = d => token[t].state \in {"none", "gone"}

\* Once a device has stopped receiving, was reset or lost its machine, no push
\* is queued for it, but by an upload that had read its subscription before.
StoppedIsSilent == \A d \in Devices : push[d] = "queued" => d \in subs

=============================================================================
