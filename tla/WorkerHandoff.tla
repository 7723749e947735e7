---------------------------- MODULE WorkerHandoff ----------------------------
(***************************************************************************)
(* One local Run from `runbuoy run` to its result file.                    *)
(*                                                                         *)
(*   CLI       creates the Run, starts the Worker in tmux, acknowledges it *)
(*             over its socket and waits for run.started (cli/app.py);     *)
(*   Worker    announces itself, waits for the acknowledgement, starts the *)
(*             target, watches it and records its end (worker/runtime.py); *)
(*   socket    one thread of the Worker serves requests one at a time and  *)
(*             dies when a client is gone before its answer                *)
(*             (worker/socket_server.py);                                  *)
(*   killer    SIGINT, SIGTERM, SIGKILL to the target (worker/signals.py); *)
(*   users     `runbuoy cancel`, Ctrl-C in the attached session.           *)
(*                                                                         *)
(* They share the Run's row in SQLite, the handoff file and the result     *)
(* file.  The wall clock is left out: with "slow" in Failures a deadline   *)
(* may pass at any time, without it only when nothing else can happen.     *)
(***************************************************************************)
EXTENDS RunEvents, Sequences

CONSTANTS
    Failures,    \* what may go wrong: a subset of FailureKinds
    MaxCancels   \* bound: cancel commands and interrupts

FailureKinds == {"slow", "cli", "worker", "spawn", "store"}

ASSUME FailuresAreKnown == Failures \subseteq FailureKinds
ASSUME CancelsAreCounted == MaxCancels \in Nat

VARIABLES
    status,     \* runs.status
    started,    \* runs.started_at is set
    group,      \* runs.process_group is set
    result,     \* status in the result file, or none
    handoff,    \* state in the handoff file, or none
    sock,       \* closed, open, or deaf: connectable, but its thread is dead
    inbox,      \* requests connected to the socket and not served yet
    acked,      \* Worker._handoff_ack
    cancelReq,  \* Worker.cancel_requested
    worker,     \* where the Worker's main thread is
    verdict,    \* the status the Worker is about to write to the result file
    target,     \* none, running, or how it ended: ok, bad, signalled
    killer,     \* signals sent: 0, 1 (INT), 2 (TERM), 3 (KILL)
    cli,        \* where the `runbuoy run` process is
    granted,    \* a `runbuoy cancel` was answered ok
    cancels     \* cancel commands and interrupts so far

runVars == <<status, started, group, result>>
sockVars == <<sock, inbox, acked, granted, cancels>>
workerVars == <<worker, verdict, handoff>>
targetVars == <<target, killer>>
vars == <<runVars, sockVars, cancelReq, workerVars, targetVars, cli>>

Ended == status \in TerminalStatuses

WorkerEnds == {"gone", "killed"}
CliEnds == {"done", "failed", "dead"}

Init ==
    /\ status = "CREATED" /\ started = FALSE /\ group = FALSE /\ result = "none"
    /\ handoff = "none"
    /\ sock = "closed" /\ inbox = <<>> /\ acked = FALSE /\ granted = FALSE
    /\ cancelReq = FALSE /\ cancels = 0
    /\ worker = "unborn" /\ verdict = "none"
    /\ target = "none" /\ killer = 0
    /\ cli = "launch"

\* append_event in the process of the caller: refused once the Run has ended.
Emit(newStatus) == ~Ended /\ status' = newStatus

----------------------------------------------------------------------------
(* The socket.                                                             *)

Connectable == sock \in {"open", "deaf"}

\* _send_local connects and sends; the answer comes with Serve.
Send(kind, from) ==
    /\ Connectable
    /\ inbox' = Append(inbox, [kind |-> kind, from |-> from, waiting |-> TRUE])

\* A client of the given origin hangs up, if there is one; what it has sent
\* stays readable.
HangUp(from) ==
    \/ \E i \in DOMAIN inbox :
          /\ inbox[i].from = from
          /\ inbox[i].waiting
          /\ inbox' = [inbox EXCEPT ![i].waiting = FALSE]
    \/ /\ \A i \in DOMAIN inbox : inbox[i].from = from => ~inbox[i].waiting
       /\ UNCHANGED inbox

\* A 3 second timeout of _send_local can pass.
NoAnswer == "slow" \in Failures \/ sock = "deaf"

\* Mutant of Reset: the end of the stream is not noticed.
ResetUnnoticed == FALSE

\* The Worker closed the connection: recv returns nothing and json.loads fails.
Reset == sock = "closed"

\* _serve handles the next connection: socket_handler sets the flag, then the
\* answer is sent.  A client that hung up makes sendall raise BrokenPipeError,
\* which ends the thread while the socket stays bound.
Serve ==
    /\ sock = "open"
    /\ inbox # <<>>
    /\ LET request == Head(inbox) IN
          /\ acked' = (acked \/ request.kind = "ack")
          /\ cancelReq' = (cancelReq \/ request.kind = "cancel")
          /\ sock' = IF request.waiting THEN "open" ELSE "deaf"
          /\ granted' = (granted \/ (request.from = "user" /\ request.waiting))
          /\ cli' = IF request.from = "cli" /\ request.waiting
                    THEN IF request.kind = "ack" THEN "confirm" ELSE "failed"
                    ELSE cli
    /\ inbox' = Tail(inbox)
    /\ UNCHANGED <<runVars, cancels, workerVars, targetVars>>

----------------------------------------------------------------------------
(* runbuoy run.                                                            *)

CliOnly == UNCHANGED <<runVars, sockVars, cancelReq, workerVars, targetVars>>

\* TmuxExecutor.start creates the session that runs the Worker.
Launch ==
    /\ cli = "launch"
    /\ cli' = "await"
    /\ worker' = "boot"
    /\ UNCHANGED <<runVars, sockVars, cancelReq, verdict, handoff, targetVars>>

\* tmux is missing or refuses.
LaunchFails ==
    /\ "spawn" \in Failures
    /\ cli = "launch"
    /\ cli' = "lose"
    /\ CliOnly

\* _await_worker_handoff before the acknowledgement: the Run has ended, or
\* its tmux session has.
AwaitEnds ==
    /\ cli = "await"
    /\ \/ Ended /\ cli' = IF started THEN "go" ELSE "lose"
       \/ worker \in WorkerEnds /\ cli' = "lose"
    /\ CliOnly

\* The Worker is ready: send it the nonce.  The status may have changed since
\* the CLI read it.
SendAck ==
    /\ cli = "await"
    /\ handoff = "ready"
    /\ Send("ack", "cli")
    /\ cli' = "acking"
    /\ UNCHANGED <<runVars, sock, acked, granted, cancels, cancelReq, workerVars, targetVars>>

\* No answer: the connection is reset, or the 3 seconds are over.
AckFails ==
    /\ cli = "acking"
    /\ Reset \/ NoAnswer
    /\ cli' = "lose"
    /\ HangUp("cli")
    /\ UNCHANGED <<runVars, sock, acked, granted, cancels, cancelReq, workerVars, targetVars>>

\* Mutant of TargetUp: the acknowledgement is enough.
TargetUpByAck == acked

TargetUp == status = "RUNNING"

\* After the acknowledgement: wait for run.started, or for the end of the Run.
Confirm ==
    /\ cli = "confirm"
    /\ \/ TargetUp /\ cli' = "go"
       \/ Ended /\ cli' = IF started THEN "go" ELSE "withdraw"
    /\ CliOnly

\* handoff_timeout_seconds are over.
CliTimesOut ==
    /\ "slow" \in Failures \/ worker \in WorkerEnds
    /\ \/ cli = "await" /\ cli' = "lose"
       \/ cli = "confirm" /\ cli' = "withdraw"
    /\ CliOnly

\* get_run raises: this is no WorkerHandoffError, so the acknowledgement the
\* Worker has is forgotten.
CliReadFails ==
    /\ "store" \in Failures
    /\ cli \in {"await", "confirm"}
    /\ cli' = "lose"
    /\ CliOnly

\* _mark_run_lost, then exit 1.
Lose ==
    /\ cli = "lose"
    /\ \/ Emit("LOST")
       \/ (Ended \/ "store" \in Failures) /\ UNCHANGED status
    /\ cli' = "failed"
    /\ UNCHANGED <<started, group, result, sockVars, cancelReq, workerVars, targetVars>>

\* The Worker was acknowledged and did not deliver: ask it to stop, if it
\* can be reached.
Withdraw ==
    /\ cli = "withdraw"
    /\ \/ Send("cancel", "cli") /\ cli' = "withdrawing"
       \/ ~Connectable /\ cli' = "failed" /\ UNCHANGED inbox
    /\ UNCHANGED <<runVars, sock, acked, granted, cancels, cancelReq, workerVars, targetVars>>

WithdrawFails ==
    /\ cli = "withdrawing"
    /\ Reset \/ NoAnswer
    /\ cli' = "failed"
    /\ HangUp("cli")
    /\ UNCHANGED <<runVars, sock, acked, granted, cancels, cancelReq, workerVars, targetVars>>

\* Report success; with --wait, poll for the result file first.
Return ==
    /\ cli = "go"
    /\ cli' \in {"done", "wait"}
    /\ CliOnly

WaitReturns ==
    /\ cli = "wait"
    /\ result # "none"
    /\ cli' = "done"
    /\ CliOnly

\* Ctrl-C or a kill: KeyboardInterrupt is no Exception, nothing is marked.
CliDies ==
    /\ "cli" \in Failures
    /\ cli \notin CliEnds
    /\ cli' = "dead"
    /\ HangUp("cli")
    /\ UNCHANGED <<runVars, sock, acked, granted, cancels, cancelReq, workerVars, targetVars>>

----------------------------------------------------------------------------
(* Users.                                                                  *)

\* runbuoy cancel: accepts active Runs only, then talks to the socket.
UserCancel ==
    /\ cancels < MaxCancels
    /\ ~Ended
    /\ Send("cancel", "user")
    /\ cancels' = cancels + 1
    /\ UNCHANGED <<runVars, sock, acked, granted, cancelReq, workerVars, targetVars, cli>>

\* It reports worker_unreachable after 3 seconds, or is interrupted; a request
\* it leaves behind ends the Worker's socket thread.
UserGivesUp ==
    /\ NoAnswer \/ "cli" \in Failures
    /\ \E i \in DOMAIN inbox : inbox[i].from = "user" /\ inbox[i].waiting
    /\ HangUp("user")
    /\ UNCHANGED <<runVars, sock, acked, granted, cancels, cancelReq, workerVars, targetVars, cli>>

\* SIGINT or SIGTERM to the Worker, for example Ctrl-C in the attached session.
Interrupt ==
    /\ cancels < MaxCancels
    /\ worker \notin {"unborn", "boot"} \cup WorkerEnds
    /\ cancelReq' = TRUE
    /\ cancels' = cancels + 1
    /\ UNCHANGED <<runVars, sock, inbox, acked, granted, workerVars, targetVars, cli>>

----------------------------------------------------------------------------
(* The Worker's main thread.                                               *)

WorkerMoves(from, to) == worker = from /\ worker' = to

\* EventSocketServer.start; a path it cannot bind aborts the Worker.
BindSocket ==
    /\ \/ WorkerMoves("boot", "starting") /\ sock' = "open"
       \/ "spawn" \in Failures /\ WorkerMoves("boot", "abort") /\ UNCHANGED sock
    /\ UNCHANGED <<runVars, inbox, acked, granted, cancels, cancelReq,
                   verdict, handoff, targetVars, cli>>

\* run.starting, unless the CLI has already given the Run up.
EmitStarting ==
    /\ \/ WorkerMoves("starting", "ready") /\ Emit("STARTING")
       \/ WorkerMoves("starting", "abort") /\ Ended /\ UNCHANGED status
    /\ UNCHANGED <<started, group, result, sockVars, cancelReq, verdict, handoff, targetVars, cli>>

\* _write_handoff("ready").
AnnounceReady ==
    /\ WorkerMoves("ready", "wait")
    /\ handoff' = "ready"
    /\ UNCHANGED <<runVars, sockVars, cancelReq, verdict, targetVars, cli>>

\* Mutant of AckHeard: being asked to wait long enough counts as consent.
AckAssumed == TRUE

AckHeard == acked

\* _wait_for_handoff sees the flag: _write_handoff("acknowledged").
HearAck ==
    /\ AckHeard
    /\ WorkerMoves("wait", "spawn")
    /\ handoff' = "acknowledged"
    /\ UNCHANGED <<runVars, sockVars, cancelReq, verdict, targetVars, cli>>

NoAckYet ==
    /\ ~acked
    /\ WorkerMoves("wait", "check")
    /\ UNCHANGED <<runVars, sockVars, cancelReq, verdict, handoff, targetVars, cli>>

Abandoned == cancelReq \/ status = "LOST"

\* Every 50 ms without an acknowledgement: give up, or look again.
CheckAbandoned ==
    /\ \/ Abandoned /\ WorkerMoves("check", "abort")
       \/ ~Abandoned /\ WorkerMoves("check", "wait")
    /\ UNCHANGED <<runVars, sockVars, cancelReq, verdict, handoff, targetVars, cli>>

\* Mutant of Overdue: the Worker waits for ever.
OverdueNever == FALSE

Overdue == "slow" \in Failures \/ cli \in CliEnds

\* handoff_timeout_seconds are over.
WorkerTimesOut ==
    /\ Overdue
    /\ WorkerMoves("check", "abort")
    /\ UNCHANGED <<runVars, sockVars, cancelReq, verdict, handoff, targetVars, cli>>

\* Popen of the target, or its failure.
Spawn ==
    /\ \/ WorkerMoves("spawn", "register") /\ target' = "running"
       \/ "spawn" \in Failures /\ WorkerMoves("spawn", "abort") /\ UNCHANGED target
    /\ UNCHANGED <<runVars, sockVars, cancelReq, verdict, handoff, killer, cli>>

\* update_runtime: the Run's row gets the process group, whoever ended it.
RegisterGroup ==
    /\ WorkerMoves("register", "announce")
    /\ group' = TRUE
    /\ UNCHANGED <<status, started, result, sockVars, cancelReq, verdict, handoff, targetVars, cli>>

\* Mutant of EmitStarted: the handler only raises again.
EmitStartedOnly ==
    /\ \/ /\ WorkerMoves("announce", "watch")
          /\ Emit("RUNNING")
          /\ started' = TRUE
       \/ /\ WorkerMoves("announce", "abort")
          /\ Ended \/ "store" \in Failures
          /\ UNCHANGED <<status, started>>
    /\ UNCHANGED <<group, result, sockVars, cancelReq, verdict, handoff, targetVars, cli>>

\* run.started; if it cannot be recorded the target is killed first.
EmitStarted ==
    /\ \/ /\ WorkerMoves("announce", "watch")
          /\ Emit("RUNNING")
          /\ started' = TRUE
          /\ UNCHANGED cancelReq
       \/ /\ WorkerMoves("announce", "reap")
          /\ Ended \/ "store" \in Failures
          /\ cancelReq' = TRUE
          /\ UNCHANGED <<status, started>>
    /\ UNCHANGED <<group, result, sockVars, verdict, handoff, targetVars, cli>>

\* SQLite or the file system fails: outside the two places that catch it, the
\* exception goes to the except branch of run.  In "register" the target is
\* running already, and goes on.
StoreFails ==
    /\ "store" \in Failures
    /\ \E place \in {"starting", "ready", "wait", "check", "register", "watch", "conclude"} :
          WorkerMoves(place, "abort")
    /\ UNCHANGED <<runVars, sockVars, cancelReq, verdict, handoff, targetVars, cli>>

\* Mutant of TargetEnded: a signal sent is a target gone.
TargetSignalled == target \in {"ok", "bad", "signalled"} \/ killer > 0

TargetEnded == target \in {"ok", "bad", "signalled"}

\* process.wait in the handler of a failed run.started.
Reap ==
    /\ TargetEnded
    /\ WorkerMoves("reap", "abort")
    /\ UNCHANGED <<runVars, sockVars, cancelReq, verdict, handoff, targetVars, cli>>

\* A heartbeat or progress event refused because somebody else ended the Run
\* ends the loop, with the target still running.
WatchFails ==
    /\ Ended
    /\ WorkerMoves("watch", "abort")
    /\ UNCHANGED <<runVars, sockVars, cancelReq, verdict, handoff, targetVars, cli>>

\* Mutants of Outcome: the exit code alone decides; it is recorded raw.
OutcomeByExit == IF target = "ok" THEN "SUCCEEDED" ELSE "FAILED"

OutcomeRaw == target

Outcome ==
    IF cancelReq THEN "CANCELLED"
    ELSE IF target = "ok" THEN "SUCCEEDED" ELSE "FAILED"

\* The target has ended and its output is drained: read cancel_requested.
Judge ==
    /\ TargetEnded
    /\ WorkerMoves("watch", "conclude")
    /\ verdict' = Outcome
    /\ UNCHANGED <<runVars, sockVars, cancelReq, handoff, targetVars, cli>>

\* The terminal event.
Conclude ==
    /\ \/ WorkerMoves("conclude", "save") /\ Emit(verdict)
       \/ WorkerMoves("conclude", "abort") /\ Ended /\ UNCHANGED status
    /\ UNCHANGED <<started, group, result, sockVars, cancelReq, verdict, handoff, targetVars, cli>>

\* The except branch of run: the acknowledgement decides between LOST and
\* FAILED; a terminal Run keeps its status, the result file does not.
Abort ==
    /\ verdict' = IF acked THEN "FAILED" ELSE "LOST"
    /\ \/ WorkerMoves("abort", "saveAbort") /\ Emit(verdict')
       \/ WorkerMoves("abort", "saveAbort") /\ Ended /\ UNCHANGED status
       \/ "store" \in Failures /\ WorkerMoves("abort", "exit") /\ UNCHANGED status
    /\ UNCHANGED <<started, group, result, sockVars, cancelReq, handoff, targetVars, cli>>

\* Mutant of Recorded: cancel_requested is read again for the file.
RecordedAgain == IF worker = "save" THEN Outcome ELSE verdict

Recorded == verdict

\* _write_result; a failure after a normal end goes through the except branch.
Save ==
    /\ \/ worker \in {"save", "saveAbort"} /\ worker' = "exit" /\ result' = Recorded
       \/ /\ "store" \in Failures
          /\ (WorkerMoves("save", "abort") \/ WorkerMoves("saveAbort", "exit"))
          /\ UNCHANGED result
    /\ UNCHANGED <<status, started, group, sockVars, cancelReq, verdict, handoff, targetVars, cli>>

\* The finally branch: the socket is closed, waiting clients are reset.
Exit ==
    /\ WorkerMoves("exit", "gone")
    /\ sock' = "closed"
    /\ inbox' = <<>>
    /\ UNCHANGED <<runVars, acked, granted, cancels, cancelReq,
                   verdict, handoff, targetVars, cli>>

\* kill-session, kill -9, reboot of the tmux server: nothing is recorded.  The
\* target has its own session and lives on.
WorkerDies ==
    /\ "worker" \in Failures
    /\ worker \notin {"unborn"} \cup WorkerEnds
    /\ worker' = "killed"
    /\ sock' = "closed"
    /\ inbox' = <<>>
    /\ UNCHANGED <<runVars, acked, granted, cancels, cancelReq,
                   verdict, handoff, targetVars, cli>>

----------------------------------------------------------------------------
(* The target and the thread that stops it.                                *)

\* Mutant of Stopping: the loop does not look at cancel_requested.
StoppingReapOnly == worker = "reap"

\* The loop starts the thread once it sees cancel_requested; an unrecorded
\* start runs escalate_process_group in place.
Stopping == worker = "reap" \/ (worker = "watch" /\ cancelReq)

\* escalate_process_group: the next signal, if the target still lives.  Once
\* begun it goes on for as long as the Worker process does.
Escalate ==
    /\ target = "running"
    /\ killer < 3
    /\ Stopping \/ (killer > 0 /\ worker \notin WorkerEnds)
    /\ killer' = killer + 1
    /\ UNCHANGED <<runVars, sockVars, cancelReq, workerVars, target, cli>>

TargetEnds ==
    /\ target = "running"
    /\ target' \in {"ok", "bad"} \cup (IF killer > 0 THEN {"signalled"} ELSE {})
    /\ UNCHANGED <<runVars, sockVars, cancelReq, workerVars, killer, cli>>

\* Nothing survives SIGKILL.
TargetKilled ==
    /\ target = "running"
    /\ killer = 3
    /\ target' = "signalled"
    /\ UNCHANGED <<runVars, sockVars, cancelReq, workerVars, killer, cli>>

----------------------------------------------------------------------------
CliStep ==
    \/ Launch \/ LaunchFails \/ AwaitEnds \/ SendAck \/ AckFails \/ Confirm
    \/ CliTimesOut \/ CliReadFails \/ Lose \/ Withdraw \/ WithdrawFails
    \/ Return \/ WaitReturns

WorkerStep ==
    \/ BindSocket \/ EmitStarting \/ AnnounceReady \/ HearAck \/ NoAckYet
    \/ CheckAbandoned \/ WorkerTimesOut \/ Spawn \/ RegisterGroup \/ EmitStarted
    \/ Reap \/ Judge \/ Conclude \/ Abort \/ Save \/ Exit

UserStep == UserCancel \/ UserGivesUp \/ Interrupt

TargetStep == Escalate \/ TargetEnds \/ TargetKilled

Next ==
    \/ Serve
    \/ CliStep \/ CliDies
    \/ UserStep
    \/ WorkerStep \/ WatchFails \/ StoreFails \/ WorkerDies
    \/ TargetStep

Spec == Init /\ [][Next]_vars

\* Each process and thread keeps running, the Worker's deadline passes although
\* it looks only once per round, and SIGKILL works.  A target need not end
\* by itself, nobody has to cancel, and a heartbeat may come too late to fail.
Fairness ==
    /\ WF_vars(CliStep)
    /\ WF_vars(WorkerStep)
    /\ SF_vars(WorkerTimesOut)
    /\ WF_vars(Serve)
    /\ WF_vars(Escalate)
    /\ WF_vars(TargetKilled)

FairSpec == Spec /\ Fairness

----------------------------------------------------------------------------
(* Properties.                                                             *)

WorkerPlaces ==
    {"unborn", "boot", "starting", "ready", "wait", "check", "spawn", "register",
     "announce", "watch", "reap", "conclude", "abort", "save", "saveAbort",
     "exit"} \cup WorkerEnds

CliPlaces ==
    {"launch", "await", "acking", "confirm", "lose", "withdraw", "withdrawing",
     "go", "wait"} \cup CliEnds

LocalRequest == [kind : {"ack", "cancel"}, from : {"cli", "user"}, waiting : BOOLEAN]

\* Every variable has the shape its comment gives it.
TypeOK ==
    /\ status \in Statuses /\ started \in BOOLEAN /\ group \in BOOLEAN
    /\ result \in {"none"} \cup TerminalStatuses
    /\ handoff \in {"none", "ready", "acknowledged"}
    /\ sock \in {"closed", "open", "deaf"}
    /\ inbox \in Seq(LocalRequest)
    /\ acked \in BOOLEAN /\ cancelReq \in BOOLEAN /\ granted \in BOOLEAN
    /\ worker \in WorkerPlaces
    /\ verdict \in {"none"} \cup TerminalStatuses
    /\ target \in {"none", "running", "ok", "bad", "signalled"}
    /\ killer \in 0..3
    /\ cli \in CliPlaces
    /\ cancels \in Nat

\* "A detached `runbuoy run` returns only after a nonce/Socket ACK and
\* run.started handoff" (README.md:188-189), whatever else goes wrong.
SuccessMeansStarted ==
    cli \in {"go", "wait", "done"} => acked /\ started /\ target # "none"

\* The target starts only after the CLI was heard (cli.md:133,
\* test_worker_does_not_start_target_without_cli_ack).
TargetNeedsAck == target # "none" => acked /\ handoff = "acknowledged"

\* "The Run is recorded as LOST, the target must not be started" (cli.md:133):
\* a Run given up before the acknowledgement has no process.
LostNeverStarted == status = "LOST" => target = "none"

\* A Worker that ends in order has recorded the end of its Run in both places,
\* and the result file and the Run's row tell the same story (runtime.py:245-274).
ExitIsRecorded == worker = "gone" => Ended /\ result = status

\* ... and leaves no target behind.
NoOrphan == worker = "gone" => target # "running"

\* A Run ends as CANCELLED or by itself: an accepted cancel is not reported as
\* a failure of the target it killed.
KilledIsNotFailed ==
    target = "signalled" /\ granted /\ worker = "gone" => status = "CANCELLED"

\* A cancel request answered ok stops a running target, even one that ignores
\* SIGINT and SIGTERM (cli.md:206), unless somebody kills the Worker.
CancelEndsTarget ==
    (granted /\ target = "running") ~> (target # "running" \/ worker = "killed")

\* A Run whose Worker was born comes to run or to an end, or the Worker is gone:
\* it never waits for ever on a CLI that is gone (_wait_for_handoff).
HandoffResolves == worker = "boot" ~> (Ended \/ target = "running" \/ worker \in WorkerEnds)

\* `runbuoy run` always answers, and --wait ends once the target has, unless
\* somebody kills the Worker.
CliAnswers ==
    /\ cli = "await" ~> cli \in {"wait"} \cup CliEnds
    /\ (cli = "wait" /\ TargetEnded) ~> (cli \in CliEnds \/ worker = "killed")

\* A target on record is announced, or stopped again because run.started was
\* refused or could not be written (runtime.py:319-325), unless somebody kills
\* the Worker: a Worker that ends in order does not leave it behind.
GivenUpStops ==
    (group /\ ~started) ~> (started \/ target # "running" \/ worker = "killed")
==============================================================================
