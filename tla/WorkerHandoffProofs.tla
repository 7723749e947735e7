------------------------- MODULE WorkerHandoffProofs -------------------------
(***************************************************************************)
(* Type correctness of WorkerHandoff and its two agreement invariants, for *)
(* every set of failures and every number of cancel requests; and what the *)
(* end of a Run means, for every set of failures in which deadlines do not *)
(* pass early and the disk works.                                          *)
(***************************************************************************)
EXTENDS WorkerHandoff, TLAPS

\* The actions of Next, as one flat disjunction.
LEMMA Actions ==
    ASSUME Next
    PROVE  \/ Launch \/ LaunchFails \/ AwaitEnds \/ SendAck \/ AckFails \/ Confirm
           \/ CliTimesOut \/ CliReadFails \/ Lose \/ Withdraw \/ WithdrawFails
           \/ Return \/ WaitReturns \/ CliDies \/ UserCancel \/ UserGivesUp
           \/ Interrupt \/ BindSocket \/ EmitStarting \/ AnnounceReady \/ HearAck
           \/ NoAckYet \/ CheckAbandoned \/ WorkerTimesOut \/ Spawn \/ RegisterGroup
           \/ EmitStarted \/ Reap \/ WatchFails \/ Judge \/ StoreFails \/ Conclude
           \/ Abort \/ Save \/ Exit \/ WorkerDies \/ Escalate \/ TargetEnds
           \/ TargetKilled \/ Serve
  BY DEF Next, CliStep, WorkerStep, UserStep, TargetStep

----------------------------------------------------------------------------
(* The requests on the socket.                                             *)

\* Hanging up changes who still waits, and nothing else about the queue.
LEMMA HangUpType ==
    ASSUME NEW from \in {"cli", "user"}, inbox \in Seq(LocalRequest), HangUp(from)
    PROVE  inbox' \in Seq(LocalRequest)
<1>1. CASE UNCHANGED inbox
  BY <1>1
<1>2. CASE \E i \in DOMAIN inbox : inbox' = [inbox EXCEPT ![i].waiting = FALSE]
  <2>1. PICK i \in DOMAIN inbox : inbox' = [inbox EXCEPT ![i].waiting = FALSE]
    BY <1>2
  <2>2. inbox[i] \in LocalRequest
    OBVIOUS
  <2>3. [inbox[i] EXCEPT !.waiting = FALSE] \in LocalRequest
    BY <2>2 DEF LocalRequest
  <2>4. inbox' = [inbox EXCEPT ![i] = [inbox[i] EXCEPT !.waiting = FALSE]]
    BY <2>1
  <2>. QED
    BY <2>3, <2>4
<1>. QED
  BY <1>1, <1>2 DEF HangUp

\* A request sent is a request like the others.
LEMMA SendType ==
    ASSUME NEW kind \in {"ack", "cancel"}, NEW from \in {"cli", "user"},
           inbox \in Seq(LocalRequest), Send(kind, from)
    PROVE  inbox' \in Seq(LocalRequest)
  BY DEF Send, LocalRequest

----------------------------------------------------------------------------
(* Types.                                                                  *)

\* What the Worker is about to record is the end of a Run.
VerdictReady == worker \in {"conclude", "save", "saveAbort"} => verdict \in TerminalStatuses

TypeInv == TypeOK /\ VerdictReady

\* Every action keeps the types.
LEMMA StepType ==
    ASSUME TypeInv, [Next]_vars
    PROVE  TypeInv'
<1>. USE DEF TypeInv, VerdictReady, TypeOK, WorkerPlaces, CliPlaces, runVars, sockVars,
             workerVars, targetVars, WorkerMoves, WorkerEnds, CliEnds
<1>1. CASE Launch
  BY <1>1 DEF Launch, Statuses, TerminalStatuses
<1>2. CASE LaunchFails
  BY <1>2 DEF LaunchFails, CliOnly, Statuses, TerminalStatuses
<1>3. CASE AwaitEnds
  BY <1>3 DEF AwaitEnds, CliOnly, Ended, Statuses, TerminalStatuses
<1>4. CASE SendAck
  <2>1. inbox' \in Seq(LocalRequest)
    BY <1>4, SendType DEF SendAck
  <2>. QED
    BY <1>4, <2>1 DEF SendAck
<1>5. CASE AckFails
  <2>1. inbox' \in Seq(LocalRequest)
    BY <1>5, HangUpType DEF AckFails
  <2>. QED
    BY <1>5, <2>1 DEF AckFails
<1>6. CASE Confirm
  BY <1>6 DEF Confirm, CliOnly, Ended, TargetUp, Statuses, TerminalStatuses
<1>7. CASE CliTimesOut
  BY <1>7 DEF CliTimesOut, CliOnly, Statuses, TerminalStatuses
<1>8. CASE CliReadFails
  BY <1>8 DEF CliReadFails, CliOnly, Statuses, TerminalStatuses
<1>9. CASE Lose
  BY <1>9 DEF Lose, Emit, Ended, Statuses, TerminalStatuses
<1>10. CASE Withdraw
  <2>1. inbox' \in Seq(LocalRequest)
    BY <1>10, SendType DEF Withdraw
  <2>. QED
    BY <1>10, <2>1 DEF Withdraw
<1>11. CASE WithdrawFails
  <2>1. inbox' \in Seq(LocalRequest)
    BY <1>11, HangUpType DEF WithdrawFails
  <2>. QED
    BY <1>11, <2>1 DEF WithdrawFails
<1>12. CASE Return
  BY <1>12 DEF Return, CliOnly, Statuses, TerminalStatuses
<1>13. CASE WaitReturns
  BY <1>13 DEF WaitReturns, CliOnly, Statuses, TerminalStatuses
<1>14. CASE CliDies
  <2>1. inbox' \in Seq(LocalRequest)
    BY <1>14, HangUpType DEF CliDies
  <2>. QED
    BY <1>14, <2>1 DEF CliDies
<1>15. CASE UserCancel
  <2>1. inbox' \in Seq(LocalRequest)
    BY <1>15, SendType DEF UserCancel
  <2>. QED
    BY <1>15, <2>1 DEF UserCancel
<1>16. CASE UserGivesUp
  <2>1. inbox' \in Seq(LocalRequest)
    BY <1>16, HangUpType DEF UserGivesUp
  <2>. QED
    BY <1>16, <2>1 DEF UserGivesUp
<1>17. CASE Interrupt
  BY <1>17 DEF Interrupt, Statuses, TerminalStatuses
<1>18. CASE BindSocket
  BY <1>18 DEF BindSocket, Statuses, TerminalStatuses
<1>19. CASE EmitStarting
  BY <1>19 DEF EmitStarting, Emit, Ended, Statuses, TerminalStatuses
<1>20. CASE AnnounceReady
  BY <1>20 DEF AnnounceReady, Statuses, TerminalStatuses
<1>21. CASE HearAck
  BY <1>21 DEF HearAck, AckHeard, Statuses, TerminalStatuses
<1>22. CASE NoAckYet
  BY <1>22 DEF NoAckYet, Statuses, TerminalStatuses
<1>23. CASE CheckAbandoned
  BY <1>23 DEF CheckAbandoned, Abandoned, Statuses, TerminalStatuses
<1>24. CASE WorkerTimesOut
  BY <1>24 DEF WorkerTimesOut, Overdue, Statuses, TerminalStatuses
<1>25. CASE Spawn
  BY <1>25 DEF Spawn, Statuses, TerminalStatuses
<1>41. CASE RegisterGroup
  BY <1>41 DEF RegisterGroup
<1>26. CASE EmitStarted
  <2>1. /\ UNCHANGED <<group, result, sock, inbox, acked, granted, cancels, verdict, handoff,
                       target, killer, cli>>
        /\ worker' \in {"watch", "reap"}
    BY <1>26 DEF EmitStarted
  <2>2. status' \in Statuses /\ started' \in BOOLEAN /\ cancelReq' \in BOOLEAN
    <3>1. CASE Emit("RUNNING") /\ started' = TRUE /\ UNCHANGED cancelReq
      BY <3>1 DEF Emit, Statuses
    <3>2. CASE UNCHANGED <<status, started>> /\ cancelReq' = TRUE
      BY <3>2
    <3>. QED
      BY <1>26, <3>1, <3>2 DEF EmitStarted
  <2>. QED
    BY <2>1, <2>2
<1>27. CASE Reap
  BY <1>27 DEF Reap, TargetEnded, Statuses, TerminalStatuses
<1>28. CASE WatchFails
  BY <1>28 DEF WatchFails, Ended, Statuses, TerminalStatuses
<1>29. CASE Judge
  BY <1>29 DEF Judge, Outcome, TargetEnded, Statuses, TerminalStatuses
<1>30. CASE Conclude
  BY <1>30 DEF Conclude, Emit, Ended, Statuses, TerminalStatuses
<1>31. CASE Abort
  BY <1>31 DEF Abort, Emit, Ended, Statuses, TerminalStatuses
<1>32. CASE Save
  BY <1>32 DEF Save, Recorded, Statuses, TerminalStatuses
<1>33. CASE Exit
  BY <1>33 DEF Exit, Statuses, TerminalStatuses
<1>34. CASE WorkerDies
  BY <1>34 DEF WorkerDies, Statuses, TerminalStatuses
<1>35. CASE Escalate
  BY <1>35 DEF Escalate, Stopping, Statuses, TerminalStatuses
<1>36. CASE TargetEnds
  BY <1>36 DEF TargetEnds, Statuses, TerminalStatuses
<1>37. CASE TargetKilled
  BY <1>37 DEF TargetKilled, Statuses, TerminalStatuses
<1>38. CASE Serve
  <2>1. inbox' \in Seq(LocalRequest)
    BY <1>38 DEF Serve
  <2>2. TypeInv'
    BY <1>38, <2>1 DEF Serve
  <2>. QED
    BY <2>2
<1>39. CASE StoreFails
  BY <1>39 DEF StoreFails, Statuses, TerminalStatuses
<1>40. CASE UNCHANGED vars
  BY <1>40 DEF vars
<1>. QED
  BY <1>1, <1>2, <1>3, <1>4, <1>5, <1>6, <1>7, <1>8, <1>9, <1>10, <1>11, <1>12, <1>13,
     <1>14, <1>15, <1>16, <1>17, <1>18, <1>19, <1>20, <1>21, <1>22, <1>23, <1>24, <1>25,
     <1>26, <1>27, <1>28, <1>29, <1>30, <1>31, <1>32, <1>33, <1>34, <1>35, <1>36, <1>37,
     <1>38, <1>39, <1>40, <1>41, Actions

LEMMA InitType == Init => TypeInv
<1>. SUFFICES ASSUME Init PROVE TypeInv
  OBVIOUS
<1>1. inbox \in Seq(LocalRequest)
  BY DEF Init
<1>2. killer \in 0..3 /\ cancels \in Nat
  BY DEF Init
<1>3. /\ started \in BOOLEAN /\ acked \in BOOLEAN /\ cancelReq \in BOOLEAN
      /\ granted \in BOOLEAN
  BY DEF Init
<1>4. VerdictReady
  BY DEF Init, VerdictReady
<1>5. status \in Statuses /\ worker \in WorkerPlaces /\ cli \in CliPlaces
  BY DEF Init, Statuses, WorkerPlaces, CliPlaces
<1>. QED
  BY <1>1, <1>2, <1>3, <1>4, <1>5 DEF Init, TypeInv, TypeOK

\* Every variable keeps its shape, whatever fails.
THEOREM TypeCorrect == Spec => []TypeOK
<1>1. TypeInv => TypeOK
  BY DEF TypeInv
<1>. QED
  BY <1>1, InitType, StepType, PTL DEF Spec

----------------------------------------------------------------------------
(* The agreement of CLI, Worker and target.                                *)

\* Places of the Worker before the target, and those it reaches only when it
\* has heard the CLI.
BeforeTarget == {"unborn", "boot", "starting", "ready", "wait", "check", "spawn"}

AfterAck == {"spawn", "register", "announce", "watch", "reap", "conclude", "save"}

\* The Worker is born by Launch and starts the target once, between the
\* acknowledgement and run.started.
WorkerOrder ==
    /\ cli = "launch" => worker = "unborn"
    /\ worker \in BeforeTarget => target = "none"
    /\ worker \in AfterAck => acked /\ handoff = "acknowledged"
    /\ worker \in {"register", "announce"} => target # "none"

\* run.started is recorded for a process that exists, and is what the CLI waits
\* for.
StartedOrder ==
    /\ started => target # "none"
    /\ status = "RUNNING" => started
    /\ cli \in {"go", "wait", "done"} => started

HandoffInv == WorkerOrder /\ TargetNeedsAck /\ StartedOrder

LEMMA InitHandoff == Init => HandoffInv
  BY DEF Init, HandoffInv, WorkerOrder, TargetNeedsAck, StartedOrder, AfterAck

LEMMA StepHandoff ==
    ASSUME TypeInv, HandoffInv, [Next]_vars
    PROVE  HandoffInv'
<1>. USE DEF HandoffInv, WorkerOrder, TargetNeedsAck, StartedOrder, BeforeTarget, AfterAck,
             runVars, sockVars, workerVars, targetVars, WorkerMoves, WorkerEnds, CliEnds,
             TerminalStatuses, TypeInv, VerdictReady
<1>1. CASE Launch
  BY <1>1 DEF Launch
<1>2. CASE LaunchFails
  BY <1>2 DEF LaunchFails, CliOnly
<1>3. CASE AwaitEnds
  BY <1>3 DEF AwaitEnds, CliOnly, Ended
<1>4. CASE SendAck
  BY <1>4 DEF SendAck
<1>5. CASE AckFails
  BY <1>5 DEF AckFails
<1>6. CASE Confirm
  BY <1>6 DEF Confirm, CliOnly, Ended, TargetUp
<1>7. CASE CliTimesOut
  BY <1>7 DEF CliTimesOut, CliOnly
<1>8. CASE CliReadFails
  BY <1>8 DEF CliReadFails, CliOnly
<1>9. CASE Lose
  BY <1>9 DEF Lose, Emit, Ended
<1>10. CASE Withdraw
  BY <1>10 DEF Withdraw
<1>11. CASE WithdrawFails
  BY <1>11 DEF WithdrawFails
<1>12. CASE Return
  BY <1>12 DEF Return, CliOnly
<1>13. CASE WaitReturns
  BY <1>13 DEF WaitReturns, CliOnly
<1>14. CASE CliDies
  BY <1>14 DEF CliDies
<1>15. CASE UserCancel
  BY <1>15 DEF UserCancel
<1>16. CASE UserGivesUp
  BY <1>16 DEF UserGivesUp
<1>17. CASE Interrupt
  BY <1>17 DEF Interrupt
<1>18. CASE BindSocket
  BY <1>18 DEF BindSocket
<1>19. CASE EmitStarting
  BY <1>19 DEF EmitStarting, Emit
<1>20. CASE AnnounceReady
  BY <1>20 DEF AnnounceReady
<1>21. CASE HearAck
  BY <1>21 DEF HearAck, AckHeard
<1>22. CASE NoAckYet
  BY <1>22 DEF NoAckYet
<1>23. CASE CheckAbandoned
  BY <1>23 DEF CheckAbandoned
<1>24. CASE WorkerTimesOut
  BY <1>24 DEF WorkerTimesOut
<1>25. CASE Spawn
  BY <1>25 DEF Spawn
<1>41. CASE RegisterGroup
  BY <1>41 DEF RegisterGroup
<1>26. CASE EmitStarted
  BY <1>26 DEF EmitStarted
<1>27. CASE Reap
  BY <1>27 DEF Reap
<1>28. CASE WatchFails
  BY <1>28 DEF WatchFails
<1>29. CASE Judge
  BY <1>29 DEF Judge
<1>30. CASE Conclude
  BY <1>30 DEF Conclude, Emit
<1>31. CASE Abort
  BY <1>31 DEF Abort, Emit
<1>32. CASE Save
  BY <1>32 DEF Save
<1>33. CASE Exit
  BY <1>33 DEF Exit
<1>34. CASE WorkerDies
  BY <1>34 DEF WorkerDies
<1>35. CASE Escalate
  BY <1>35 DEF Escalate
<1>36. CASE TargetEnds
  BY <1>36 DEF TargetEnds
<1>37. CASE TargetKilled
  BY <1>37 DEF TargetKilled
<1>38. CASE Serve
  BY <1>38 DEF Serve
<1>39. CASE StoreFails
  BY <1>39 DEF StoreFails
<1>40. CASE UNCHANGED vars
  BY <1>40 DEF vars
<1>. QED
  BY <1>1, <1>2, <1>3, <1>4, <1>5, <1>6, <1>7, <1>8, <1>9, <1>10, <1>11, <1>12, <1>13,
     <1>14, <1>15, <1>16, <1>17, <1>18, <1>19, <1>20, <1>21, <1>22, <1>23, <1>24, <1>25,
     <1>26, <1>27, <1>28, <1>29, <1>30, <1>31, <1>32, <1>33, <1>34, <1>35, <1>36, <1>37,
     <1>38, <1>39, <1>40, <1>41, Actions

\* The target runs only if the Worker heard the CLI, whatever is lost, late or
\* killed.
THEOREM AckBeforeTarget == Spec => []TargetNeedsAck
<1>1. TypeInv /\ HandoffInv => TargetNeedsAck
  BY DEF HandoffInv
<1>. QED
  BY <1>1, InitType, StepType, InitHandoff, StepHandoff, PTL DEF Spec

\* `runbuoy run` reports success only for a target that was started.
THEOREM SuccessIsReal == Spec => []SuccessMeansStarted
<1>1. TypeInv /\ HandoffInv => SuccessMeansStarted
  BY DEF HandoffInv, StartedOrder, TargetNeedsAck, SuccessMeansStarted
<1>. QED
  BY <1>1, InitType, StepType, InitHandoff, StepHandoff, PTL DEF Spec
----------------------------------------------------------------------------
(* The end of a Run, while deadlines do not pass early and the disk works. *)
(* Each of the four theorems is false with "slow" or "store" alone: a CLI  *)
(* that was not answered in time, or cannot read, then records LOST for a  *)
(* Run whose target runs, and a Worker can leave without a record.         *)

Calm == {"slow", "store"} \cap Failures = {}

\* The CLI has at most one request on the socket and waits for its answer; it
\* hangs up by dying, or when the thread that should answer is gone.
RequestOrder ==
    /\ sock = "closed" => inbox = <<>>
    /\ \A i \in DOMAIN inbox :
          /\ inbox[i].from = "cli"
                => cli \in {"acking", "withdrawing", "lose", "failed", "dead"}
          /\ inbox[i].from = "cli" /\ cli = "acking" => inbox[i].kind = "ack"
          /\ inbox[i].from = "cli" /\ cli = "withdrawing" => inbox[i].kind = "cancel"
          /\ inbox[i].kind = "ack" => inbox[i].from = "cli"
          /\ inbox[i].from = "cli" /\ sock = "open"
                => cli \in {"acking", "withdrawing", "dead"}
          /\ inbox[i].from = "cli" /\ inbox[i].waiting => cli \in {"acking", "withdrawing"}
          /\ inbox[i].from = "cli" /\ ~inbox[i].waiting => sock = "deaf" \/ cli = "dead"
    /\ \A i, j \in DOMAIN inbox :
          inbox[i].from = "cli" /\ inbox[j].from = "cli" => i = j

\* A Worker that announced itself keeps its socket for as long as it lives.
SocketOrder ==
    /\ worker \in {"unborn", "boot"} => sock = "closed"
    /\ worker \in {"unborn", "boot", "starting", "ready"} => handoff = "none"
    /\ worker \in {"starting", "ready", "wait", "check"} => sock # "closed"
    /\ handoff # "none" => sock # "closed" \/ worker \in WorkerEnds

\* The Worker announced itself, but cannot be told that it was heard.
Unheard == sock = "deaf" /\ ~acked /\ handoff # "none"

\* A CLI that gives a Run up was not heard, and there is no Worker any more
\* to hear it, or none that can.
CliOrder ==
    /\ cli \in {"launch", "await", "acking", "lose"} => ~acked
    /\ cli = "acking" => handoff # "none"
    /\ cli = "lose" => worker \in {"unborn"} \cup WorkerEnds \/ Ended \/ Unheard

\* Only the Worker ends a Run that has one, unless the CLI could not be heard,
\* and it records what it emitted.
EndOrder ==
    /\ Ended => \/ worker \in {"unborn", "save", "saveAbort", "exit"} \cup WorkerEnds
                \/ Unheard /\ worker \in {"wait", "check", "abort"} /\ status = "LOST"
    /\ Ended /\ worker = "unborn" => cli # "launch"
    /\ status = "LOST" => target = "none"
    /\ worker = "conclude" => verdict # "LOST"
    /\ worker \in {"save", "saveAbort"} => Ended /\ verdict = status
    /\ worker \in {"exit", "gone"} => Ended /\ result = status

\* The Worker gives up only before the target and concludes only after it; who
\* was signalled was to be cancelled.
TargetOrder ==
    /\ worker # "reap"
    /\ worker \in {"abort", "saveAbort"} => target = "none"
    /\ worker \in {"conclude", "save"} => TargetEnded
    /\ worker \in {"exit", "gone"} => target # "running"
    /\ killer > 0 => cancelReq
    /\ target = "signalled" => killer > 0
    /\ target = "signalled" /\ worker = "conclude" => verdict = "CANCELLED"
    /\ target = "signalled" /\ worker \in {"save", "exit", "gone"}
          => status = "CANCELLED"

CalmInv == RequestOrder /\ SocketOrder /\ CliOrder /\ EndOrder /\ TargetOrder

LEMMA InitCalm == Init => CalmInv
  BY DEF Init, CalmInv, RequestOrder, SocketOrder, CliOrder, EndOrder, TargetOrder, Ended,
         TerminalStatuses, TargetEnded, WorkerEnds

\* What a request sent, one served and a hang-up leave of the queue.
LEMMA SendKeeps ==
    ASSUME NEW kind \in {"ack", "cancel"}, NEW from \in {"cli", "user"},
           inbox \in Seq(LocalRequest), Send(kind, from), NEW i \in DOMAIN inbox'
    PROVE  \/ i \in DOMAIN inbox /\ inbox'[i] = inbox[i]
           \/ /\ i = Len(inbox) + 1
              /\ inbox'[i] = [kind |-> kind, from |-> from, waiting |-> TRUE]
  BY DEF Send

LEMMA ServeKeeps ==
    ASSUME inbox \in Seq(LocalRequest), inbox # <<>>, inbox' = Tail(inbox),
           NEW i \in DOMAIN inbox'
    PROVE  /\ i + 1 \in DOMAIN inbox /\ i \in Nat /\ i # 0 /\ 1 \in DOMAIN inbox
           /\ inbox'[i] = inbox[i + 1]
           /\ Head(inbox) = inbox[1]
  OBVIOUS

LEMMA HangUpKeeps ==
    ASSUME NEW from \in {"cli", "user"}, inbox \in Seq(LocalRequest), HangUp(from),
           NEW i \in DOMAIN inbox'
    PROVE  /\ i \in DOMAIN inbox /\ DOMAIN inbox' = DOMAIN inbox
           /\ inbox'[i].kind = inbox[i].kind /\ inbox'[i].from = inbox[i].from
           /\ inbox'[i].waiting = inbox[i].waiting \/ inbox[i].from = from
<1>1. CASE UNCHANGED inbox
  BY <1>1
<1>2. CASE \E j \in DOMAIN inbox : /\ inbox[j].from = from
                                   /\ inbox' = [inbox EXCEPT ![j].waiting = FALSE]
  <2>1. PICK j \in DOMAIN inbox : /\ inbox[j].from = from
                                  /\ inbox' = [inbox EXCEPT ![j].waiting = FALSE]
    BY <1>2
  <2>2. inbox[i] \in LocalRequest /\ i \in DOMAIN inbox
    BY <2>1
  <2>3. inbox' = [inbox EXCEPT ![j] = [inbox[j] EXCEPT !.waiting = FALSE]]
    BY <2>1
  <2>4. CASE i = j
    <3>1. inbox'[i] = [inbox[i] EXCEPT !.waiting = FALSE]
      BY <2>2, <2>3, <2>4
    <3>. QED
      BY <2>1, <2>2, <2>4, <3>1 DEF LocalRequest
  <2>5. CASE i # j
    BY <2>1, <2>2, <2>3, <2>5
  <2>. QED
    BY <2>4, <2>5
<1>. QED
  BY <1>1, <1>2 DEF HangUp

\* When the CLI hangs up, none of its requests waits any more.
LEMMA CliHangsUp ==
    ASSUME inbox \in Seq(LocalRequest), HangUp("cli"),
           \A i, j \in DOMAIN inbox :
              inbox[i].from = "cli" /\ inbox[j].from = "cli" => i = j
    PROVE  /\ DOMAIN inbox' = DOMAIN inbox
           /\ inbox = <<>> => inbox' = <<>>
           /\ \A i \in DOMAIN inbox' :
                 /\ inbox'[i].kind = inbox[i].kind /\ inbox'[i].from = inbox[i].from
                 /\ inbox'[i].from = "cli" => ~inbox'[i].waiting
<1>1. \A i \in DOMAIN inbox' : inbox'[i].kind = inbox[i].kind /\ inbox'[i].from = inbox[i].from
  BY HangUpKeeps
<1>2. CASE UNCHANGED inbox /\ \A i \in DOMAIN inbox : inbox[i].from = "cli" => ~inbox[i].waiting
  BY <1>2
<1>3. CASE \E j \in DOMAIN inbox : /\ inbox[j].from = "cli"
                                   /\ inbox' = [inbox EXCEPT ![j].waiting = FALSE]
  <2>1. PICK j \in DOMAIN inbox : /\ inbox[j].from = "cli"
                                  /\ inbox' = [inbox EXCEPT ![j].waiting = FALSE]
    BY <1>3
  <2>2. inbox' = [inbox EXCEPT ![j] = [inbox[j] EXCEPT !.waiting = FALSE]]
    BY <2>1
  <2>3. inbox[j] \in LocalRequest
    BY <2>1
  <2>4. [inbox[j] EXCEPT !.waiting = FALSE].waiting = FALSE
    BY <2>3 DEF LocalRequest
  <2>5. inbox'[j].waiting = FALSE
    BY <2>1, <2>2, <2>4
  <2>. QED
    BY <1>1, <2>1, <2>2, <2>5
<1>. QED
  BY <1>2, <1>3 DEF HangUp

\* Every action keeps the queue of requests in order.
LEMMA StepRequests ==
    ASSUME Calm, TypeInv, CalmInv, [Next]_vars
    PROVE  RequestOrder'
<1>. USE DEF CalmInv, RequestOrder, runVars, sockVars, workerVars, targetVars, CliEnds,
             WorkerMoves, LocalRequest
<1>0. /\ inbox \in Seq(LocalRequest) /\ inbox' \in Seq(LocalRequest)
      /\ sock \in {"closed", "open", "deaf"}
      /\ \A i \in DOMAIN inbox : inbox[i] \in LocalRequest
      /\ \A i \in DOMAIN inbox : /\ inbox[i].kind \in {"ack", "cancel"}
                                 /\ inbox[i].from \in {"cli", "user"}
                                 /\ inbox[i].waiting \in BOOLEAN
  <2>. HIDE DEF LocalRequest
  <2>1. /\ inbox \in Seq(LocalRequest) /\ inbox' \in Seq(LocalRequest)
        /\ sock \in {"closed", "open", "deaf"}
    BY StepType DEF TypeInv, TypeOK
  <2>2. \A i \in DOMAIN inbox : inbox[i] \in LocalRequest
    BY <2>1
  <2>. QED
    BY <2>1, <2>2 DEF LocalRequest
<1>1. CASE Launch
  BY <1>1 DEF Launch
<1>2. CASE LaunchFails
  BY <1>2 DEF LaunchFails, CliOnly
<1>3. CASE AwaitEnds
  BY <1>3 DEF AwaitEnds, CliOnly
<1>4. CASE SendAck
  <2>1. Send("ack", "cli") /\ cli = "await" /\ cli' = "acking" /\ sock' = sock
    BY <1>4 DEF SendAck
  <2>2. \A i \in DOMAIN inbox' :
           \/ i \in DOMAIN inbox /\ inbox'[i] = inbox[i]
           \/ /\ i = Len(inbox) + 1
              /\ inbox'[i] = [kind |-> "ack", from |-> "cli", waiting |-> TRUE]
    BY <1>0, <2>1, SendKeeps
  <2>3. sock # "closed"
    BY <2>1 DEF Send, Connectable
  <2>. HIDE DEF LocalRequest
  <2>. QED
    BY <1>0, <2>1, <2>2, <2>3
<1>5. CASE AckFails
  <2>1. HangUp("cli") /\ UNCHANGED sock /\ cli = "acking" /\ cli' = "lose" /\ sock # "open"
    BY <1>5 DEF AckFails, Reset, NoAnswer, Calm
  <2>. HIDE DEF LocalRequest
  <2>. QED
    BY <1>0, <2>1, CliHangsUp
<1>6. CASE Confirm
  BY <1>6 DEF Confirm, CliOnly, TargetUp
<1>7. CASE CliTimesOut
  BY <1>7 DEF CliTimesOut, CliOnly
<1>8. CASE CliReadFails
  BY <1>8 DEF CliReadFails, CliOnly, Calm
<1>9. CASE Lose
  BY <1>9 DEF Lose, Emit
<1>10. CASE Withdraw
  <2>1. CASE ~Connectable
    BY <1>10, <2>1, <1>0 DEF Withdraw, Connectable, Send
  <2>2. CASE Connectable
    <3>1. Send("cancel", "cli") /\ cli = "withdraw" /\ cli' = "withdrawing" /\ sock' = sock
      BY <1>10, <2>2 DEF Withdraw
    <3>2. \A i \in DOMAIN inbox' :
             \/ i \in DOMAIN inbox /\ inbox'[i] = inbox[i]
             \/ /\ i = Len(inbox) + 1
                /\ inbox'[i] = [kind |-> "cancel", from |-> "cli", waiting |-> TRUE]
      BY <1>0, <3>1, SendKeeps
    <3>3. sock # "closed"
      BY <3>1 DEF Send, Connectable
    <3>. HIDE DEF LocalRequest
    <3>. QED
      BY <1>0, <3>1, <3>2, <3>3
  <2>. QED
    BY <2>1, <2>2
<1>11. CASE WithdrawFails
  <2>1. HangUp("cli") /\ UNCHANGED sock /\ cli = "withdrawing" /\ cli' = "failed" /\ sock # "open"
    BY <1>11 DEF WithdrawFails, Reset, NoAnswer, Calm
  <2>. HIDE DEF LocalRequest
  <2>. QED
    BY <1>0, <2>1, CliHangsUp
<1>12. CASE Return
  BY <1>12 DEF Return, CliOnly
<1>13. CASE WaitReturns
  BY <1>13 DEF WaitReturns, CliOnly
<1>14. CASE CliDies
  <2>1. HangUp("cli") /\ UNCHANGED sock /\ cli' = "dead" /\ cli \notin {"failed", "dead"}
    BY <1>14 DEF CliDies
  <2>. HIDE DEF LocalRequest
  <2>. QED
    BY <1>0, <2>1, CliHangsUp
<1>15. CASE UserCancel
  <2>1. Send("cancel", "user") /\ cli' = cli /\ sock' = sock
    BY <1>15 DEF UserCancel
  <2>2. \A i \in DOMAIN inbox' :
           \/ i \in DOMAIN inbox /\ inbox'[i] = inbox[i]
           \/ /\ i = Len(inbox) + 1
              /\ inbox'[i] = [kind |-> "cancel", from |-> "user", waiting |-> TRUE]
    BY <1>0, <2>1, SendKeeps
  <2>3. sock # "closed"
    BY <2>1 DEF Send, Connectable
  <2>. HIDE DEF LocalRequest
  <2>. QED
    BY <1>0, <2>1, <2>2, <2>3
<1>16. CASE UserGivesUp
  <2>1. HangUp("user") /\ sock' = sock /\ cli' = cli
    BY <1>16 DEF UserGivesUp
  <2>2. \A i \in DOMAIN inbox' :
           /\ i \in DOMAIN inbox /\ DOMAIN inbox' = DOMAIN inbox
           /\ inbox'[i].kind = inbox[i].kind /\ inbox'[i].from = inbox[i].from
           /\ inbox'[i].waiting = inbox[i].waiting \/ inbox[i].from = "user"
    BY <1>0, <2>1, HangUpKeeps
  <2>3. inbox = <<>> => inbox' = <<>>
    BY <2>1 DEF HangUp
  <2>. QED
    BY <1>0, <2>1, <2>2, <2>3
<1>17. CASE Interrupt
  BY <1>17 DEF Interrupt
<1>18. CASE BindSocket
  BY <1>18 DEF BindSocket, SocketOrder
<1>19. CASE EmitStarting
  BY <1>19 DEF EmitStarting, Emit
<1>20. CASE AnnounceReady
  BY <1>20 DEF AnnounceReady
<1>21. CASE HearAck
  BY <1>21 DEF HearAck, AckHeard
<1>22. CASE NoAckYet
  BY <1>22 DEF NoAckYet
<1>23. CASE CheckAbandoned
  BY <1>23 DEF CheckAbandoned, Abandoned
<1>24. CASE WorkerTimesOut
  BY <1>24 DEF WorkerTimesOut
<1>25. CASE Spawn
  BY <1>25 DEF Spawn
<1>41. CASE RegisterGroup
  BY <1>41 DEF RegisterGroup
<1>26. CASE EmitStarted
  BY <1>26 DEF EmitStarted, Emit
<1>27. CASE Reap
  BY <1>27 DEF Reap
<1>28. CASE WatchFails
  BY <1>28 DEF WatchFails
<1>29. CASE Judge
  BY <1>29 DEF Judge, Outcome
<1>30. CASE Conclude
  BY <1>30 DEF Conclude, Emit
<1>31. CASE Abort
  BY <1>31 DEF Abort, Emit
<1>32. CASE Save
  BY <1>32 DEF Save, Recorded
<1>33. CASE Exit
  BY <1>33 DEF Exit
<1>34. CASE WorkerDies
  BY <1>34 DEF WorkerDies
<1>35. CASE Escalate
  BY <1>35 DEF Escalate, Stopping
<1>36. CASE TargetEnds
  BY <1>36 DEF TargetEnds
<1>37. CASE TargetKilled
  BY <1>37 DEF TargetKilled
<1>38. CASE Serve
  <2>. DEFINE request == Head(inbox)
  <2>1. /\ inbox # <<>> /\ inbox' = Tail(inbox) /\ sock = "open"
        /\ sock' = IF request.waiting THEN "open" ELSE "deaf"
        /\ cli' = IF request.from = "cli" /\ request.waiting
                  THEN IF request.kind = "ack" THEN "confirm" ELSE "failed"
                  ELSE cli
    BY <1>38 DEF Serve
  <2>2. /\ request = inbox[1] /\ 1 \in DOMAIN inbox
        /\ request.waiting \in BOOLEAN /\ sock' # "closed"
    <3>1. request = inbox[1] /\ 1 \in DOMAIN inbox
      BY <1>0, <2>1
    <3>2. request.waiting \in BOOLEAN
      BY <1>0, <3>1
    <3>. QED
      BY <2>1, <3>1, <3>2
  <2>3. \A i \in DOMAIN inbox' : /\ i + 1 \in DOMAIN inbox /\ i \in Nat /\ i # 0
                                 /\ inbox'[i] = inbox[i + 1]
    BY <1>0, <2>1, ServeKeeps
  <2>. HIDE DEF request, LocalRequest
  <2>4. CASE request.from = "cli" /\ request.waiting
    <3>1. \A i \in DOMAIN inbox' : inbox'[i].from # "cli"
      BY <2>2, <2>3, <2>4
    <3>2. \A i \in DOMAIN inbox' : inbox'[i].kind # "ack"
      BY <2>3, <3>1
    <3>. QED
      BY <2>1, <2>2, <2>4, <3>1, <3>2
  <2>5. CASE ~(request.from = "cli" /\ request.waiting)
    BY <2>1, <2>2, <2>3, <2>5
  <2>. QED
    BY <2>4, <2>5
<1>39. CASE StoreFails
  BY <1>39 DEF StoreFails, Calm
<1>40. CASE UNCHANGED vars
  BY <1>40 DEF vars
<1>. QED
  BY <1>1, <1>2, <1>3, <1>4, <1>5, <1>6, <1>7, <1>8, <1>9, <1>10, <1>11, <1>12, <1>13, <1>14,
     <1>15, <1>16, <1>17, <1>18, <1>19, <1>20, <1>21, <1>22, <1>23, <1>24, <1>25, <1>26, <1>27,
     <1>28, <1>29, <1>30, <1>31, <1>32, <1>33, <1>34, <1>35, <1>36, <1>37, <1>38, <1>39, <1>40,
     <1>41, Actions

\* An announced Worker closes its socket only when it ends.
LEMMA StepSocket ==
    ASSUME Calm, TypeInv, HandoffInv, CalmInv, [Next]_vars
    PROVE  SocketOrder'
<1>. USE DEF CalmInv, HandoffInv, WorkerOrder, SocketOrder, runVars, sockVars, workerVars,
             targetVars, CliEnds, WorkerEnds,
             WorkerMoves
<1>1. CASE Launch
  BY <1>1 DEF Launch
<1>2. CASE LaunchFails
  BY <1>2 DEF LaunchFails, CliOnly
<1>3. CASE AwaitEnds
  BY <1>3 DEF AwaitEnds, CliOnly
<1>4. CASE SendAck
  BY <1>4 DEF SendAck, Send
<1>5. CASE AckFails
  BY <1>5 DEF AckFails, Reset, NoAnswer, Calm, RequestOrder
<1>6. CASE Confirm
  BY <1>6 DEF Confirm, CliOnly, TargetUp
<1>7. CASE CliTimesOut
  BY <1>7 DEF CliTimesOut, CliOnly
<1>8. CASE CliReadFails
  BY <1>8 DEF CliReadFails, CliOnly, Calm
<1>9. CASE Lose
  BY <1>9 DEF Lose, Emit, Calm
<1>10. CASE Withdraw
  BY <1>10 DEF Withdraw
<1>11. CASE WithdrawFails
  BY <1>11 DEF WithdrawFails
<1>12. CASE Return
  BY <1>12 DEF Return, CliOnly
<1>13. CASE WaitReturns
  BY <1>13 DEF WaitReturns, CliOnly
<1>14. CASE CliDies
  BY <1>14 DEF CliDies
<1>15. CASE UserCancel
  BY <1>15 DEF UserCancel
<1>16. CASE UserGivesUp
  BY <1>16 DEF UserGivesUp
<1>17. CASE Interrupt
  BY <1>17 DEF Interrupt
<1>18. CASE BindSocket
  BY <1>18 DEF BindSocket
<1>19. CASE EmitStarting
  BY <1>19 DEF EmitStarting, Emit
<1>20. CASE AnnounceReady
  BY <1>20 DEF AnnounceReady
<1>21. CASE HearAck
  BY <1>21 DEF HearAck, AckHeard
<1>22. CASE NoAckYet
  BY <1>22 DEF NoAckYet
<1>23. CASE CheckAbandoned
  BY <1>23 DEF CheckAbandoned, Abandoned
<1>24. CASE WorkerTimesOut
  BY <1>24 DEF WorkerTimesOut
<1>25. CASE Spawn
  BY <1>25 DEF Spawn
<1>41. CASE RegisterGroup
  BY <1>41 DEF RegisterGroup
<1>26. CASE EmitStarted
  BY <1>26 DEF EmitStarted, Emit, Calm
<1>27. CASE Reap
  BY <1>27 DEF Reap
<1>28. CASE WatchFails
  BY <1>28 DEF WatchFails
<1>29. CASE Judge
  BY <1>29 DEF Judge, Outcome
<1>30. CASE Conclude
  BY <1>30 DEF Conclude, Emit
<1>31. CASE Abort
  BY <1>31 DEF Abort, Emit, Calm
<1>32. CASE Save
  BY <1>32 DEF Save, Recorded, Calm
<1>33. CASE Exit
  BY <1>33 DEF Exit
<1>34. CASE WorkerDies
  BY <1>34 DEF WorkerDies
<1>35. CASE Escalate
  BY <1>35 DEF Escalate, Stopping
<1>36. CASE TargetEnds
  BY <1>36 DEF TargetEnds
<1>37. CASE TargetKilled
  BY <1>37 DEF TargetKilled
<1>38. CASE Serve
  BY <1>38 DEF Serve
<1>39. CASE StoreFails
  BY <1>39 DEF StoreFails, Calm
<1>40. CASE UNCHANGED vars
  BY <1>40 DEF vars
<1>. QED
  BY <1>1, <1>2, <1>3, <1>4, <1>5, <1>6, <1>7, <1>8, <1>9, <1>10, <1>11, <1>12, <1>13, <1>14,
     <1>15, <1>16, <1>17, <1>18, <1>19, <1>20, <1>21, <1>22, <1>23, <1>24, <1>25, <1>26, <1>27,
     <1>28, <1>29, <1>30, <1>31, <1>32, <1>33, <1>34, <1>35, <1>36, <1>37, <1>38, <1>39, <1>40,
     <1>41, Actions

\* A CLI that gives up was not heard.
LEMMA StepCli ==
    ASSUME Calm, TypeInv, HandoffInv, CalmInv, [Next]_vars
    PROVE  CliOrder'
<1>. USE DEF CalmInv, Calm, HandoffInv, WorkerOrder, CliOrder, Unheard, SocketOrder, EndOrder,
             TerminalStatuses, Ended, runVars, sockVars, workerVars, targetVars, CliEnds,
             WorkerEnds,
             WorkerMoves
<1>0. inbox \in Seq(LocalRequest)
  BY DEF TypeInv, TypeOK
<1>1. CASE Launch
  BY <1>1 DEF Launch
<1>2. CASE LaunchFails
  BY <1>2 DEF LaunchFails, CliOnly
<1>3. CASE AwaitEnds
  BY <1>3 DEF AwaitEnds, CliOnly
<1>4. CASE SendAck
  BY <1>4 DEF SendAck, Send
<1>5. CASE AckFails
  BY <1>5 DEF AckFails, Reset, NoAnswer, RequestOrder
<1>6. CASE Confirm
  BY <1>6 DEF Confirm, CliOnly, TargetUp
<1>7. CASE CliTimesOut
  BY <1>7 DEF CliTimesOut, CliOnly
<1>8. CASE CliReadFails
  BY <1>8 DEF CliReadFails, CliOnly
<1>9. CASE Lose
  BY <1>9 DEF Lose, Emit
<1>10. CASE Withdraw
  BY <1>10 DEF Withdraw
<1>11. CASE WithdrawFails
  BY <1>11 DEF WithdrawFails
<1>12. CASE Return
  BY <1>12 DEF Return, CliOnly
<1>13. CASE WaitReturns
  BY <1>13 DEF WaitReturns, CliOnly
<1>14. CASE CliDies
  BY <1>14 DEF CliDies
<1>15. CASE UserCancel
  BY <1>15 DEF UserCancel
<1>16. CASE UserGivesUp
  BY <1>16 DEF UserGivesUp
<1>17. CASE Interrupt
  BY <1>17 DEF Interrupt
<1>18. CASE BindSocket
  BY <1>18 DEF BindSocket
<1>19. CASE EmitStarting
  BY <1>19 DEF EmitStarting, Emit
<1>20. CASE AnnounceReady
  BY <1>20 DEF AnnounceReady
<1>21. CASE HearAck
  BY <1>21 DEF HearAck, AckHeard
<1>22. CASE NoAckYet
  BY <1>22 DEF NoAckYet
<1>23. CASE CheckAbandoned
  BY <1>23 DEF CheckAbandoned, Abandoned
<1>24. CASE WorkerTimesOut
  BY <1>24 DEF WorkerTimesOut
<1>25. CASE Spawn
  BY <1>25 DEF Spawn
<1>41. CASE RegisterGroup
  BY <1>41 DEF RegisterGroup
<1>26. CASE EmitStarted
  BY <1>26 DEF EmitStarted, Emit
<1>27. CASE Reap
  BY <1>27 DEF Reap
<1>28. CASE WatchFails
  BY <1>28 DEF WatchFails
<1>29. CASE Judge
  BY <1>29 DEF Judge, Outcome
<1>30. CASE Conclude
  BY <1>30 DEF Conclude, Emit
<1>31. CASE Abort
  BY <1>31 DEF Abort, Emit
<1>32. CASE Save
  BY <1>32 DEF Save, Recorded
<1>33. CASE Exit
  BY <1>33 DEF Exit
<1>34. CASE WorkerDies
  BY <1>34 DEF WorkerDies
<1>35. CASE Escalate
  BY <1>35 DEF Escalate, Stopping
<1>36. CASE TargetEnds
  BY <1>36 DEF TargetEnds
<1>37. CASE TargetKilled
  BY <1>37 DEF TargetKilled
<1>38. CASE Serve
  <2>1. /\ inbox # <<>> /\ Head(inbox) = inbox[1] /\ 1 \in DOMAIN inbox
        /\ inbox[1] \in LocalRequest
    BY <1>0, <1>38 DEF Serve
  <2>2. /\ inbox[1].kind = "ack"
              => /\ inbox[1].from = "cli" /\ cli \in {"acking", "dead"}
                 /\ inbox[1].waiting \/ cli = "dead"
        /\ inbox[1].waiting \in BOOLEAN
    BY <2>1, <1>38 DEF RequestOrder, LocalRequest, Serve
  <2>3. sock = "open"
    BY <1>38 DEF Serve
  <2>. QED
    BY <1>38, <2>1, <2>2, <2>3 DEF Serve
<1>39. CASE StoreFails
  BY <1>39 DEF StoreFails
<1>40. CASE UNCHANGED vars
  BY <1>40 DEF vars
<1>. QED
  BY <1>1, <1>2, <1>3, <1>4, <1>5, <1>6, <1>7, <1>8, <1>9, <1>10, <1>11, <1>12, <1>13, <1>14,
     <1>15, <1>16, <1>17, <1>18, <1>19, <1>20, <1>21, <1>22, <1>23, <1>24, <1>25, <1>26, <1>27,
     <1>28, <1>29, <1>30, <1>31, <1>32, <1>33, <1>34, <1>35, <1>36, <1>37, <1>38, <1>39, <1>40,
     <1>41, Actions

\* The Worker alone ends its Run, and writes down what it emitted.
LEMMA StepEnd ==
    ASSUME Calm, TypeInv, HandoffInv, CalmInv, [Next]_vars
    PROVE  EndOrder'
<1>. USE DEF CalmInv, CliOrder, Unheard, EndOrder, TerminalStatuses, Ended, TypeInv, TypeOK,
             VerdictReady, runVars, sockVars, workerVars, targetVars, CliEnds, WorkerEnds,
             WorkerMoves
<1>1. CASE Launch
  BY <1>1 DEF Launch, HandoffInv, WorkerOrder, TargetNeedsAck
<1>2. CASE LaunchFails
  BY <1>2 DEF LaunchFails, CliOnly
<1>3. CASE AwaitEnds
  BY <1>3 DEF AwaitEnds, CliOnly
<1>4. CASE SendAck
  BY <1>4 DEF SendAck, Send
<1>5. CASE AckFails
  BY <1>5 DEF AckFails, Reset, NoAnswer, Calm, RequestOrder
<1>6. CASE Confirm
  BY <1>6 DEF Confirm, CliOnly, TargetUp
<1>7. CASE CliTimesOut
  BY <1>7 DEF CliTimesOut, CliOnly
<1>8. CASE CliReadFails
  BY <1>8 DEF CliReadFails, CliOnly, Calm
<1>9. CASE Lose
  BY <1>9 DEF Lose, Emit, Calm, HandoffInv, WorkerOrder, BeforeTarget, AfterAck,
     TargetNeedsAck, SocketOrder, WorkerPlaces
<1>10. CASE Withdraw
  BY <1>10 DEF Withdraw
<1>11. CASE WithdrawFails
  BY <1>11 DEF WithdrawFails
<1>12. CASE Return
  BY <1>12 DEF Return, CliOnly
<1>13. CASE WaitReturns
  BY <1>13 DEF WaitReturns, CliOnly
<1>14. CASE CliDies
  BY <1>14 DEF CliDies
<1>15. CASE UserCancel
  BY <1>15 DEF UserCancel
<1>16. CASE UserGivesUp
  BY <1>16 DEF UserGivesUp
<1>17. CASE Interrupt
  BY <1>17 DEF Interrupt
<1>18. CASE BindSocket
  BY <1>18 DEF BindSocket
<1>19. CASE EmitStarting
  BY <1>19 DEF EmitStarting, Emit
<1>20. CASE AnnounceReady
  BY <1>20 DEF AnnounceReady
<1>21. CASE HearAck
  BY <1>21 DEF HearAck, AckHeard
<1>22. CASE NoAckYet
  BY <1>22 DEF NoAckYet
<1>23. CASE CheckAbandoned
  BY <1>23 DEF CheckAbandoned, Abandoned, HandoffInv, WorkerOrder, TargetNeedsAck
<1>24. CASE WorkerTimesOut
  BY <1>24 DEF WorkerTimesOut
<1>25. CASE Spawn
  BY <1>25 DEF Spawn, HandoffInv, WorkerOrder, TargetNeedsAck
<1>41. CASE RegisterGroup
  BY <1>41 DEF RegisterGroup
<1>26. CASE EmitStarted
  BY <1>26 DEF EmitStarted, Emit, Calm
<1>27. CASE Reap
  BY <1>27 DEF Reap
<1>28. CASE WatchFails
  BY <1>28 DEF WatchFails
<1>29. CASE Judge
  BY <1>29 DEF Judge, Outcome
<1>30. CASE Conclude
  BY <1>30 DEF Conclude, Emit, HandoffInv, WorkerOrder, TargetNeedsAck
<1>31. CASE Abort
  BY <1>31 DEF Abort, Emit, Calm, HandoffInv, WorkerOrder, TargetNeedsAck
<1>32. CASE Save
  BY <1>32 DEF Save, Recorded, Calm
<1>33. CASE Exit
  BY <1>33 DEF Exit
<1>34. CASE WorkerDies
  BY <1>34 DEF WorkerDies
<1>35. CASE Escalate
  BY <1>35 DEF Escalate, Stopping
<1>36. CASE TargetEnds
  BY <1>36 DEF TargetEnds
<1>37. CASE TargetKilled
  BY <1>37 DEF TargetKilled
<1>38. CASE Serve
  BY <1>38 DEF Serve
<1>39. CASE StoreFails
  BY <1>39 DEF StoreFails, Calm
<1>40. CASE UNCHANGED vars
  BY <1>40 DEF vars
<1>. QED
  BY <1>1, <1>2, <1>3, <1>4, <1>5, <1>6, <1>7, <1>8, <1>9, <1>10, <1>11, <1>12, <1>13, <1>14,
     <1>15, <1>16, <1>17, <1>18, <1>19, <1>20, <1>21, <1>22, <1>23, <1>24, <1>25, <1>26, <1>27,
     <1>28, <1>29, <1>30, <1>31, <1>32, <1>33, <1>34, <1>35, <1>36, <1>37, <1>38, <1>39, <1>40,
     <1>41, Actions

\* The Worker gives up before the target or outlives it.
LEMMA StepTarget ==
    ASSUME Calm, TypeInv, HandoffInv, CalmInv, [Next]_vars
    PROVE  TargetOrder'
<1>. USE DEF CalmInv, CliOrder, Unheard, EndOrder, TargetOrder, TargetEnded, TerminalStatuses,
             Ended, runVars, sockVars, workerVars, targetVars, CliEnds, WorkerEnds,
             WorkerMoves
<1>1. CASE Launch
  BY <1>1 DEF Launch
<1>2. CASE LaunchFails
  BY <1>2 DEF LaunchFails, CliOnly
<1>3. CASE AwaitEnds
  BY <1>3 DEF AwaitEnds, CliOnly
<1>4. CASE SendAck
  BY <1>4 DEF SendAck, Send
<1>5. CASE AckFails
  BY <1>5 DEF AckFails, Reset, NoAnswer, Calm, RequestOrder
<1>6. CASE Confirm
  BY <1>6 DEF Confirm, CliOnly, TargetUp
<1>7. CASE CliTimesOut
  BY <1>7 DEF CliTimesOut, CliOnly
<1>8. CASE CliReadFails
  BY <1>8 DEF CliReadFails, CliOnly, Calm
<1>9. CASE Lose
  BY <1>9 DEF Lose, Emit, Calm
<1>10. CASE Withdraw
  BY <1>10 DEF Withdraw
<1>11. CASE WithdrawFails
  BY <1>11 DEF WithdrawFails
<1>12. CASE Return
  BY <1>12 DEF Return, CliOnly
<1>13. CASE WaitReturns
  BY <1>13 DEF WaitReturns, CliOnly
<1>14. CASE CliDies
  BY <1>14 DEF CliDies
<1>15. CASE UserCancel
  BY <1>15 DEF UserCancel
<1>16. CASE UserGivesUp
  BY <1>16 DEF UserGivesUp
<1>17. CASE Interrupt
  BY <1>17 DEF Interrupt
<1>18. CASE BindSocket
  BY <1>18 DEF BindSocket, HandoffInv, WorkerOrder, TargetNeedsAck, BeforeTarget, AfterAck
<1>19. CASE EmitStarting
  BY <1>19 DEF EmitStarting, Emit, HandoffInv, WorkerOrder, TargetNeedsAck, BeforeTarget,
     AfterAck
<1>20. CASE AnnounceReady
  BY <1>20 DEF AnnounceReady
<1>21. CASE HearAck
  BY <1>21 DEF HearAck, AckHeard, HandoffInv, WorkerOrder, TargetNeedsAck, BeforeTarget,
     AfterAck
<1>22. CASE NoAckYet
  BY <1>22 DEF NoAckYet
<1>23. CASE CheckAbandoned
  BY <1>23 DEF CheckAbandoned, Abandoned, HandoffInv, WorkerOrder, TargetNeedsAck, BeforeTarget,
     AfterAck
<1>24. CASE WorkerTimesOut
  BY <1>24 DEF WorkerTimesOut, HandoffInv, WorkerOrder, TargetNeedsAck, BeforeTarget, AfterAck
<1>25. CASE Spawn
  BY <1>25 DEF Spawn, HandoffInv, WorkerOrder, TargetNeedsAck, BeforeTarget, AfterAck
<1>41. CASE RegisterGroup
  BY <1>41 DEF RegisterGroup
<1>26. CASE EmitStarted
  BY <1>26 DEF EmitStarted, Emit, Calm
<1>27. CASE Reap
  BY <1>27 DEF Reap
<1>28. CASE WatchFails
  BY <1>28 DEF WatchFails
<1>29. CASE Judge
  BY <1>29 DEF Judge, Outcome, HandoffInv, WorkerOrder, TargetNeedsAck, BeforeTarget, AfterAck
<1>30. CASE Conclude
  BY <1>30 DEF Conclude, Emit
<1>31. CASE Abort
  BY <1>31 DEF Abort, Emit, Calm, HandoffInv, WorkerOrder, TargetNeedsAck, BeforeTarget,
     AfterAck
<1>32. CASE Save
  BY <1>32 DEF Save, Recorded, Calm
<1>33. CASE Exit
  BY <1>33 DEF Exit
<1>34. CASE WorkerDies
  BY <1>34 DEF WorkerDies
<1>35. CASE Escalate
  BY <1>35 DEF Escalate, Stopping, HandoffInv, WorkerOrder, TargetNeedsAck, BeforeTarget,
     AfterAck
<1>36. CASE TargetEnds
  BY <1>36 DEF TargetEnds, HandoffInv, WorkerOrder, TargetNeedsAck, BeforeTarget, AfterAck
<1>37. CASE TargetKilled
  BY <1>37 DEF TargetKilled, HandoffInv, WorkerOrder, TargetNeedsAck, BeforeTarget, AfterAck
<1>38. CASE Serve
  BY <1>38 DEF Serve
<1>39. CASE StoreFails
  BY <1>39 DEF StoreFails, Calm
<1>40. CASE UNCHANGED vars
  BY <1>40 DEF vars
<1>. QED
  BY <1>1, <1>2, <1>3, <1>4, <1>5, <1>6, <1>7, <1>8, <1>9, <1>10, <1>11, <1>12, <1>13, <1>14,
     <1>15, <1>16, <1>17, <1>18, <1>19, <1>20, <1>21, <1>22, <1>23, <1>24, <1>25, <1>26, <1>27,
     <1>28, <1>29, <1>30, <1>31, <1>32, <1>33, <1>34, <1>35, <1>36, <1>37, <1>38, <1>39, <1>40,
     <1>41, Actions

LEMMA StepCalm ==
    ASSUME Calm, TypeInv, HandoffInv, CalmInv, [Next]_vars
    PROVE  CalmInv'
  BY StepRequests, StepSocket, StepCli, StepEnd, StepTarget DEF CalmInv

\* A Run recorded as LOST has no process.
THEOREM LostHasNoTarget ==
    ASSUME Calm
    PROVE  Spec => []LostNeverStarted
<1>1. CalmInv => LostNeverStarted
  BY DEF CalmInv, EndOrder, LostNeverStarted
<1>. QED
  BY <1>1, InitType, StepType, InitHandoff, StepHandoff, InitCalm, StepCalm, PTL DEF Spec

\* A Worker that ended in order recorded the end of its Run, in the Run's row
\* and in the result file alike.
THEOREM ExitLeavesRecord ==
    ASSUME Calm
    PROVE  Spec => []ExitIsRecorded
<1>1. CalmInv => ExitIsRecorded
  BY DEF CalmInv, EndOrder, ExitIsRecorded
<1>. QED
  BY <1>1, InitType, StepType, InitHandoff, StepHandoff, InitCalm, StepCalm, PTL DEF Spec

\* ... and left no target behind.
THEOREM ExitLeavesNoOrphan ==
    ASSUME Calm
    PROVE  Spec => []NoOrphan
<1>1. CalmInv => NoOrphan
  BY DEF CalmInv, TargetOrder, NoOrphan
<1>. QED
  BY <1>1, InitType, StepType, InitHandoff, StepHandoff, InitCalm, StepCalm, PTL DEF Spec

\* A target ended by a signal of the Worker is recorded as cancelled.
THEOREM KilledIsCancelled ==
    ASSUME Calm
    PROVE  Spec => []KilledIsNotFailed
<1>1. CalmInv => KilledIsNotFailed
  BY DEF CalmInv, TargetOrder, KilledIsNotFailed
<1>. QED
  BY <1>1, InitType, StepType, InitHandoff, StepHandoff, InitCalm, StepCalm, PTL DEF Spec
==============================================================================
