---------------------------- MODULE RunProjection ----------------------------
(***************************************************************************)
(* What the synchronisation plane promises, without queue, network or      *)
(* transactions: a machine extends the history of its Runs, and what the   *)
(* server shows of a Run moves forward along that history.                 *)
(***************************************************************************)
EXTENDS RunEvents, Sequences

CONSTANT Runs

VARIABLES
    log,      \* log[r]: the kinds of the events of r, in the order they happened
    applied,  \* applied[r]: the positions of log[r] the server has applied
    shown     \* shown[r]: the status the server shows

vars == <<log, applied, shown>>

Init ==
    /\ log = [r \in Runs |-> <<>>]
    /\ applied = [r \in Runs |-> {}]
    /\ shown = [r \in Runs |-> "CREATED"]

Ends(kind) == kind \in StatusKinds /\ EventStatus[kind] \in TerminalStatuses

\* Something happens in a Run that has not ended.
Happen(r) ==
    /\ \A n \in DOMAIN log[r] : ~Ends(log[r][n])
    /\ \E kind \in Kinds : log' = [log EXCEPT ![r] = Append(@, kind)]
    /\ UNCHANGED <<applied, shown>>

\* s is what the newest status event among the positions S says, or the old
\* status if S has none.
ShownAfter(r, S, s) ==
    /\ \A n \in S :
          (log[r][n] \in StatusKinds /\ \A m \in S : m > n => log[r][m] \notin StatusKinds)
              => s = EventStatus[log[r][n]]
    /\ (\A n \in S : log[r][n] \notin StatusKinds) => s = shown[r]

\* The server learns of a batch: every event of it is newer than all it knew.
\* It may skip events, but it never goes back and never leaves a final status.
Apply(r) ==
    /\ shown[r] \notin TerminalStatuses
    /\ \E S \in SUBSET (DOMAIN log[r]) :
          /\ S # {}
          /\ \A n \in S, m \in applied[r] : n > m
          /\ applied' = [applied EXCEPT ![r] = @ \cup S]
          /\ \E s \in AllowedTransitions[shown[r]] :
                /\ ShownAfter(r, S, s)
                /\ shown' = [shown EXCEPT ![r] = s]
    /\ UNCHANGED log

Next == \E r \in Runs : Happen(r) \/ Apply(r)

Spec == Init /\ [][Next]_vars
==============================================================================
