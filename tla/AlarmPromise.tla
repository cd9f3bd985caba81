----------------------------- MODULE AlarmPromise -----------------------------
(***************************************************************************)
(* What the sessions promise about alarms, without threads, versions,      *)
(* sweeps and timers. The alarms of a user are numbered in the order in    *)
(* which they are raised. An alarm is raised only where none stands; it    *)
(* gets its row in the outbox once, at once or later; and a session comes  *)
(* into IN_DANGER only with the standing alarm, which has its row by then. *)
(* Any other change is a move of the validator's table, which may end the  *)
(* alarm but never raises one.                                             *)
(*                                                                         *)
(* Several users may change in one step, as they do in a sweep.            *)
(***************************************************************************)
EXTENDS Naturals, SessionStates

CONSTANTS Users

VARIABLES
  status,   \* the status of each user's session
  alarmed,  \* whether an alarm stands for the user
  raised,   \* how many alarms were raised for the user
  queued    \* the numbers of those that have a row in the outbox

vars == <<status, alarmed, raised, queued>>

Init ==
  /\ status \in [Users -> {NoSession, "ENDED"}]
  /\ alarmed = [u \in Users |-> FALSE]
  /\ raised = [u \in Users |-> 0]
  /\ queued = [u \in Users |-> {}]

\* A session that is not there begins as ACTIVE.
Begun(s) == IF s = NoSession THEN "ACTIVE" ELSE s

Move(u) ==
  /\ \/ status'[u] = status[u]
     \/ /\ status'[u] # "IN_DANGER"
        /\ status'[u] = Begun(status[u]) \/ CanMove(Begun(status[u]), status'[u])
  /\ alarmed'[u] => alarmed[u]
  /\ UNCHANGED <<raised[u], queued[u]>>

Raise(u) ==
  /\ status[u] # NoSession
  /\ ~alarmed[u] /\ alarmed'[u]
  /\ raised'[u] = raised[u] + 1
  /\ UNCHANGED <<status[u], queued[u]>>

Queue(u) ==
  /\ \E n \in (1 .. raised[u]) \ queued[u] : queued'[u] = queued[u] \cup {n}
  /\ UNCHANGED <<status[u], alarmed[u], raised[u]>>

EnterDanger(u) ==
  /\ alarmed[u] /\ raised[u] \in queued[u]
  /\ CanMove(status[u], "IN_DANGER")
  /\ status'[u] = "IN_DANGER"
  /\ UNCHANGED <<alarmed[u], raised[u], queued[u]>>

RaiseAtOnce(u) ==
  /\ ~alarmed[u] /\ alarmed'[u]
  /\ raised'[u] = raised[u] + 1
  /\ queued'[u] = queued[u] \cup {raised'[u]}
  /\ CanMove(Begun(status[u]), "IN_DANGER")
  /\ status'[u] = "IN_DANGER"

Step(u) == Move(u) \/ Raise(u) \/ Queue(u) \/ EnterDanger(u) \/ RaiseAtOnce(u)

Next == \A u \in Users : Step(u)

Spec == Init /\ [][Next]_vars
===============================================================================
