-------------------------- MODULE SafetySessionProofs --------------------------
(***************************************************************************)
(* Proofs about SafetySession, for every set of users and threads, every   *)
(* bound and every set of readings.                                        *)
(*                                                                         *)
(* None of the invariants is inductive alone. The sweep commits a plan made *)
(* from an earlier copy of the rows, and a request goes on from an earlier *)
(* copy of its row, so the inductive invariant says what a plan or a       *)
(* request that nobody overtook still knows about the row (PlanOK,         *)
(* RequestOK), beside what a row looks like by itself (RowOK).             *)
(***************************************************************************)
EXTENDS SafetySession, TLAPS

RowOK(row) ==
  /\ row.status = "WARNING" => row.confirmation = "PENDING" /\ row.warning # "none"
  /\ row.autoResume # "none" => row.status \in {"PAUSED_MANUAL", "ENDED"}

RequestOK(th) ==
  /\ th.pc # "idle" => th.user \in Users
  /\ th.pc \in {"flagged", "enqueued"} => th.raise \in 1 .. raises[th.user]
  /\ th.pc = "enqueued" => th.raise \in queued[th.user]
  /\ th.pc = "located" /\ th.fresh => ~session[th.user].emergencyTriggered
  /\ th.pc \in {"flagged", "enqueued"} /\ th.fresh => th.raise = raises[th.user]

PlanOK(u) ==
  /\ plan[u] = "WARN" => session[u].status = "ACTIVE"
  /\ plan[u] = "AUTO_RESUME" => session[u].status = "PAUSED_MANUAL"
  /\ plan[u] # "RECOVER"
  /\ plan[u] = "NO_RESPONSE" => /\ session[u].status = "WARNING"
                                /\ session[u].warning = "expired"
                                /\ ~session[u].emergencyTriggered
                                /\ raises[u] < MaxRaise

RowsOK     == \A u \in Users : RowOK(session[u])
RequestsOK == \A t \in Threads : RequestOK(thread[t])
PlansOK    == \A u \in Users \ touched : PlanOK(u)

\* No two requests are about to insert the same alarm.
OneInserter ==
  \A s, t \in Threads : s # t /\ thread[s].pc = "flagged" /\ thread[t].pc = "flagged"
                           /\ thread[s].user = thread[t].user
                         => thread[s].raise # thread[t].raise

IInv == TypeOK /\ RowsOK /\ RequestsOK /\ PlansOK /\ OneInserter /\ AlertAccounting

--------------------------------------------------------------------------------
(* Rows.                                                                    *)

\* The rows that are created belong to the type and are well-formed.
LEMMA CreatedRows ==
  /\ NoRow \in SessionRow /\ RowOK(NoRow)
  /\ NewRow \in SessionRow /\ RowOK(NewRow)
  /\ ProvisionedRow \in SessionRow /\ RowOK(ProvisionedRow)
BY DEF NoRow, NewRow, ProvisionedRow, SessionRow, Status, NoSession, RowOK

\* What the table of the validator says of the moves the code makes.
LEMMA Moves ==
  ASSUME NEW from, NEW to, CanMove(from, to)
  PROVE  /\ to = "IN_DANGER" => from \in {"ACTIVE", "WARNING", "SOFT_MONITORING",
                                          "RECOVERY_PENDING", "PAUSED_OFF_BODY"}
         /\ to = "ENDED" => from \in {"ACTIVE", "IN_DANGER", "RECOVERY_PENDING",
                                      "PAUSED_MANUAL", "PAUSED_OFF_BODY"}
         /\ to = "WARNING" => from \in {"ACTIVE", "SOFT_MONITORING"}
         /\ to \in {"PAUSED_MANUAL", "PAUSED_OFF_BODY"} => from = "ACTIVE"
         /\ to = "RECOVERY_PENDING" => from = "IN_DANGER"
<1>1. CASE from = NoSession
  BY <1>1 DEF CanMove, NoSession, Status
<1>2. CASE from = "ACTIVE"
  BY <1>2 DEF CanMove, AllowedTransitions, NoSession
<1>3. CASE from = "WARNING"
  BY <1>3 DEF CanMove, AllowedTransitions, NoSession
<1>4. CASE from = "IN_DANGER"
  BY <1>4 DEF CanMove, AllowedTransitions, NoSession
<1>5. CASE from = "ENDED"
  BY <1>5 DEF CanMove, AllowedTransitions, NoSession
<1>6. CASE from = "RECOVERY_PENDING"
  BY <1>6 DEF CanMove, AllowedTransitions, NoSession
<1>7. CASE from = "SOFT_MONITORING"
  BY <1>7 DEF CanMove, AllowedTransitions, NoSession
<1>8. CASE from = "PAUSED_MANUAL"
  BY <1>8 DEF CanMove, AllowedTransitions, NoSession
<1>9. CASE from = "PAUSED_OFF_BODY"
  BY <1>9 DEF CanMove, AllowedTransitions, NoSession
<1>10. QED
  BY <1>1, <1>2, <1>3, <1>4, <1>5, <1>6, <1>7, <1>8, <1>9 DEF CanMove, Status

\* Moving a row to IN_DANGER keeps it well-formed: no state from which that
\* is allowed carries a timer.
LEMMA DangerRow ==
  ASSUME NEW row \in SessionRow, RowOK(row), CanMove(row.status, "IN_DANGER")
  PROVE  /\ [row EXCEPT !.status = "IN_DANGER"] \in SessionRow
         /\ RowOK([row EXCEPT !.status = "IN_DANGER"])
         /\ [row EXCEPT !.emergencyTriggered = TRUE, !.status = "IN_DANGER"] \in SessionRow
         /\ RowOK([row EXCEPT !.emergencyTriggered = TRUE, !.status = "IN_DANGER"])
<1>1. row.status \notin {"PAUSED_MANUAL", "ENDED"}
  BY Moves
<1>2. QED
  BY <1>1 DEF SessionRow, RowOK, Status, NoSession

--------------------------------------------------------------------------------
(* Commits.                                                                 *)

\* Outdating threads keeps their type and everything but fresh.
LEMMA OutdatedThreads ==
  ASSUME TypeOK, NEW us
  PROVE  /\ Outdated(us) \in [Threads -> ThreadState]
         /\ \A t \in Threads :
              /\ Outdated(us)[t].pc = thread[t].pc
              /\ Outdated(us)[t].user = thread[t].user
              /\ Outdated(us)[t].raise = thread[t].raise
              /\ Outdated(us)[t].fresh => thread[t].fresh /\ thread[t].user \notin us
<1>1. ASSUME NEW t \in Threads
      PROVE  /\ Outdated(us)[t] \in ThreadState
             /\ Outdated(us)[t].pc = thread[t].pc
             /\ Outdated(us)[t].user = thread[t].user
             /\ Outdated(us)[t].raise = thread[t].raise
             /\ Outdated(us)[t].fresh => thread[t].fresh /\ thread[t].user \notin us
  BY <1>1 DEF TypeOK, ThreadState, Outdated
<1>2. QED
  BY <1>1 DEF Outdated

\* A commit to one row leaves the types, the rows and the plan intact.
LEMMA WriteStep ==
  ASSUME IInv, NEW u \in Users, NEW row \in SessionRow, RowOK(row), Write(u, row)
  PROVE  /\ session' \in [Users -> SessionRow]
         /\ session'[u] = row
         /\ \A v \in Users \ {u} : session'[v] = session[v]
         /\ RowsOK'
         /\ plan' = plan
         /\ Planned' = Planned
         /\ touched' \subseteq Planned'
         /\ \A v \in Users \ touched' : v \notin touched /\ (v = u => plan[v] = "NOTHING")
         /\ answered' \subseteq Users
<1>1. /\ session' \in [Users -> SessionRow]
      /\ session'[u] = row
      /\ \A v \in Users \ {u} : session'[v] = session[v]
  BY DEF IInv, TypeOK, Write
<1>2. RowsOK'
  BY <1>1 DEF IInv, RowsOK, Write
<1>3. plan' = plan /\ Planned' = Planned
  BY DEF Write, Planned
<1>4. touched' \subseteq Planned'
  BY <1>3 DEF IInv, TypeOK, Write
<1>5. \A v \in Users \ touched' : v \notin touched /\ (v = u => plan[v] = "NOTHING")
  BY DEF Write, Planned
<1>6. answered' \subseteq Users
  BY DEF IInv, TypeOK, Write
<1>7. QED
  BY <1>1, <1>2, <1>3, <1>4, <1>5, <1>6

\* What a commit to one row leaves of the plan.
LEMMA WriteKeepsPlans ==
  ASSUME IInv, NEW u \in Users, NEW row \in SessionRow, RowOK(row), Write(u, row),
         \A v \in Users \ {u} : raises'[v] = raises[v]
  PROVE  PlansOK'
<1> SUFFICES ASSUME NEW v \in (Users \ touched)' PROVE PlanOK(v)'
  BY DEF PlansOK
<1>1. CASE v = u
  BY <1>1, WriteStep DEF PlanOK
<1>2. CASE v # u
  BY <1>2, WriteStep DEF PlanOK, IInv, PlansOK
<1>3. QED
  BY <1>1, <1>2

\* Who is about to insert an alarm, before and after a step.
LEMMA Inserters ==
  ASSUME NEW v, NEW n
  PROVE  /\ n \in Inserting(v) <=> \E s \in Threads : /\ thread[s].pc = "flagged"
                                                      /\ thread[s].user = v
                                                      /\ thread[s].raise = n
         /\ n \in Inserting(v)' <=> \E s \in Threads : /\ thread'[s].pc = "flagged"
                                                       /\ thread'[s].user = v
                                                       /\ thread'[s].raise = n
BY DEF Inserting

\* Commits that raise and queue nothing and let no request reach or leave the
\* insert keep the accounts.
LEMMA QuietStep ==
  ASSUME IInv, raises' = raises, queued' = queued, lost' = lost,
         \A t \in Threads :
           /\ thread'[t].pc = "flagged" <=> thread[t].pc = "flagged"
           /\ thread[t].pc = "flagged" => /\ thread'[t].user = thread[t].user
                                          /\ thread'[t].raise = thread[t].raise
  PROVE  AlertAccounting' /\ OneInserter'
<1>1. \A v \in Users : Inserting(v)' = Inserting(v)
  BY DEF Inserting
<1>2. QED
  BY <1>1 DEF IInv, AlertAccounting, OneInserter

\* Outdating threads lets no request reach or leave the insert.
LEMMA OutdatedInserters ==
  ASSUME IInv, NEW us, thread' = Outdated(us)
  PROVE  (\A v \in Users : Inserting(v)' = Inserting(v)) /\ OneInserter'
<1>1. \A t \in Threads : /\ thread'[t].pc = thread[t].pc /\ thread'[t].user = thread[t].user
                         /\ thread'[t].raise = thread[t].raise
  BY OutdatedThreads DEF IInv
<1>2. QED
  BY <1>1 DEF IInv, Inserting, OneInserter

\* The commit of a handler that raises no alarm.
LEMMA SaveStep ==
  ASSUME IInv, NEW u \in Users, NEW row \in SessionRow, RowOK(row), Save(u, row)
  PROVE  IInv'
<1> DEFINE T == Outdated({u})
<1>1. /\ Write(u, row) /\ thread' = T
      /\ raises' = raises /\ queued' = queued /\ lost' = lost
  BY DEF Save
<1>2. TypeOK'
  BY <1>1, WriteStep, OutdatedThreads DEF IInv, TypeOK
<1>3. RequestsOK'
  BY <1>1, WriteStep, OutdatedThreads DEF IInv, RequestsOK, RequestOK
<1>4. PlansOK'
  BY <1>1, WriteKeepsPlans
<1>5. AlertAccounting' /\ OneInserter'
  BY <1>1, QuietStep, OutdatedThreads DEF IInv
<1>6. QED
  BY <1>1, <1>2, <1>3, <1>4, <1>5, WriteStep DEF IInv

\* The commit of a transaction that raises an alarm: the new raise has its
\* outbox row at once.
LEMMA RaiseStep ==
  ASSUME IInv, NEW u \in Users, NEW row \in SessionRow, RowOK(row),
         RaiseInTransaction(u, row)
  PROVE  IInv'
<1> DEFINE new == [row EXCEPT !.emergencyTriggered = TRUE, !.status = "IN_DANGER"]
           n == raises[u] + 1
<1>1. /\ new \in SessionRow /\ RowOK(new)
      /\ Write(u, new)
      /\ raises[u] < MaxRaise
      /\ raises' = [raises EXCEPT ![u] = n]
      /\ queued' = [queued EXCEPT ![u] = @ \cup {n}]
      /\ thread' = Outdated({u}) /\ lost' = lost
  BY DangerRow DEF RaiseInTransaction
<1> HIDE DEF new
<1>2. /\ raises' \in [Users -> 0 .. MaxRaise]
      /\ raises'[u] = raises[u] + 1
      /\ \A v \in Users \ {u} : raises'[v] = raises[v]
  BY <1>1, SafetyAssumption DEF IInv, TypeOK
<1>3. /\ queued' \in [Users -> SUBSET (1 .. MaxRaise)]
      /\ queued'[u] = queued[u] \cup {n}
      /\ \A v \in Users \ {u} : queued'[v] = queued[v]
  BY <1>1, SafetyAssumption DEF IInv, TypeOK
<1>4. TypeOK'
  <2>1. /\ session' \in [Users -> SessionRow] /\ plan' = plan
        /\ touched' \subseteq Planned' /\ answered' \subseteq Users
    BY <1>1, WriteStep
  <2>2. thread' \in [Threads -> ThreadState]
    BY <1>1, OutdatedThreads DEF IInv
  <2>3. QED
    BY <2>1, <2>2, <1>1, <1>2, <1>3 DEF IInv, TypeOK
<1>5. RequestsOK'
  <2> SUFFICES ASSUME NEW t \in Threads PROVE RequestOK(thread[t])'
    BY DEF RequestsOK
  <2>1. /\ thread'[t].pc = thread[t].pc
        /\ thread'[t].user = thread[t].user
        /\ thread'[t].raise = thread[t].raise
        /\ thread'[t].fresh => thread[t].fresh /\ thread[t].user # u
    BY <1>1, OutdatedThreads DEF IInv
  <2>2. RequestOK(thread[t])
    BY DEF IInv, RequestsOK
  <2>3. thread[t].user \in Users =>
          /\ raises[thread[t].user] \in Nat /\ raises'[thread[t].user] \in Nat
          /\ raises[thread[t].user] <= raises'[thread[t].user]
          /\ queued[thread[t].user] \subseteq queued'[thread[t].user]
    BY <1>2, <1>3, SafetyAssumption DEF IInv, TypeOK
  <2>4. thread[t].user \in Users /\ thread[t].user # u =>
          /\ session'[thread[t].user] = session[thread[t].user]
          /\ raises'[thread[t].user] = raises[thread[t].user]
    BY <1>1, <1>2, WriteStep
  <2>5. QED
    BY <2>1, <2>2, <2>3, <2>4 DEF RequestOK
<1>6. PlansOK'
  BY <1>1, <1>2, WriteKeepsPlans
<1>7. AlertAccounting' /\ OneInserter'
  <2>1. (\A v \in Users : Inserting(v)' = Inserting(v)) /\ OneInserter'
    BY <1>1, OutdatedInserters
  <2>2. /\ n \notin 1 .. raises[u] /\ raises'[u] = n
        /\ 1 .. n = (1 .. raises[u]) \cup {n}
    BY <1>2, SafetyAssumption DEF IInv, TypeOK
  <2>3. QED
    BY <2>1, <2>2, <1>1, <1>2, <1>3 DEF IInv, AlertAccounting
<1>8. QED
  BY <1>1, <1>4, <1>5, <1>6, <1>7, WriteStep DEF IInv

--------------------------------------------------------------------------------
(* The calls of the protection API.                                         *)

\* Every handler of one transaction keeps the invariant: the row it commits
\* is well-formed.
LEMMA ProtectionStep ==
  ASSUME IInv, NEW u \in Users, ProtectionCall(u)
  PROVE  IInv'
<1> DEFINE old == session[u]
<1>0. old \in SessionRow /\ RowOK(old)
  BY DEF IInv, TypeOK, RowsOK
<1>1. CASE StartProtection(u)
  <2> DEFINE row == [old EXCEPT !.status = "ACTIVE", !.confirmation = "NONE",
                             !.autoResume = "none", !.worn = TRUE,
                             !.emergencyTriggered = FALSE,
                             !.ping = "fresh", !.bluetooth = "fresh"]
  <2>1. row \in SessionRow /\ RowOK(row)
    BY <1>0 DEF SessionRow, RowOK, Status
  <2>2. Save(u, row)
    BY <1>1 DEF StartProtection
  <2>3. QED
    BY <2>1, <2>2, SaveStep
<1>2. CASE Ping(u)
  <2> DEFINE row == [old EXCEPT !.ping = "fresh", !.bluetooth = "fresh"]
             new == IF row.status \in {"WARNING", "PAUSED_OFF_BODY"}
                      THEN Recovered(row) ELSE row
  <2>1. new \in SessionRow /\ RowOK(new)
    BY <1>0 DEF SessionRow, RowOK, Status, Recovered
  <2>2. Save(u, new)
    BY <1>2 DEF Ping
  <2>3. QED
    BY <2>1, <2>2, SaveStep
<1>3. CASE StopProtection(u)
  <2> DEFINE row == [old EXCEPT !.status = "ENDED"]
  <2>1. row \in SessionRow /\ RowOK(row)
    BY <1>0 DEF SessionRow, RowOK, Status
  <2>2. Save(u, row)
    BY <1>3 DEF StopProtection
  <2>3. QED
    BY <2>1, <2>2, SaveStep
<1>4. CASE PauseProtection(u)
  <2> DEFINE row == [old EXCEPT !.status = "PAUSED_MANUAL", !.worn = TRUE,
                                !.autoResume = "waiting"]
  <2>1. row \in SessionRow /\ RowOK(row)
    BY <1>0 DEF SessionRow, RowOK, Status
  <2>2. Save(u, row)
    BY <1>4 DEF PauseProtection
  <2>3. QED
    BY <2>1, <2>2, SaveStep
<1>5. CASE ResumeProtection(u)
  <2>1. Resumed(old) \in SessionRow /\ RowOK(Resumed(old))
    BY <1>0 DEF SessionRow, RowOK, Status, Resumed
  <2>2. Save(u, Resumed(old))
    BY <1>5 DEF ResumeProtection
  <2>3. QED
    BY <2>1, <2>2, SaveStep
<1>6. CASE ConfirmUserSafe(u)
  <2> DEFINE row == [old EXCEPT !.status = "RECOVERY_PENDING", !.warning = "none",
                                !.confirmation = "SAFE_CONFIRMED"]
  <2>1. CanMove(old.status, "RECOVERY_PENDING") /\ Save(u, row)
    BY <1>6 DEF ConfirmUserSafe
  <2>2. old.status = "IN_DANGER"
    BY <2>1, Moves
  <2>3. row \in SessionRow /\ RowOK(row)
    BY <1>0, <2>2 DEF SessionRow, RowOK, Status
  <2>4. QED
    BY <2>1, <2>3, SaveStep
<1>7. CASE ConfirmUserSafeRejected(u)
  <2>1. UNCHANGED <<session, raises, queued, lost, thread, plan, touched>>
        /\ answered' = answered \cup {u}
    BY <1>7 DEF ConfirmUserSafeRejected
  <2>2. QED
    BY <2>1, QuietStep DEF IInv, TypeOK, RowsOK, RequestsOK, PlansOK, RequestOK,
                           PlanOK, Planned
<1>8. CASE UpdateBluetoothPing(u)
  <2> DEFINE row == IF Exists(u) THEN [session[u] EXCEPT !.bluetooth = "fresh"] ELSE NewRow
             back == [row EXCEPT !.status = "ACTIVE", !.confirmation = "NONE",
                                 !.warning = "none"]
             new == CASE row.status = "WARNING"         -> back
                      [] row.status = "PAUSED_OFF_BODY" -> [back EXCEPT !.worn = TRUE]
                      [] OTHER                          -> row
  <2>1. row \in SessionRow /\ RowOK(row)
    <3>1. /\ [old EXCEPT !.bluetooth = "fresh"] \in SessionRow
          /\ RowOK([old EXCEPT !.bluetooth = "fresh"])
      BY <1>0 DEF SessionRow, RowOK
    <3>2. QED
      BY <3>1, CreatedRows
  <2>2. /\ row.status = "WARNING" => back \in SessionRow /\ RowOK(back)
        /\ row.status = "PAUSED_OFF_BODY" =>
             /\ [back EXCEPT !.worn = TRUE] \in SessionRow
             /\ RowOK([back EXCEPT !.worn = TRUE])
    <3> HIDE DEF row
    <3>1. QED
      BY <2>1 DEF SessionRow, RowOK, Status
  <2>3. new \in SessionRow /\ RowOK(new)
    <3> HIDE DEF row, back
    <3>1. QED
      BY <2>1, <2>2
  <2>4. Save(u, new)
    BY <1>8 DEF UpdateBluetoothPing
  <2>5. QED
    BY <2>3, <2>4, SaveStep
<1>9. CASE MarkDeviceOffBody(u)
  <2> DEFINE row == [old EXCEPT !.status = "PAUSED_OFF_BODY", !.worn = FALSE]
  <2>1. CanMove(old.status, "PAUSED_OFF_BODY") /\ Save(u, row)
    BY <1>9 DEF MarkDeviceOffBody
  <2>2. old.status = "ACTIVE"
    BY <2>1, Moves
  <2>3. row \in SessionRow /\ RowOK(row)
    BY <1>0, <2>2 DEF SessionRow, RowOK, Status
  <2>4. QED
    BY <2>1, <2>3, SaveStep
<1>10. CASE UpdateVitals(u)
  <2> DEFINE row == IF Exists(u) THEN [session[u] EXCEPT !.ping = "fresh", !.bluetooth = "fresh"]
                                 ELSE NewRow
  <2>1. row \in SessionRow /\ RowOK(row)
    <3>1. /\ [old EXCEPT !.ping = "fresh", !.bluetooth = "fresh"] \in SessionRow
          /\ RowOK([old EXCEPT !.ping = "fresh", !.bluetooth = "fresh"])
      BY <1>0 DEF SessionRow, RowOK
    <3>2. QED
      BY <3>1, CreatedRows
  <2>2. PICK level :
          \/ RaiseInTransaction(u, row)
          \/ Save(u, row)
          \/ Save(u, [row EXCEPT !.status = VitalsStatus(@, level)])
    BY <1>10 DEF UpdateVitals
  <2> HIDE DEF row
  <2>3. /\ [row EXCEPT !.status = VitalsStatus(@, level)] \in SessionRow
        /\ RowOK([row EXCEPT !.status = VitalsStatus(@, level)])
    BY <2>1 DEF SessionRow, RowOK, VitalsStatus, Status
  <2>4. QED
    BY <2>1, <2>2, <2>3, SaveStep, RaiseStep
<1>11. CASE MarkSafe(u)
  <2> DEFINE row == [old EXCEPT !.emergencyTriggered = FALSE, !.preAlert = FALSE]
  <2>1. row \in SessionRow /\ RowOK(row)
    BY <1>0 DEF SessionRow, RowOK
  <2>2. Save(u, row)
    BY <1>11 DEF MarkSafe
  <2>3. QED
    BY <2>1, <2>2, SaveStep
<1>12. CASE StartPreAlert(u) \/ CancelPreAlert(u)
  <2>1. PICK b \in BOOLEAN : Save(u, [old EXCEPT !.preAlert = b])
    BY <1>12 DEF StartPreAlert, CancelPreAlert
  <2>2. [old EXCEPT !.preAlert = b] \in SessionRow /\ RowOK([old EXCEPT !.preAlert = b])
    BY <1>0 DEF SessionRow, RowOK
  <2>3. QED
    BY <2>1, <2>2, SaveStep
<1>13. QED
  BY <1>1, <1>2, <1>3, <1>4, <1>5, <1>6, <1>7, <1>8, <1>9, <1>10, <1>11, <1>12
     DEF ProtectionCall

--------------------------------------------------------------------------------
(* The SOS requests.                                                        *)

\* A request that has read a row with a clear alarm is well-formed.
LEMMA LocatedThread ==
  ASSUME NEW u \in Users
  PROVE  Located(u) \in ThreadState /\ Located(u).pc = "located" /\ Located(u).user = u
<1>1. 0 \in 0 .. MaxRaise
  BY SafetyAssumption
<1>2. QED
  BY <1>1 DEF Located, ThreadState, Idle

\* The first commit of a request keeps the invariant: the request that goes on
\* remembers a row whose alarm is clear.
LEMMA BeginStep ==
  ASSUME IInv, NEW t \in Threads, NEW u \in Users, NEW row \in SessionRow, RowOK(row),
         NEW alarm, BeginRequest(t, u, row, alarm)
  PROVE  IInv'
<1> DEFINE begun == Located(u)
<1>1. /\ Write(u, row) /\ raises' = raises /\ queued' = queued /\ lost' = lost
      /\ thread[t] = Idle
      /\ \/ thread' = Outdated({u})
         \/ /\ ~row.emergencyTriggered
            /\ thread' = [Outdated({u}) EXCEPT ![t] = begun]
  BY DEF BeginRequest
<1>2. begun \in ThreadState /\ begun.pc = "located" /\ begun.user = u
  BY LocatedThread
<1>3. thread' \in [Threads -> ThreadState]
  BY <1>1, <1>2, OutdatedThreads DEF IInv
<1>4. TypeOK'
  BY <1>1, <1>3, WriteStep DEF IInv, TypeOK
<1>5. ASSUME NEW s \in Threads
      PROVE  \/ /\ thread'[s].pc = thread[s].pc /\ thread'[s].user = thread[s].user
                /\ thread'[s].raise = thread[s].raise
                /\ thread'[s].fresh => thread[s].fresh /\ thread[s].user # u
             \/ s = t /\ thread'[s] = begun /\ ~row.emergencyTriggered
  <2>1. CASE thread' = Outdated({u})
    BY <2>1, OutdatedThreads DEF IInv
  <2>2. CASE ~row.emergencyTriggered /\ thread' = [Outdated({u}) EXCEPT ![t] = begun]
    BY <2>2, OutdatedThreads DEF IInv
  <2>3. QED
    BY <1>1, <2>1, <2>2
<1> HIDE DEF begun
<1>6. RequestsOK'
  <2> SUFFICES ASSUME NEW s \in Threads PROVE RequestOK(thread[s])'
    BY DEF RequestsOK
  <2>1. CASE thread'[s] = begun /\ ~row.emergencyTriggered
    BY <1>1, <1>2, <2>1, WriteStep DEF RequestOK
  <2>2. CASE /\ thread'[s].pc = thread[s].pc /\ thread'[s].user = thread[s].user
             /\ thread'[s].raise = thread[s].raise
             /\ thread'[s].fresh => thread[s].fresh /\ thread[s].user # u
    BY <1>1, <2>2, WriteStep DEF RequestOK, IInv, RequestsOK
  <2>3. QED
    BY <1>5, <2>1, <2>2
<1>7. PlansOK'
  BY <1>1, WriteKeepsPlans
<1>8. AlertAccounting' /\ OneInserter'
  BY <1>1, <1>2, <1>5, QuietStep DEF Idle
<1>9. QED
  BY <1>1, <1>4, <1>6, <1>7, <1>8, WriteStep DEF IInv

\* A press that has nothing to save only reads the row.
LEMMA PressStep ==
  ASSUME IInv, NEW t \in Threads, NEW u \in Users, PressWithoutPosition(t, u)
  PROVE  IInv'
<1>1. /\ thread[t] = Idle /\ ~session[u].emergencyTriggered
      /\ thread' = [thread EXCEPT ![t] = Located(u)]
      /\ UNCHANGED <<session, raises, queued, lost, plan, touched, answered>>
  BY DEF PressWithoutPosition
<1>2. thread'[t] = Located(u) /\ \A s \in Threads \ {t} : thread'[s] = thread[s]
  BY <1>1 DEF IInv, TypeOK
<1>3. TypeOK' /\ RowsOK' /\ PlansOK'
  BY <1>1, LocatedThread DEF IInv, TypeOK, RowsOK, PlansOK, PlanOK, Planned
<1>4. RequestsOK'
  BY <1>1, <1>2, LocatedThread DEF IInv, RequestsOK, RequestOK
<1>5. AlertAccounting' /\ OneInserter'
  BY <1>1, <1>2, LocatedThread, QuietStep DEF Idle
<1>6. QED
  BY <1>3, <1>4, <1>5 DEF IInv

\* Every way an SOS request begins keeps the invariant.
LEMMA SosRequestStep ==
  ASSUME IInv, NEW t \in Threads, NEW u \in Users, SosRequest(t, u)
  PROVE  IInv'
<1> DEFINE old == session[u]
<1>0. old \in SessionRow /\ RowOK(old)
  BY DEF IInv, TypeOK, RowsOK
<1>1. CASE PressSosButton(t, u) \/ ReportTamper(t, u)
  <2>1. BeginRequest(t, u, old, TRUE)
    BY <1>1 DEF PressSosButton, ReportTamper
  <2>2. QED
    BY <1>0, <2>1, BeginStep
<1>2. CASE ProcessHeartbeat(t, u)
  <2>1. PICK worn, connected \in BOOLEAN :
          \E alarm \in PacketAlarms(old, worn, connected) :
            BeginRequest(t, u, PacketRow(old, worn, connected), alarm)
    BY <1>2 DEF ProcessHeartbeat
  <2>2. /\ PacketRow(old, worn, connected) \in SessionRow
        /\ RowOK(PacketRow(old, worn, connected))
    BY <1>0 DEF SessionRow, RowOK, PacketRow
  <2>3. QED
    BY <2>1, <2>2, BeginStep
<1>3. CASE PressWithoutPosition(t, u)
  BY <1>3, PressStep
<1>4. QED
  BY <1>1, <1>2, <1>3 DEF SosRequest

\* The flag is committed: the raise is still to be inserted by this request.
LEMMA RaiseAlarmStep ==
  ASSUME IInv, NEW t \in Threads, RaiseAlarm(t)
  PROVE  IInv'
<1> DEFINE u == thread[t].user
           row == [session[u] EXCEPT !.emergencyTriggered = TRUE]
           n == raises[u] + 1
           flagged == [thread[t] EXCEPT !.pc = "flagged", !.raise = n]
<1>1. /\ thread[t].pc = "located" /\ thread[t].fresh
      /\ raises[u] < MaxRaise
      /\ Write(u, row)
      /\ raises' = [raises EXCEPT ![u] = n]
      /\ thread' = [Outdated({u}) EXCEPT ![t] = flagged]
      /\ queued' = queued /\ lost' = lost
  BY DEF RaiseAlarm
<1>2. u \in Users /\ thread[t] \in ThreadState
  BY <1>1 DEF IInv, TypeOK, RequestsOK, RequestOK
<1>3. row \in SessionRow /\ RowOK(row)
  <2>1. session[u] \in SessionRow /\ RowOK(session[u])
    BY <1>2 DEF IInv, TypeOK, RowsOK
  <2>2. QED
    BY <2>1 DEF SessionRow, RowOK
<1>4. /\ raises' \in [Users -> 0 .. MaxRaise]
      /\ raises'[u] = n /\ n \in 1 .. MaxRaise
      /\ \A v \in Users \ {u} : raises'[v] = raises[v]
  BY <1>1, <1>2, SafetyAssumption DEF IInv, TypeOK
<1>5. /\ flagged \in ThreadState
      /\ flagged.pc = "flagged" /\ flagged.user = u /\ flagged.raise = n
  BY <1>2, <1>4 DEF ThreadState
<1> HIDE DEF u, row, n, flagged
<1>6. thread' \in [Threads -> ThreadState]
  BY <1>1, <1>5, OutdatedThreads DEF IInv
<1>7. /\ thread'[t] = flagged
      /\ \A s \in Threads \ {t} :
           /\ thread'[s].pc = thread[s].pc /\ thread'[s].user = thread[s].user
           /\ thread'[s].raise = thread[s].raise
           /\ thread'[s].fresh => thread[s].fresh /\ thread[s].user # u
  BY <1>1, OutdatedThreads DEF IInv
<1>8. TypeOK'
  <2>1. /\ session' \in [Users -> SessionRow] /\ plan' = plan
        /\ touched' \subseteq Planned' /\ answered' \subseteq Users
    BY <1>1, <1>2, <1>3, WriteStep
  <2>2. QED
    BY <1>1, <1>4, <1>6, <2>1 DEF IInv, TypeOK
<1>9. RequestsOK'
  <2> SUFFICES ASSUME NEW s \in Threads PROVE RequestOK(thread[s])'
    BY DEF RequestsOK
  <2>1. CASE s = t
    BY <2>1, <1>2, <1>4, <1>5, <1>7, SafetyAssumption DEF RequestOK
  <2>2. CASE s # t
    <3>1. RequestOK(thread[s])
      BY DEF IInv, RequestsOK
    <3>2. thread[s].user \in Users =>
            /\ raises[thread[s].user] \in Nat /\ raises'[thread[s].user] \in Nat
            /\ raises[thread[s].user] <= raises'[thread[s].user]
      BY <1>2, <1>4, SafetyAssumption DEF IInv, TypeOK, n
    <3>3. thread[s].user \in Users /\ thread[s].user # u =>
            /\ session'[thread[s].user] = session[thread[s].user]
            /\ raises'[thread[s].user] = raises[thread[s].user]
      BY <1>1, <1>2, <1>3, <1>4, WriteStep
    <3>4. /\ thread'[s].pc = thread[s].pc /\ thread'[s].user = thread[s].user
          /\ thread'[s].raise = thread[s].raise
          /\ thread'[s].fresh => thread[s].fresh /\ thread[s].user # u
      BY <2>2, <1>7
    <3>5. QED
      BY <1>1, <3>1, <3>2, <3>3, <3>4 DEF RequestOK
  <2>3. QED
    BY <2>1, <2>2
<1>10. PlansOK'
  BY <1>1, <1>2, <1>3, <1>4, WriteKeepsPlans
<1>11. n \notin 1 .. raises[u] /\ 1 .. n = (1 .. raises[u]) \cup {n} /\ raises'[u] = n
  BY <1>2, <1>4, SafetyAssumption DEF IInv, TypeOK, n
<1>12. ASSUME NEW v \in Users
       PROVE  Inserting(v)' = Inserting(v) \cup (IF v = u THEN {n} ELSE {})
  <2>1. ASSUME NEW k
        PROVE  k \in Inserting(v)' <=> k \in Inserting(v) \/ (v = u /\ k = n)
    <3>1. k \in Inserting(v) =>
            \E s \in Threads \ {t} : /\ thread[s].pc = "flagged" /\ thread[s].user = v
                                     /\ thread[s].raise = k
      BY <1>1, Inserters
    <3>2. v = u /\ k = n => k \in Inserting(v)'
      BY <1>5, <1>7, Inserters
    <3>3. k \in Inserting(v)' => k \in Inserting(v) \/ (v = u /\ k = n)
      BY <1>5, <1>7, Inserters
    <3>4. k \in Inserting(v) => k \in Inserting(v)'
      BY <3>1, <1>7, Inserters
    <3>5. QED
      BY <3>2, <3>3, <3>4
  <2>2. QED
    BY <2>1
<1>13. AlertAccounting'
  <2> SUFFICES ASSUME NEW v \in Users
               PROVE  /\ queued'[v] \cup Inserting(v)' \cup lost'[v] = 1 .. raises'[v]
                      /\ queued'[v] \cap Inserting(v)' = {}
                      /\ lost'[v] \cap (queued'[v] \cup Inserting(v)') = {}
    BY DEF AlertAccounting
  <2>1. /\ queued[v] \cup Inserting(v) \cup lost[v] = 1 .. raises[v]
        /\ queued[v] \cap Inserting(v) = {}
        /\ lost[v] \cap (queued[v] \cup Inserting(v)) = {}
    BY DEF IInv, AlertAccounting
  <2>2. CASE v = u
    BY <2>1, <2>2, <1>1, <1>11, <1>12
  <2>3. CASE v # u
    <3>1. raises'[v] = raises[v] /\ Inserting(v)' = Inserting(v)
      BY <2>3, <1>4, <1>12
    <3>2. QED
      BY <2>1, <3>1, <1>1
  <2>4. QED
    BY <2>2, <2>3
<1>14. OneInserter'
  <2>1. ASSUME NEW s \in Threads, s # t, thread'[s].pc = "flagged", thread'[s].user = u
        PROVE  thread'[s].raise # n
    BY <2>1, <1>2, <1>7, <1>11 DEF IInv, RequestsOK, RequestOK
  <2>2. QED
    BY <2>1, <1>5, <1>7 DEF IInv, OneInserter
<1>15. QED
  BY <1>1, <1>2, <1>3, <1>8, <1>9, <1>10, <1>13, <1>14, WriteStep DEF IInv

\* The insert turns a raise that is still to be inserted into a queued one.
LEMMA InsertStep ==
  ASSUME IInv, NEW t \in Threads, InsertOutboxRow(t)
  PROVE  IInv'
<1> DEFINE u == thread[t].user
           r == thread[t].raise
           done == [thread[t] EXCEPT !.pc = "enqueued"]
<1>1. /\ thread[t].pc = "flagged"
      /\ queued' = [queued EXCEPT ![u] = @ \cup {r}]
      /\ thread' = [thread EXCEPT ![t] = done]
      /\ UNCHANGED <<session, raises, lost, plan, touched, answered>>
  BY DEF InsertOutboxRow, ReadyToInsert
<1>2. u \in Users /\ thread[t] \in ThreadState /\ r \in 1 .. raises[u]
  BY <1>1 DEF IInv, TypeOK, RequestsOK, RequestOK
<1>3. /\ done \in ThreadState /\ done.pc = "enqueued" /\ done.user = u
      /\ done.raise = r /\ done.fresh = thread[t].fresh
  BY <1>2 DEF ThreadState
<1>4. thread'[t] = done /\ \A s \in Threads \ {t} : thread'[s] = thread[s]
  BY <1>1 DEF IInv, TypeOK
<1> HIDE DEF done
<1>5. /\ queued' \in [Users -> SUBSET (1 .. MaxRaise)]
      /\ queued'[u] = queued[u] \cup {r}
      /\ \A v \in Users \ {u} : queued'[v] = queued[v]
  BY <1>1, <1>2, SafetyAssumption DEF IInv, TypeOK
<1>6. TypeOK'
  BY <1>1, <1>3, <1>5 DEF IInv, TypeOK, Planned
<1>7. RequestsOK'
  <2> SUFFICES ASSUME NEW s \in Threads PROVE RequestOK(thread[s])'
    BY DEF RequestsOK
  <2>0. RequestOK(thread[s])
    BY DEF IInv, RequestsOK
  <2>1. CASE s = t
    BY <2>0, <2>1, <1>1, <1>2, <1>3, <1>4, <1>5 DEF RequestOK
  <2>2. CASE s # t
    <3>1. thread[s].user \in Users => queued[thread[s].user] \subseteq queued'[thread[s].user]
      BY <1>5
    <3>2. QED
      BY <2>0, <2>2, <3>1, <1>1, <1>4 DEF RequestOK
  <2>3. QED
    BY <2>1, <2>2
<1>8. PlansOK' /\ RowsOK'
  BY <1>1 DEF IInv, PlansOK, PlanOK, RowsOK
<1>9. /\ Inserting(u)' = Inserting(u) \ {r} /\ r \in Inserting(u)
      /\ \A v \in Users : v # u => Inserting(v)' = Inserting(v)
  <2>1. r \in Inserting(u) /\ \A v \in Users : v # u => Inserting(v)' = Inserting(v)
    BY <1>1, <1>3, <1>4 DEF Inserting
  <2>2. \A s \in Threads : s # t /\ thread[s].pc = "flagged" /\ thread[s].user = u
                           => thread[s].raise # r
    BY <1>1 DEF IInv, OneInserter
  <2>3. QED
    BY <2>1, <2>2, <1>3, <1>4 DEF Inserting
<1>10. AlertAccounting' /\ OneInserter'
  BY <1>1, <1>3, <1>4, <1>5, <1>9 DEF IInv, AlertAccounting, OneInserter
<1>11. QED
  BY <1>6, <1>7, <1>8, <1>10 DEF IInv

\* The last commit of a request: nobody wrote the row since it was flagged.
LEMMA EnterDangerStep ==
  ASSUME IInv, NEW t \in Threads, EnterDanger(t)
  PROVE  IInv'
<1> DEFINE u == thread[t].user
           row == [session[u] EXCEPT !.status = "IN_DANGER"]
<1>1. /\ thread[t].pc = "enqueued"
      /\ CanMove(session[u].status, "IN_DANGER")
      /\ Write(u, row)
      /\ thread' = [Outdated({u}) EXCEPT ![t] = Idle]
      /\ raises' = raises /\ queued' = queued /\ lost' = lost
  BY DEF EnterDanger, ReadyForDanger
<1>2. u \in Users
  BY <1>1 DEF IInv, RequestsOK, RequestOK
<1>3. row \in SessionRow /\ RowOK(row)
  <2>1. session[u] \in SessionRow /\ RowOK(session[u])
    BY <1>2 DEF IInv, TypeOK, RowsOK
  <2>2. QED
    BY <1>1, <2>1, DangerRow
<1> HIDE DEF u, row
<1>4. Idle \in ThreadState /\ Idle.pc = "idle"
  BY SafetyAssumption DEF Idle, ThreadState
<1>5. /\ thread'[t] = Idle
      /\ \A s \in Threads \ {t} :
           /\ thread'[s].pc = thread[s].pc /\ thread'[s].user = thread[s].user
           /\ thread'[s].raise = thread[s].raise
           /\ thread'[s].fresh => thread[s].fresh /\ thread[s].user # u
  BY <1>1, OutdatedThreads DEF IInv
<1>6. TypeOK'
  <2>1. thread' \in [Threads -> ThreadState]
    BY <1>1, <1>4, OutdatedThreads DEF IInv
  <2>2. QED
    BY <1>1, <1>2, <1>3, <2>1, WriteStep DEF IInv, TypeOK
<1>7. RequestsOK'
  <2> SUFFICES ASSUME NEW s \in Threads PROVE RequestOK(thread[s])'
    BY DEF RequestsOK
  <2>1. CASE s = t
    BY <2>1, <1>4, <1>5 DEF RequestOK
  <2>2. CASE s # t
    <3>1. RequestOK(thread[s])
      BY DEF IInv, RequestsOK
    <3>2. /\ thread'[s].pc = thread[s].pc /\ thread'[s].user = thread[s].user
          /\ thread'[s].raise = thread[s].raise
          /\ thread'[s].fresh => thread[s].fresh /\ thread[s].user # u
      BY <2>2, <1>5
    <3>3. thread[s].user \in Users /\ thread[s].user # u =>
            session'[thread[s].user] = session[thread[s].user]
      BY <1>1, <1>2, <1>3, WriteStep
    <3>4. raises' = raises /\ queued' = queued
      BY <1>1
    <3>5. QED
      BY <3>1, <3>2, <3>3, <3>4 DEF RequestOK
  <2>3. QED
    BY <2>1, <2>2
<1>8. PlansOK'
  BY <1>1, <1>2, <1>3, WriteKeepsPlans
<1>9. AlertAccounting' /\ OneInserter'
  BY <1>1, <1>4, <1>5, QuietStep
<1>10. QED
  BY <1>1, <1>2, <1>3, <1>6, <1>7, <1>8, <1>9, WriteStep DEF IInv

\* A conflict or a refused transition leaves nothing to account for: it never
\* ends a request between the commit of the flag and the insert.
LEMMA AbandonStep ==
  ASSUME IInv, NEW t \in Threads, AbandonRequest(t)
  PROVE  IInv'
<1>1. /\ thread[t].pc \in {"located", "enqueued"}
      /\ thread' = [thread EXCEPT ![t] = Idle]
      /\ UNCHANGED <<session, raises, queued, lost, plan, touched, answered>>
  BY DEF AbandonRequest, Fails
<1>2. Idle \in ThreadState /\ Idle.pc = "idle"
  BY SafetyAssumption DEF Idle, ThreadState
<1>3. thread'[t] = Idle /\ \A s \in Threads \ {t} : thread'[s] = thread[s]
  BY <1>1 DEF IInv, TypeOK
<1>4. TypeOK' /\ RowsOK' /\ PlansOK'
  BY <1>1, <1>2 DEF IInv, TypeOK, RowsOK, PlansOK, PlanOK, Planned
<1>5. RequestsOK'
  BY <1>1, <1>2, <1>3 DEF IInv, RequestsOK, RequestOK
<1>6. AlertAccounting' /\ OneInserter'
  BY <1>1, <1>2, <1>3, QuietStep
<1>7. QED
  BY <1>4, <1>5, <1>6 DEF IInv

\* A statement that fails in the database ends the request; if it was the
\* insert, the alarm passes from those about to be inserted to the lost ones.
LEMMA RequestFailsStep ==
  ASSUME IInv, NEW t \in Threads, RequestFails(t)
  PROVE  IInv'
<1> DEFINE u == thread[t].user
           r == thread[t].raise
<1>1. /\ thread[t] # Idle
      /\ thread' = [thread EXCEPT ![t] = Idle]
      /\ lost' = IF thread[t].pc = "flagged" THEN [lost EXCEPT ![u] = @ \cup {r}] ELSE lost
      /\ UNCHANGED <<session, raises, queued, plan, touched, answered>>
  BY DEF RequestFails
<1>2. Idle \in ThreadState /\ Idle.pc = "idle"
  BY SafetyAssumption DEF Idle, ThreadState
<1>3. thread'[t] = Idle /\ \A s \in Threads \ {t} : thread'[s] = thread[s]
  BY <1>1 DEF IInv, TypeOK
<1>4. thread[t].pc = "flagged" => u \in Users /\ r \in 1 .. raises[u] /\ r \in 1 .. MaxRaise
  BY SafetyAssumption DEF IInv, TypeOK, RequestsOK, RequestOK
<1>5. lost' \in [Users -> SUBSET (1 .. MaxRaise)]
  BY <1>1, <1>4 DEF IInv, TypeOK
<1>6. TypeOK' /\ RowsOK' /\ PlansOK'
  BY <1>1, <1>2, <1>5 DEF IInv, TypeOK, RowsOK, PlansOK, PlanOK, Planned
<1>7. RequestsOK'
  BY <1>1, <1>2, <1>3 DEF IInv, RequestsOK, RequestOK
<1>8. AlertAccounting' /\ OneInserter'
  <2>1. CASE thread[t].pc # "flagged"
    BY <2>1, <1>1, <1>2, <1>3, QuietStep
  <2>2. CASE thread[t].pc = "flagged"
    <3>1. /\ lost'[u] = lost[u] \cup {r}
          /\ \A v \in Users : v # u => lost'[v] = lost[v]
      BY <2>2, <1>1, <1>4 DEF IInv, TypeOK
    <3>2. \A s \in Threads : s # t /\ thread[s].pc = "flagged" /\ thread[s].user = u
                             => thread[s].raise # r
      BY <2>2 DEF IInv, OneInserter
    <3>3. ASSUME NEW v \in Users
          PROVE  /\ Inserting(v)' = Inserting(v) \ (IF v = u THEN {r} ELSE {})
                 /\ v = u => r \in Inserting(v)
      <4>1. ASSUME NEW k
            PROVE  k \in Inserting(v)' <=> k \in Inserting(v) /\ ~(v = u /\ k = r)
        <5>1. k \in Inserting(v)' => k \in Inserting(v)
          BY <1>2, <1>3, Inserters
        <5>2. k \in Inserting(v)' => ~(v = u /\ k = r)
          BY <3>2, <1>2, <1>3, Inserters
        <5>3. k \in Inserting(v) /\ ~(v = u /\ k = r) => k \in Inserting(v)'
          BY <1>3, Inserters
        <5>4. QED
          BY <5>1, <5>2, <5>3
      <4>2. v = u => r \in Inserting(v)
        BY <2>2 DEF Inserting
      <4>3. QED
        BY <4>1, <4>2
    <3>4. AlertAccounting'
      <4> SUFFICES ASSUME NEW v \in Users
                   PROVE  /\ queued'[v] \cup Inserting(v)' \cup lost'[v] = 1 .. raises'[v]
                          /\ queued'[v] \cap Inserting(v)' = {}
                          /\ lost'[v] \cap (queued'[v] \cup Inserting(v)') = {}
        BY DEF AlertAccounting
      <4>1. /\ queued[v] \cup Inserting(v) \cup lost[v] = 1 .. raises[v]
            /\ queued[v] \cap Inserting(v) = {}
            /\ lost[v] \cap (queued[v] \cup Inserting(v)) = {}
        BY DEF IInv, AlertAccounting
      <4>2. CASE v = u
        BY <4>1, <4>2, <1>1, <3>1, <3>3
      <4>3. CASE v # u
        BY <4>1, <4>3, <1>1, <3>1, <3>3
      <4>4. QED
        BY <4>2, <4>3
    <3>5. OneInserter'
      BY <1>2, <1>3 DEF IInv, OneInserter
    <3>6. QED
      BY <3>4, <3>5
  <2>3. QED
    BY <2>1, <2>2
<1>9. QED
  BY <1>6, <1>7, <1>8 DEF IInv

\* Every later step of a request keeps the invariant.
LEMMA RequestStepStep ==
  ASSUME IInv, NEW t \in Threads, RequestStep(t)
  PROVE  IInv'
BY RaiseAlarmStep, InsertStep, EnterDangerStep, AbandonStep DEF RequestStep

--------------------------------------------------------------------------------
(* Time.                                                                    *)

\* A row that gets older, outside of any commit: a plan stays good because
\* what is stale stays stale, and what is expired stays expired.
LEMMA AgeStep ==
  ASSUME IInv, NEW u \in Users, NEW row \in SessionRow, Age(u, row),
         row.status = session[u].status,
         row.emergencyTriggered = session[u].emergencyTriggered,
         row.confirmation = session[u].confirmation,
         session[u].warning # "none" => row.warning # "none",
         session[u].warning = "expired" => row.warning = "expired",
         row.autoResume # "none" => session[u].autoResume # "none"
  PROVE  IInv'
<1>1. /\ session' \in [Users -> SessionRow] /\ session'[u] = row
      /\ \A v \in Users \ {u} : session'[v] = session[v]
      /\ UNCHANGED <<raises, queued, lost, thread, plan, touched, answered>>
  BY DEF Age, IInv, TypeOK
<1>2. TypeOK' /\ AlertAccounting' /\ OneInserter'
  BY <1>1, QuietStep DEF IInv, TypeOK, Planned
<1>3. RowsOK'
  BY <1>1 DEF IInv, RowsOK, RowOK
<1>4. RequestsOK'
  BY <1>1 DEF IInv, RequestsOK, RequestOK
<1>5. PlansOK'
  BY <1>1 DEF IInv, PlansOK, PlanOK
<1>6. QED
  BY <1>2, <1>3, <1>4, <1>5 DEF IInv

\* The aging of each time stamp keeps the invariant.
LEMMA TimeStep ==
  ASSUME IInv, NEW u \in Users, Time(u)
  PROVE  IInv'
<1> DEFINE old == session[u]
<1>0. old \in SessionRow
  BY DEF IInv, TypeOK
<1>1. CASE PingAges(u)
  <2> DEFINE row == [old EXCEPT !.ping = Older.ping[@]]
  <2>1. Age(u, row) /\ row \in SessionRow
    BY <1>0, <1>1 DEF PingAges, SessionRow, Older
  <2>2. QED
    BY <1>0, <2>1, AgeStep DEF SessionRow
<1>2. CASE BluetoothAges(u)
  <2> DEFINE row == [old EXCEPT !.bluetooth = Older.bluetooth[@]]
  <2>1. Age(u, row) /\ row \in SessionRow
    BY <1>0, <1>2 DEF BluetoothAges, SessionRow, Older
  <2>2. QED
    BY <1>0, <2>1, AgeStep DEF SessionRow
<1>3. CASE WarningAges(u)
  <2> DEFINE row == [old EXCEPT !.warning = Older.warning[@]]
  <2>1. Age(u, row) /\ row \in SessionRow
    BY <1>0, <1>3 DEF WarningAges, SessionRow, Older
  <2>2. /\ old.warning # "none" => row.warning # "none"
        /\ old.warning = "expired" => row.warning = "expired"
    BY <1>0 DEF SessionRow, Older
  <2>3. QED
    BY <1>0, <2>1, <2>2, AgeStep DEF SessionRow
<1>4. CASE PauseAges(u)
  <2> DEFINE row == [old EXCEPT !.autoResume = Older.autoResume[@]]
  <2>1. Age(u, row) /\ row \in SessionRow
    BY <1>0, <1>4 DEF PauseAges, SessionRow, Older
  <2>2. row.autoResume # "none" => old.autoResume # "none"
    BY <1>0 DEF SessionRow, Older
  <2>3. QED
    BY <1>0, <2>1, <2>2, AgeStep DEF SessionRow
<1>5. QED
  BY <1>1, <1>2, <1>3, <1>4 DEF Time

--------------------------------------------------------------------------------
(* The sweep.                                                               *)

\* The plan of a well-formed row: a rule it may apply, under that rule's
\* condition. The rules of lost pauses and of confirmed warnings never apply.
LEMMA GoodPlan ==
  ASSUME IInv, NEW u \in Users
  PROVE  /\ PlanFor(u) \in Rules \cup {"NOTHING"}
         /\ PlanFor(u) = "WARN" => session[u].status = "ACTIVE"
         /\ PlanFor(u) = "AUTO_RESUME" => session[u].status = "PAUSED_MANUAL"
         /\ PlanFor(u) # "RECOVER"
         /\ PlanFor(u) = "NO_RESPONSE" => /\ session[u].status = "WARNING"
                                          /\ session[u].warning = "expired"
                                          /\ ~session[u].emergencyTriggered
                                          /\ raises[u] < MaxRaise
<1> DEFINE row == session[u]
<1>1. row \in SessionRow /\ RowOK(row) /\ raises[u] \in 0 .. MaxRaise
  BY DEF IInv, TypeOK, RowsOK
<1>2. /\ RuleFor(row) \in Rules \cup {"NOTHING"}
      /\ RuleFor(row) = "WARN" => row.status \in {"ACTIVE", "PAUSED_MANUAL", "PAUSED_OFF_BODY"}
      /\ RuleFor(row) = "AUTO_RESUME" => row.status \in Watched /\ row.autoResume = "due"
      /\ RuleFor(row) = "RECOVER" => row.status = "WARNING" /\ row.confirmation = "SAFE_CONFIRMED"
      /\ RuleFor(row) = "NO_RESPONSE" => /\ row.status = "WARNING" /\ row.warning = "expired"
                                         /\ ~row.emergencyTriggered
  <2> HIDE DEF row
  <2>1. QED
    BY DEF RuleFor, Rules, Watched, Paused
<1>3. PlanFor(u) # "NOTHING" => /\ PlanFor(u) = RuleFor(row)
                                /\ CanMove(row.status, RuleTarget[RuleFor(row)])
                                /\ RuleFor(row) = "NO_RESPONSE" => raises[u] # MaxRaise
  BY DEF PlanFor
<1>4. PlanFor(u) = "WARN" => row.status \in {"ACTIVE", "SOFT_MONITORING"}
  BY <1>3, Moves DEF RuleTarget
<1>5. PlanFor(u) = "NO_RESPONSE" => raises[u] < MaxRaise
  BY <1>1, <1>3, SafetyAssumption
<1>6. PlanFor(u) = "AUTO_RESUME" => row.status = "PAUSED_MANUAL"
  BY <1>1, <1>2, <1>3 DEF RowOK, Watched
<1>7. PlanFor(u) # "RECOVER"
  BY <1>1, <1>2, <1>3 DEF RowOK
<1>8. PlanFor(u) \in Rules \cup {"NOTHING"}
  BY <1>2, <1>3
<1>9. QED
  BY <1>2, <1>3, <1>4, <1>5, <1>6, <1>7, <1>8

\* The sweep reads: no row of its plan is overtaken yet.
LEMMA SweepReadStep ==
  ASSUME IInv, SweepRead
  PROVE  IInv'
<1>1. /\ plan' = [u \in Users |-> PlanFor(u)]
      /\ touched = {}
      /\ UNCHANGED <<session, raises, queued, lost, thread, touched, answered>>
  BY DEF SweepRead, IInv, TypeOK
<1>2. TypeOK'
  BY <1>1, GoodPlan DEF IInv, TypeOK
<1>3. PlansOK'
  BY <1>1, GoodPlan DEF PlansOK, PlanOK
<1>4. RowsOK' /\ RequestsOK' /\ AlertAccounting' /\ OneInserter'
  BY <1>1, QuietStep DEF IInv, RowsOK, RequestsOK, RequestOK
<1>5. QED
  BY <1>2, <1>3, <1>4 DEF IInv

\* Giving up the sweep's plan.
LEMMA NoPlanOK ==
  ASSUME plan' = NoPlan
  PROVE  PlansOK' /\ plan' \in [Users -> Rules \cup {"NOTHING"}]
BY DEF NoPlan, PlansOK, PlanOK

\* The rollback of the sweep keeps the invariant.
LEMMA SweepRollbackStep ==
  ASSUME IInv, SweepRollback
  PROVE  IInv'
<1>1. /\ plan' = NoPlan /\ touched' = {}
      /\ UNCHANGED <<session, raises, queued, lost, thread, answered>>
  BY DEF SweepRollback
<1>2. TypeOK'
  BY <1>1, NoPlanOK DEF IInv, TypeOK
<1>3. RowsOK' /\ RequestsOK' /\ AlertAccounting' /\ OneInserter'
  BY <1>1, QuietStep DEF IInv, RowsOK, RequestsOK, RequestOK
<1>4. QED
  BY <1>1, <1>2, <1>3, NoPlanOK DEF IInv

\* What the rules make of the rows of a plan nobody overtook.
LEMMA RuleKeepsRow ==
  ASSUME IInv, touched = {}, NEW u \in Users
  PROVE  /\ AfterRule(session[u], plan[u]) \in SessionRow
         /\ RowOK(AfterRule(session[u], plan[u]))
         /\ plan[u] = "NOTHING" => AfterRule(session[u], plan[u]) = session[u]
<1> DEFINE row == session[u]
<1>1. /\ row \in SessionRow /\ RowOK(row) /\ PlanOK(u)
      /\ plan[u] \in Rules \cup {"NOTHING"}
  BY DEF IInv, TypeOK, RowsOK, PlansOK
<1>2. /\ plan[u] = "WARN" => row.status = "ACTIVE"
      /\ plan[u] = "NO_RESPONSE" => row.status = "WARNING"
      /\ plan[u] # "RECOVER"
  BY <1>1 DEF PlanOK
<1> HIDE DEF row
<1>3. CASE plan[u] = "AUTO_RESUME"
  BY <1>1, <1>3 DEF AfterRule, SessionRow, RowOK, Status, row
<1>4. CASE plan[u] = "WARN"
  BY <1>1, <1>2, <1>4 DEF AfterRule, SessionRow, RowOK, Status, row
<1>5. CASE plan[u] = "NO_RESPONSE"
  BY <1>1, <1>2, <1>5 DEF AfterRule, SessionRow, RowOK, Status, row
<1>6. CASE plan[u] = "NOTHING"
  BY <1>1, <1>6 DEF AfterRule, row
<1>7. QED
  BY <1>1, <1>2, <1>3, <1>4, <1>5, <1>6 DEF Rules

\* The sweep commits only if nobody wrote a row it changes: each alarm it
\* raises gets the next number of its user, with its outbox row.
LEMMA SweepCommitStep ==
  ASSUME IInv, SweepCommit
  PROVE  IInv'
<1>1. /\ touched = {}
      /\ session' = [u \in Users |-> AfterRule(session[u], plan[u])]
      /\ raises' = [u \in Users |-> IF u \in Alarmed THEN raises[u] + 1 ELSE raises[u]]
      /\ queued' = [u \in Users |-> IF u \in Alarmed THEN queued[u] \cup {raises[u] + 1}
                                                     ELSE queued[u]]
      /\ thread' = Outdated(Planned)
      /\ answered' = answered \ Planned
      /\ plan' = NoPlan /\ touched' = {} /\ lost' = lost
  BY DEF SweepCommit, NothingTouched
<1>2. \A u \in Users : /\ session'[u] \in SessionRow /\ RowOK(session'[u])
                       /\ u \notin Planned => session'[u] = session[u]
  BY <1>1, RuleKeepsRow DEF Planned
<1>3. ASSUME NEW u \in Users
      PROVE  /\ raises[u] \in 0 .. MaxRaise /\ raises[u] \in Nat
             /\ u \in Alarmed => raises[u] < MaxRaise /\ u \in Planned
             /\ raises'[u] \in 0 .. MaxRaise /\ raises'[u] \in Nat
             /\ queued'[u] \subseteq 1 .. MaxRaise
             /\ u \in Alarmed => raises'[u] = raises[u] + 1 /\ queued'[u] = queued[u] \cup {raises[u] + 1}
             /\ u \notin Alarmed => raises'[u] = raises[u] /\ queued'[u] = queued[u]
  <2>1. raises[u] \in 0 .. MaxRaise /\ queued[u] \subseteq 1 .. MaxRaise
    BY DEF IInv, TypeOK
  <2>2. u \in Alarmed => raises[u] < MaxRaise /\ u \in Planned
    BY <1>1 DEF IInv, PlansOK, PlanOK, Alarmed, Planned
  <2>3. /\ u \in Alarmed => raises'[u] = raises[u] + 1 /\ queued'[u] = queued[u] \cup {raises[u] + 1}
        /\ u \notin Alarmed => raises'[u] = raises[u] /\ queued'[u] = queued[u]
    BY <1>1
  <2>4. QED
    BY <2>1, <2>2, <2>3, SafetyAssumption
<1>4. TypeOK'
  <2>1. session' \in [Users -> SessionRow]
    BY <1>1, <1>2
  <2>2. raises' \in [Users -> 0 .. MaxRaise] /\ queued' \in [Users -> SUBSET (1 .. MaxRaise)]
    BY <1>1, <1>3
  <2>3. thread' \in [Threads -> ThreadState]
    BY <1>1, OutdatedThreads DEF IInv
  <2>4. plan' \in [Users -> Rules \cup {"NOTHING"}] /\ touched' \subseteq Planned'
        /\ answered' \subseteq Users
    BY <1>1, NoPlanOK DEF IInv, TypeOK
  <2>5. QED
    BY <2>1, <2>2, <2>3, <2>4, <1>1 DEF IInv, TypeOK
<1>5. RequestsOK'
  <2> SUFFICES ASSUME NEW t \in Threads PROVE RequestOK(thread[t])'
    BY DEF RequestsOK
  <2>1. RequestOK(thread[t])
    BY DEF IInv, RequestsOK
  <2>2. /\ thread'[t].pc = thread[t].pc /\ thread'[t].user = thread[t].user
        /\ thread'[t].raise = thread[t].raise
        /\ thread'[t].fresh => thread[t].fresh /\ thread[t].user \notin Planned
    BY <1>1, OutdatedThreads DEF IInv
  <2>3. thread[t].user \in Users =>
          /\ raises[thread[t].user] \in Nat /\ raises'[thread[t].user] \in Nat
          /\ raises[thread[t].user] <= raises'[thread[t].user]
          /\ queued[thread[t].user] \subseteq queued'[thread[t].user]
    BY <1>3
  <2>4. thread[t].user \in Users \ Planned =>
          /\ session'[thread[t].user] = session[thread[t].user]
          /\ raises'[thread[t].user] = raises[thread[t].user]
    BY <1>2, <1>3
  <2>5. QED
    BY <2>1, <2>2, <2>3, <2>4 DEF RequestOK
<1>6. AlertAccounting' /\ OneInserter'
  <2>1. (\A v \in Users : Inserting(v)' = Inserting(v)) /\ OneInserter'
    BY <1>1, OutdatedInserters
  <2>2. ASSUME NEW v \in Alarmed
        PROVE  /\ raises'[v] \notin 1 .. raises[v]
               /\ 1 .. raises'[v] = (1 .. raises[v]) \cup {raises'[v]}
    BY <1>3 DEF Alarmed
  <2>3. QED
    BY <2>1, <2>2, <1>1, <1>3 DEF IInv, AlertAccounting
<1>7. RowsOK' /\ PlansOK'
  BY <1>1, <1>2, NoPlanOK DEF RowsOK
<1>8. QED
  BY <1>4, <1>5, <1>6, <1>7 DEF IInv

\* A crash forgets requests and plan: the alarms about to be inserted are lost.
LEMMA CrashStep ==
  ASSUME IInv, Crash
  PROVE  IInv'
<1>1. /\ plan' = NoPlan /\ touched' = {}
      /\ thread' = [t \in Threads |-> Idle]
      /\ lost' = [u \in Users |-> lost[u] \cup Inserting(u)]
      /\ UNCHANGED <<session, raises, queued, answered>>
  BY DEF Crash
<1>2. Idle \in ThreadState /\ Idle.pc = "idle"
  BY SafetyAssumption DEF Idle, ThreadState
<1>3. \A u \in Users : Inserting(u) \subseteq 1 .. MaxRaise
  BY SafetyAssumption DEF IInv, TypeOK, RequestsOK, RequestOK, Inserting
<1>4. TypeOK'
  BY <1>1, <1>2, <1>3, NoPlanOK DEF IInv, TypeOK
<1>5. RowsOK' /\ RequestsOK' /\ OneInserter'
  BY <1>1, <1>2 DEF IInv, RowsOK, RequestsOK, RequestOK, OneInserter
<1>6. \A u \in Users : Inserting(u)' = {}
  BY <1>1, <1>2 DEF Inserting
<1>7. AlertAccounting'
  BY <1>1, <1>6 DEF IInv, AlertAccounting
<1>8. QED
  BY <1>1, <1>4, <1>5, <1>7, NoPlanOK DEF IInv

--------------------------------------------------------------------------------
(* The inductive invariant.                                                 *)

\* The invariant holds initially.
LEMMA InitIInv == Init => IInv
<1> SUFFICES ASSUME Init PROVE IInv
  OBVIOUS
<1>1. \A u \in Users : session[u] \in SessionRow /\ RowOK(session[u])
  BY CreatedRows DEF Init
<1>2. Idle \in ThreadState /\ Idle.pc = "idle"
  BY SafetyAssumption DEF Idle, ThreadState
<1>3. TypeOK
  BY <1>1, <1>2, SafetyAssumption DEF Init, TypeOK, NoPlan
<1>4. RowsOK /\ RequestsOK /\ PlansOK
  BY <1>1, <1>2 DEF Init, RowsOK, RequestsOK, RequestOK, PlansOK, PlanOK, NoPlan
<1>5. AlertAccounting /\ OneInserter
  BY <1>2 DEF Init, AlertAccounting, OneInserter, Inserting
<1>6. QED
  BY <1>3, <1>4, <1>5 DEF IInv

\* Every step keeps the invariant.
LEMMA NextIInv == IInv /\ [Next]_vars => IInv'
<1> SUFFICES ASSUME IInv, [Next]_vars PROVE IInv'
  OBVIOUS
<1>1. ASSUME NEW u \in Users, ProtectionCall(u) PROVE IInv'
  BY <1>1, ProtectionStep
<1>2. ASSUME NEW u \in Users, Time(u) PROVE IInv'
  BY <1>2, TimeStep
<1>3. ASSUME NEW t \in Threads, RequestStep(t) PROVE IInv'
  BY <1>3, RequestStepStep
<1>4. ASSUME NEW t \in Threads, NEW u \in Users, SosRequest(t, u) PROVE IInv'
  BY <1>4, SosRequestStep
<1>5. CASE SweepRead \/ SweepCommit \/ SweepRollback
  BY <1>5, SweepReadStep, SweepCommitStep, SweepRollbackStep
<1>6. CASE Crash
  BY <1>6, CrashStep
<1>7. CASE UNCHANGED vars
  BY <1>7, QuietStep DEF vars, IInv, TypeOK, RowsOK, RequestsOK, RequestOK, PlansOK,
                         PlanOK, Planned
<1>8. ASSUME NEW t \in Threads, RequestFails(t) PROVE IInv'
  BY <1>8, RequestFailsStep
<1>9. QED
  BY <1>1, <1>2, <1>3, <1>4, <1>5, <1>6, <1>7, <1>8 DEF Next

\* The strengthened invariant holds in every behaviour.
THEOREM Inductive == Spec => []IInv
BY InitIInv, NextIInv, PTL DEF Spec

\* Every variable keeps its type.
THEOREM TypeCorrect == Spec => []TypeOK
<1>1. IInv => TypeOK
  BY DEF IInv
<1>2. QED
  BY <1>1, Inductive, PTL

\* Every alarm raised has its outbox row, or one request is about to insert it,
\* or it went with an insert that failed or was prevented by a kill; it is never
\* two of these, and no outbox row stands for an alarm nobody raised.
THEOREM EveryAlarmAccounted == Spec => []AlertAccounting
<1>1. IInv => AlertAccounting
  BY DEF IInv
<1>2. QED
  BY <1>1, Inductive, PTL

\* A session under WARNING can always be escalated by rule 5.
THEOREM WarningStaysArmed == Spec => []WarningIsArmed
<1>1. IInv => WarningIsArmed
  BY DEF IInv, RowsOK, RowOK, WarningIsArmed
<1>2. QED
  BY <1>1, Inductive, PTL

\* A watched session that is not paused by its user has no autoResumeAt that
\* would make rule 1 shadow the others.
THEOREM TimerOnlyWhenPaused == Spec => []AutoResumeOnlyWhenPaused
<1>1. IInv => AutoResumeOnlyWhenPaused
  BY DEF IInv, RowsOK, RowOK, AutoResumeOnlyWhenPaused
<1>2. QED
  BY <1>1, Inductive, PTL
================================================================================
