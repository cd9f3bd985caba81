--------------------------- MODULE SafetySessionSteps ---------------------------
(***************************************************************************)
(* Proofs of the action properties of SafetySession: what a single step    *)
(* may never do to a session, in any behaviour.                            *)
(*                                                                         *)
(* The steps that decide on an earlier copy of a row (the last commits of  *)
(* an SOS request, the commit of the sweep) are covered by what IInv says  *)
(* of the row they hold. The steps that raise an alarm also need Known: a  *)
(* user without a row has no alarm, and requests only work on rows that    *)
(* exist. That the module implements AlarmPromise needs Owned: a request   *)
(* that nobody overtook still has its alarm standing, and an alarm that is *)
(* to be queued is queued by one request and not queued yet.               *)
(***************************************************************************)
EXTENDS SafetySessionProofs

Known ==
  /\ \A u \in Users : ~Exists(u) => ~session[u].emergencyTriggered
  /\ \A u \in Paired : Exists(u)
  /\ \A t \in Threads : thread[t].pc # "idle" => Exists(thread[t].user)

Owned ==
  /\ \A t \in Threads : thread[t].pc \in {"flagged", "enqueued"} /\ thread[t].fresh =>
       session[thread[t].user].emergencyTriggered
  /\ \A t \in Threads : thread[t].pc = "flagged" => thread[t].raise \notin queued[thread[t].user]
  /\ \A s, t \in Threads :
       /\ thread[s].pc = "flagged" /\ thread[t].pc = "flagged"
       /\ thread[s].user = thread[t].user /\ thread[s].raise = thread[t].raise
       => s = t

(* The four action properties, for one user.                                *)

MoveAllowed(u) ==
  Exists(u) /\ session'[u].status # session[u].status =>
    CanMove(session[u].status, session'[u].status)

RaiseAllowed(u) ==
  raises'[u] # raises[u] =>
    ~session[u].emergencyTriggered /\ session'[u].emergencyTriggered

DangerAllowed(u) ==
  session[u].status # "IN_DANGER" /\ session'[u].status = "IN_DANGER" =>
    raises'[u] \in queued'[u]

NoResponseAllowed(u) ==
  session'[u].confirmation = "NO_RESPONSE" /\ session[u].confirmation # "NO_RESPONSE" =>
    /\ session[u].status = "WARNING"
    /\ session[u].warning = "expired"
    /\ ~session[u].emergencyTriggered

Allowed(u) ==
  /\ MoveAllowed(u) /\ RaiseAllowed(u) /\ DangerAllowed(u) /\ NoResponseAllowed(u)
  /\ Promise!Step(u)

\* What every step does: it is allowed for each user and keeps Known and Owned.
StepOK == Known' /\ Owned' /\ \A u \in Users : Allowed(u)

--------------------------------------------------------------------------------
(* The steps of AlarmPromise in terms of the rows.                          *)

\* AlarmPromise speaks of the same table.
LEMMA SameTable ==
  /\ Promise!NoSession = NoSession
  /\ \A from, to : Promise!CanMove(from, to) <=> CanMove(from, to)
BY DEF CanMove, AllowedTransitions, Status, NoSession,
       Promise!CanMove, Promise!AllowedTransitions, Promise!Status, Promise!NoSession

LEMMA MovePromised ==
  ASSUME NEW u \in Users,
         \/ session'[u].status = session[u].status
         \/ /\ session'[u].status # "IN_DANGER"
            /\ \/ session'[u].status = Promise!Begun(session[u].status)
               \/ CanMove(Promise!Begun(session[u].status), session'[u].status),
         session'[u].emergencyTriggered => session[u].emergencyTriggered,
         raises'[u] = raises[u], queued'[u] = queued[u]
  PROVE  Promise!Step(u)
BY SameTable DEF Promise!Step, Promise!Move

LEMMA RaisePromised ==
  ASSUME NEW u \in Users, Exists(u), session'[u].status = session[u].status,
         ~session[u].emergencyTriggered, session'[u].emergencyTriggered,
         raises'[u] = raises[u] + 1, queued'[u] = queued[u]
  PROVE  Promise!Step(u)
BY SameTable DEF Promise!Step, Promise!Raise, Exists

LEMMA QueuePromised ==
  ASSUME NEW u \in Users, session'[u] = session[u], raises'[u] = raises[u],
         NEW n \in (1 .. raises[u]) \ queued[u], queued'[u] = queued[u] \cup {n}
  PROVE  Promise!Step(u)
BY DEF Promise!Step, Promise!Queue

LEMMA DangerPromised ==
  ASSUME NEW u \in Users, CanMove(session[u].status, "IN_DANGER"),
         session'[u].status = "IN_DANGER",
         session[u].emergencyTriggered,
         session'[u].emergencyTriggered = session[u].emergencyTriggered,
         raises[u] \in queued[u], raises'[u] = raises[u], queued'[u] = queued[u]
  PROVE  Promise!Step(u)
BY SameTable DEF Promise!Step, Promise!EnterDanger

LEMMA AlarmPromised ==
  ASSUME NEW u \in Users, CanMove(Promise!Begun(session[u].status), "IN_DANGER"),
         session'[u].status = "IN_DANGER",
         ~session[u].emergencyTriggered, session'[u].emergencyTriggered,
         raises'[u] = raises[u] + 1, queued'[u] = queued[u] \cup {raises[u] + 1}
  PROVE  Promise!Step(u)
BY SameTable DEF Promise!Step, Promise!RaiseAtOnce

\* A step keeps Owned if it queues no old number, lets no request come to its
\* alarm, and outdates every request whose row it writes.
LEMMA OwnedKept ==
  ASSUME IInv, Owned,
         \A u \in Users : queued'[u] \subseteq queued[u] \cup {raises[u] + 1},
         \A t \in Threads : thread'[t].pc \in {"flagged", "enqueued"} =>
           /\ thread'[t].pc = thread[t].pc
           /\ thread'[t].user = thread[t].user /\ thread'[t].raise = thread[t].raise
           /\ thread'[t].fresh =>
                /\ thread[t].fresh
                /\ session'[thread[t].user].emergencyTriggered
                     = session[thread[t].user].emergencyTriggered
  PROVE  Owned'
<1>1. \A t \in Threads : thread[t].pc = "flagged" =>
        /\ thread[t].user \in Users
        /\ raises[thread[t].user] \in Nat /\ thread[t].raise \in 1 .. raises[thread[t].user]
  BY SafetyAssumption DEF IInv, TypeOK, RequestsOK, RequestOK
<1>2. \A t \in Threads : thread'[t].pc = "flagged" => thread'[t].raise \notin queued'[thread'[t].user]
  BY <1>1 DEF Owned
<1>3. QED
  BY <1>2 DEF Owned

--------------------------------------------------------------------------------
(* Commits of one row.                                                      *)

\* A row that a handler which raises no alarm may commit over an old one.
Successor(old, row) ==
  /\ row \in SessionRow /\ row.status # NoSession
  /\ \/ row.status = Promise!Begun(old.status)
     \/ CanMove(Promise!Begun(old.status), row.status)
  /\ row.status = "IN_DANGER" => old.status = "IN_DANGER"
  /\ row.emergencyTriggered => old.emergencyTriggered
  /\ row.confirmation = "NO_RESPONSE" => old.confirmation = "NO_RESPONSE"

\* A move of the table is one of AlarmPromise, the first row included.
LEMMA BegunMoves ==
  ASSUME NEW from, NEW to, to # NoSession, from = to \/ CanMove(from, to)
  PROVE  to = Promise!Begun(from) \/ CanMove(Promise!Begun(from), to)
<1>1. CASE from = NoSession
  BY <1>1, SameTable DEF CanMove, Status, NoSession, Promise!Begun
<1>2. CASE from # NoSession
  BY <1>2, SameTable DEF Promise!Begun
<1>3. QED
  BY <1>1, <1>2

\* A user whose row does not change is left alone.
LEMMA SameRow ==
  ASSUME NEW u \in Users, session'[u] = session[u], raises'[u] = raises[u],
         queued'[u] = queued[u]
  PROVE  Allowed(u)
BY MovePromised DEF Allowed, MoveAllowed, RaiseAllowed, DangerAllowed, NoResponseAllowed

\* Committing a successor is allowed.
LEMMA CommitAllowed ==
  ASSUME IInv, NEW u \in Users, NEW row, Successor(session[u], row), Write(u, row),
         raises' = raises, queued' = queued
  PROVE  \A v \in Users : Allowed(v)
<1>1. /\ session'[u] = row
      /\ \A v \in Users : v # u => session'[v] = session[v]
  BY DEF IInv, TypeOK, Write
<1>2. Promise!Step(u)
  BY <1>1, MovePromised DEF Successor
<1>3. Allowed(u)
  BY <1>1, <1>2, SameTable DEF Successor, Exists, Promise!Begun, Allowed, MoveAllowed,
                               RaiseAllowed, DangerAllowed, NoResponseAllowed
<1>4. QED
  BY <1>1, <1>3, SameRow

\* A commit to a row leaves every known row in place; the requests in progress
\* after it work on rows that exist.
LEMMA CommitKnown ==
  ASSUME IInv, Known, NEW u \in Users, NEW row, row.status # NoSession, Write(u, row),
         \A t \in Threads : thread'[t].pc # "idle" =>
           \/ thread'[t].user = u
           \/ thread[t].pc # "idle" /\ thread'[t].user = thread[t].user
  PROVE  Known'
<1>1. /\ session'[u] = row
      /\ \A v \in Users : v # u => session'[v] = session[v]
  BY DEF IInv, TypeOK, Write
<1>2. \A v \in Users : Exists(v) \/ v = u => Exists(v)'
  BY <1>1 DEF Exists
<1>3. \A v \in Users : ~Exists(v)' => ~session'[v].emergencyTriggered
  BY <1>1, <1>2 DEF Known, Exists
<1>4. \A v \in Paired : Exists(v)'
  BY <1>2, SafetyAssumption DEF Known
<1>5. \A t \in Threads : thread'[t].pc # "idle" => Exists(thread[t].user)'
  BY <1>2 DEF Known, IInv, RequestsOK, RequestOK
<1>6. QED
  BY <1>3, <1>4, <1>5 DEF Known

\* A commit that outdates all other requests on its row keeps Owned.
LEMMA CommitOwned ==
  ASSUME IInv, Owned, NEW u \in Users, NEW row, Write(u, row),
         \A v \in Users : queued'[v] \subseteq queued[v] \cup {raises[v] + 1},
         \A t \in Threads : thread'[t].pc \in {"flagged", "enqueued"} =>
           /\ thread'[t].pc = thread[t].pc
           /\ thread'[t].user = thread[t].user /\ thread'[t].raise = thread[t].raise
           /\ thread'[t].fresh => thread[t].fresh /\ thread[t].user \notin {u}
  PROVE  Owned'
<1>1. \A v \in Users : v # u => session'[v] = session[v]
  BY DEF IInv, TypeOK, Write
<1>2. \A t \in Threads : thread[t].pc \in {"flagged", "enqueued"} => thread[t].user \in Users
  BY DEF IInv, RequestsOK, RequestOK
<1>3. QED
  BY <1>1, <1>2, OwnedKept

\* A handler that saves a successor.
LEMMA SaveOK ==
  ASSUME IInv, Known, Owned, NEW u \in Users, NEW row, Successor(session[u], row), Save(u, row)
  PROVE  StepOK
<1>1. Write(u, row) /\ raises' = raises /\ queued' = queued /\ thread' = Outdated({u})
  BY DEF Save
<1>2. row.status # NoSession
  BY DEF Successor
<1>3. Known'
  BY <1>1, <1>2, CommitKnown, OutdatedThreads DEF IInv
<1>4. Owned'
  BY <1>1, CommitOwned, OutdatedThreads DEF IInv
<1>5. QED
  BY <1>1, <1>3, <1>4, CommitAllowed DEF StepOK

\* An alarm that is raised in one transaction.
LEMMA RaiseOK ==
  ASSUME IInv, Known, Owned, NEW u \in Users, NEW row \in SessionRow,
         row.status = Promise!Begun(session[u].status),
         Exists(u) => row.emergencyTriggered = session[u].emergencyTriggered,
         row.confirmation = "NO_RESPONSE" => session[u].confirmation = "NO_RESPONSE",
         RaiseInTransaction(u, row)
  PROVE  StepOK
<1> DEFINE new == [row EXCEPT !.emergencyTriggered = TRUE, !.status = "IN_DANGER"]
<1>1. /\ ~row.emergencyTriggered /\ CanMove(row.status, "IN_DANGER")
      /\ Write(u, new)
      /\ raises' = [raises EXCEPT ![u] = @ + 1]
      /\ queued' = [queued EXCEPT ![u] = @ \cup {raises[u] + 1}]
      /\ thread' = Outdated({u})
  BY DEF RaiseInTransaction
<1>2. /\ new.status = "IN_DANGER" /\ new.emergencyTriggered
      /\ new.confirmation = row.confirmation
  BY DEF SessionRow
<1> HIDE DEF new
<1>3. /\ session'[u] = new
      /\ \A v \in Users : v # u => /\ session'[v] = session[v]
                                  /\ raises'[v] = raises[v] /\ queued'[v] = queued[v]
      /\ raises'[u] = raises[u] + 1 /\ queued'[u] = queued[u] \cup {raises[u] + 1}
  BY <1>1 DEF IInv, TypeOK, Write
<1>4. ~session[u].emergencyTriggered
  BY <1>1 DEF Known
<1>5. Promise!Step(u)
  BY <1>1, <1>2, <1>3, <1>4, AlarmPromised
<1>6. Allowed(u)
  BY <1>1, <1>2, <1>3, <1>4, <1>5, SameTable
     DEF Exists, Promise!Begun, Allowed, MoveAllowed, RaiseAllowed, DangerAllowed,
         NoResponseAllowed
<1>7. Known'
  BY <1>1, <1>2, CommitKnown, OutdatedThreads DEF IInv, NoSession
<1>8. \A v \in Users : queued'[v] \subseteq queued[v] \cup {raises[v] + 1}
  BY <1>3
<1>9. Owned'
  BY <1>1, <1>8, CommitOwned, OutdatedThreads DEF IInv
<1>10. QED
  BY <1>3, <1>6, <1>7, <1>9, SameRow DEF StepOK

--------------------------------------------------------------------------------
(* The calls of the protection API.                                         *)

\* Every handler of one transaction commits a successor of the row, or raises
\* an alarm on it.
LEMMA ProtectionOK ==
  ASSUME IInv, Known, Owned, NEW u \in Users, ProtectionCall(u)
  PROVE  StepOK
<1> DEFINE old == session[u]
<1>0. old \in SessionRow /\ RowOK(old)
  BY DEF IInv, TypeOK, RowsOK
<1>1. CASE StartProtection(u)
  <2> DEFINE row == [old EXCEPT !.status = "ACTIVE", !.confirmation = "NONE",
                             !.autoResume = "none", !.worn = TRUE,
                             !.emergencyTriggered = FALSE,
                             !.ping = "fresh", !.bluetooth = "fresh"]
  <2>1. CanMove(old.status, "ACTIVE") /\ Save(u, row)
    BY <1>1 DEF StartProtection
  <2>2. Successor(old, row)
    BY <1>0, <2>1, BegunMoves DEF Successor, SessionRow, Status, NoSession
  <2>3. QED
    BY <2>1, <2>2, SaveOK
<1>2. CASE Ping(u)
  <2> DEFINE row == [old EXCEPT !.ping = "fresh", !.bluetooth = "fresh"]
             new == IF row.status \in {"WARNING", "PAUSED_OFF_BODY"}
                      THEN Recovered(row) ELSE row
  <2>1. Exists(u) /\ Save(u, new)
    BY <1>2 DEF Ping
  <2>2. row.status = old.status /\ row.confirmation = old.confirmation /\ row \in SessionRow
    BY <1>0 DEF SessionRow
  <2>3. CASE old.status \in {"WARNING", "PAUSED_OFF_BODY"}
    <3>1. CanMove(old.status, "ACTIVE")
      BY <2>3 DEF CanMove, AllowedTransitions, Status
    <3> HIDE DEF row
    <3>2. /\ Recovered(row) \in SessionRow
          /\ Recovered(row).status = "ACTIVE" /\ Recovered(row).confirmation = "NONE"
          /\ ~Recovered(row).emergencyTriggered
      BY <2>2 DEF SessionRow, Status, Recovered
    <3>3. Successor(old, Recovered(row))
      BY <3>1, <3>2, <1>0, BegunMoves DEF Successor, NoSession
    <3>4. QED
      BY <2>1, <2>2, <2>3, <3>3, SaveOK
  <2>4. CASE old.status \notin {"WARNING", "PAUSED_OFF_BODY"}
    <3>1. Successor(old, row)
      BY <2>1, <2>2, BegunMoves DEF Successor, Exists
    <3>2. QED
      BY <2>1, <2>2, <2>4, <3>1, SaveOK
  <2>5. QED
    BY <2>3, <2>4
<1>3. CASE StopProtection(u)
  <2> DEFINE row == [old EXCEPT !.status = "ENDED"]
  <2>1. CanMove(old.status, "ENDED") /\ Save(u, row)
    BY <1>3 DEF StopProtection
  <2>2. Successor(old, row)
    BY <1>0, <2>1, BegunMoves DEF Successor, SessionRow, Status, NoSession
  <2>3. QED
    BY <2>1, <2>2, SaveOK
<1>4. CASE PauseProtection(u)
  <2> DEFINE row == [old EXCEPT !.status = "PAUSED_MANUAL", !.worn = TRUE,
                                !.autoResume = "waiting"]
  <2>1. CanMove(old.status, "PAUSED_MANUAL") /\ Save(u, row)
    BY <1>4 DEF PauseProtection
  <2>2. Successor(old, row)
    BY <1>0, <2>1, BegunMoves DEF Successor, SessionRow, Status, NoSession
  <2>3. QED
    BY <2>1, <2>2, SaveOK
<1>5. CASE ResumeProtection(u)
  <2>1. CanMove(old.status, "ACTIVE") /\ Save(u, Resumed(old))
    BY <1>5 DEF ResumeProtection
  <2>2. Successor(old, Resumed(old))
    BY <1>0, <2>1, BegunMoves DEF Successor, SessionRow, Status, NoSession, Resumed
  <2>3. QED
    BY <2>1, <2>2, SaveOK
<1>6. CASE ConfirmUserSafe(u)
  <2> DEFINE row == [old EXCEPT !.status = "RECOVERY_PENDING", !.warning = "none",
                                !.confirmation = "SAFE_CONFIRMED"]
  <2>1. CanMove(old.status, "RECOVERY_PENDING") /\ Save(u, row)
    BY <1>6 DEF ConfirmUserSafe
  <2>2. Successor(old, row)
    BY <1>0, <2>1, BegunMoves DEF Successor, SessionRow, Status, NoSession
  <2>3. QED
    BY <2>1, <2>2, SaveOK
<1>7. CASE ConfirmUserSafeRejected(u)
  <2>1. UNCHANGED <<session, raises, queued, thread>>
    BY <1>7 DEF ConfirmUserSafeRejected
  <2>2. Known' /\ Owned'
    BY <2>1 DEF Known, Owned, Exists
  <2>3. QED
    BY <2>1, <2>2, SameRow DEF StepOK
<1>8. CASE UpdateBluetoothPing(u)
  <2> DEFINE row == IF Exists(u) THEN [session[u] EXCEPT !.bluetooth = "fresh"] ELSE NewRow
             back == [row EXCEPT !.status = "ACTIVE", !.confirmation = "NONE",
                                 !.warning = "none"]
  <2>1. Save(u, CASE row.status = "WARNING"         -> back
                  [] row.status = "PAUSED_OFF_BODY" -> [back EXCEPT !.worn = TRUE]
                  [] OTHER                          -> row)
    BY <1>8 DEF UpdateBluetoothPing
  <2>2. /\ row \in SessionRow /\ row.status # NoSession
        /\ Exists(u) => /\ row.status = old.status /\ row.confirmation = old.confirmation
                        /\ row.emergencyTriggered = old.emergencyTriggered
        /\ ~Exists(u) => /\ row.status = "ACTIVE" /\ row.confirmation = "NONE"
                         /\ ~row.emergencyTriggered
    <3>1. CASE Exists(u)
      BY <1>0, <3>1 DEF SessionRow, Exists
    <3>2. CASE ~Exists(u)
      <4>1. row = NewRow
        BY <3>2
      <4>2. /\ NewRow.status = "ACTIVE" /\ NewRow.confirmation = "NONE"
            /\ ~NewRow.emergencyTriggered
        BY DEF NewRow, NoRow
      <4>3. QED
        BY <3>2, <4>1, <4>2, CreatedRows DEF NoSession
    <3>3. QED
      BY <3>1, <3>2
  <2>3. CASE row.status \in {"WARNING", "PAUSED_OFF_BODY"}
    <3>1. Exists(u) /\ CanMove(old.status, "ACTIVE")
      BY <2>2, <2>3 DEF CanMove, AllowedTransitions, Status
    <3> HIDE DEF row
    <3>2. "ACTIVE" = Promise!Begun(old.status) \/ CanMove(Promise!Begun(old.status), "ACTIVE")
      BY <3>1, BegunMoves DEF NoSession
    <3>3. row.emergencyTriggered = old.emergencyTriggered
      BY <2>2, <3>1
    <3>4. Successor(old, back) /\ Successor(old, [back EXCEPT !.worn = TRUE])
      BY <2>2, <3>2, <3>3 DEF Successor, SessionRow, Status, NoSession
    <3> HIDE DEF back
    <3>5. QED
      BY <2>1, <2>3, <3>4, SaveOK
  <2>4. CASE row.status \notin {"WARNING", "PAUSED_OFF_BODY"}
    <3> HIDE DEF row, back
    <3>1. Save(u, row)
      BY <2>1, <2>4
    <3>2. Successor(old, row)
      BY <2>2, SameTable DEF Successor, Exists, NoSession, Promise!Begun
    <3>3. QED
      BY <3>1, <3>2, SaveOK
  <2>5. QED
    BY <2>3, <2>4
<1>9. CASE MarkDeviceOffBody(u)
  <2> DEFINE row == [old EXCEPT !.status = "PAUSED_OFF_BODY", !.worn = FALSE]
  <2>1. CanMove(old.status, "PAUSED_OFF_BODY") /\ Save(u, row)
    BY <1>9 DEF MarkDeviceOffBody
  <2>2. Successor(old, row)
    BY <1>0, <2>1, BegunMoves DEF Successor, SessionRow, Status, NoSession
  <2>3. QED
    BY <2>1, <2>2, SaveOK
<1>10. CASE UpdateVitals(u)
  <2> DEFINE row == IF Exists(u) THEN [session[u] EXCEPT !.ping = "fresh", !.bluetooth = "fresh"]
                                 ELSE NewRow
  <2>1. /\ row \in SessionRow /\ row.status # NoSession
        /\ Exists(u) => /\ row.status = old.status /\ row.confirmation = old.confirmation
                        /\ row.emergencyTriggered = old.emergencyTriggered
        /\ ~Exists(u) => /\ row.status = "ACTIVE" /\ row.confirmation = "NONE"
                         /\ ~row.emergencyTriggered
    <3>1. CASE Exists(u)
      BY <1>0, <3>1 DEF SessionRow, Exists
    <3>2. CASE ~Exists(u)
      <4>1. row = NewRow
        BY <3>2
      <4>2. /\ NewRow.status = "ACTIVE" /\ NewRow.confirmation = "NONE"
            /\ ~NewRow.emergencyTriggered
        BY DEF NewRow, NoRow
      <4>3. QED
        BY <3>2, <4>1, <4>2, CreatedRows DEF NoSession
    <3>3. QED
      BY <3>1, <3>2
  <2>2. PICK level :
          \/ RaiseInTransaction(u, row)
          \/ Save(u, row)
          \/ Save(u, [row EXCEPT !.status = VitalsStatus(@, level)])
    BY <1>10 DEF UpdateVitals
  <2> HIDE DEF row
  <2>3. Successor(old, row) /\ row.status = Promise!Begun(old.status)
    BY <2>1, SameTable DEF Successor, Exists, NoSession, Promise!Begun
  <2>4. Successor(old, [row EXCEPT !.status = VitalsStatus(@, level)])
    <3> DEFINE s == VitalsStatus(row.status, level)
    <3>1. /\ s \in Status \cup {NoSession} /\ s # NoSession
          /\ s # row.status => CanMove(row.status, s)
          /\ s = "IN_DANGER" => row.status = "IN_DANGER"
      BY <2>1 DEF VitalsStatus, SessionRow, Status, NoSession, CanMove, AllowedTransitions
    <3> HIDE DEF s
    <3>2. Successor(old, [row EXCEPT !.status = s])
      BY <2>1, <2>3, <3>1 DEF Successor, SessionRow, Exists, NoSession
    <3>3. QED
      BY <3>2 DEF s
  <2>5. CASE RaiseInTransaction(u, row)
    BY <2>1, <2>3, <2>5, RaiseOK
  <2>6. QED
    BY <2>2, <2>3, <2>4, <2>5, SaveOK
<1>11. CASE MarkSafe(u)
  <2> DEFINE row == [old EXCEPT !.emergencyTriggered = FALSE, !.preAlert = FALSE]
  <2>1. Exists(u) /\ Save(u, row)
    BY <1>11 DEF MarkSafe
  <2>2. Successor(old, row)
    BY <1>0, <2>1, BegunMoves DEF Successor, SessionRow, Exists
  <2>3. QED
    BY <2>1, <2>2, SaveOK
<1>12. CASE StartPreAlert(u) \/ CancelPreAlert(u)
  <2>1. PICK b \in BOOLEAN : Save(u, [old EXCEPT !.preAlert = b])
    BY <1>12 DEF StartPreAlert, CancelPreAlert
  <2>2. Successor(old, [old EXCEPT !.preAlert = b])
    BY <1>0, <1>12, BegunMoves DEF Successor, SessionRow, Exists, StartPreAlert, CancelPreAlert
  <2>3. QED
    BY <2>1, <2>2, SaveOK
<1>13. QED
  BY <1>1, <1>2, <1>3, <1>4, <1>5, <1>6, <1>7, <1>8, <1>9, <1>10, <1>11, <1>12
     DEF ProtectionCall

--------------------------------------------------------------------------------
(* The SOS requests.                                                        *)

\* The first commit of a request raises nothing yet and moves nothing.
LEMMA BeginOK ==
  ASSUME IInv, Known, Owned, NEW t \in Threads, NEW u \in Users, NEW row, NEW alarm,
         Successor(session[u], row), BeginRequest(t, u, row, alarm)
  PROVE  StepOK
<1>1. /\ Write(u, row) /\ raises' = raises /\ queued' = queued
      /\ \/ thread' = Outdated({u})
         \/ thread' = [Outdated({u}) EXCEPT ![t] = Located(u)]
  BY DEF BeginRequest
<1>2. row.status # NoSession /\ Located(u).user = u /\ Located(u).pc = "located"
  BY LocatedThread DEF Successor
<1>3. \A s \in Threads : thread'[s].pc # "idle" =>
        \/ thread'[s].user = u
        \/ thread[s].pc # "idle" /\ thread'[s].user = thread[s].user
  <2>1. CASE thread' = Outdated({u})
    BY <2>1, OutdatedThreads DEF IInv
  <2>2. CASE thread' = [Outdated({u}) EXCEPT ![t] = Located(u)]
    BY <1>2, <2>2, OutdatedThreads DEF IInv
  <2>3. QED
    BY <1>1, <2>1, <2>2
<1>4. Known'
  BY <1>1, <1>2, <1>3, CommitKnown
<1>5. \A s \in Threads : thread'[s].pc \in {"flagged", "enqueued"} =>
        /\ thread'[s].pc = thread[s].pc
        /\ thread'[s].user = thread[s].user /\ thread'[s].raise = thread[s].raise
        /\ thread'[s].fresh => thread[s].fresh /\ thread[s].user \notin {u}
  <2>1. CASE thread' = Outdated({u})
    BY <2>1, OutdatedThreads DEF IInv
  <2>2. CASE thread' = [Outdated({u}) EXCEPT ![t] = Located(u)]
    BY <1>2, <2>2, OutdatedThreads DEF IInv
  <2>3. QED
    BY <1>1, <2>1, <2>2
<1>6. Owned'
  BY <1>1, <1>5, CommitOwned
<1>7. QED
  BY <1>1, <1>4, <1>6, CommitAllowed DEF StepOK

\* Every way an SOS request begins.
LEMMA SosRequestOK ==
  ASSUME IInv, Known, Owned, NEW t \in Threads, NEW u \in Users, SosRequest(t, u)
  PROVE  StepOK
<1> DEFINE old == session[u]
<1>0. old \in SessionRow
  BY DEF IInv, TypeOK
<1>1. ASSUME Exists(u) PROVE Successor(old, old)
  BY <1>0, <1>1, BegunMoves DEF Successor, Exists
<1>2. CASE PressSosButton(t, u)
  BY <1>1, <1>2, BeginOK DEF PressSosButton
<1>3. CASE PressWithoutPosition(t, u)
  <2>1. /\ Exists(u)
        /\ thread' = [thread EXCEPT ![t] = Located(u)]
        /\ UNCHANGED <<session, raises, queued>>
    BY <1>3 DEF PressWithoutPosition
  <2>2. \A s \in Threads :
          \/ thread'[s] = thread[s]
          \/ thread'[s].user = u /\ thread'[s].pc = "located"
    BY <2>1, LocatedThread DEF IInv, TypeOK
  <2>3. Known'
    BY <2>1, <2>2 DEF Known, Exists
  <2>4. Owned'
    BY <2>1, <2>2, OwnedKept
  <2>5. QED
    BY <2>1, <2>3, <2>4, SameRow DEF StepOK
<1>4. CASE ReportTamper(t, u)
  <2>1. Exists(u) /\ BeginRequest(t, u, old, TRUE)
    BY <1>4 DEF ReportTamper, Known
  <2>2. QED
    BY <1>1, <2>1, BeginOK
<1>5. CASE ProcessHeartbeat(t, u)
  <2>1. PICK worn, connected \in BOOLEAN :
          \E alarm \in PacketAlarms(old, worn, connected) :
            BeginRequest(t, u, PacketRow(old, worn, connected), alarm)
    BY <1>5 DEF ProcessHeartbeat
  <2>2. Exists(u)
    BY <1>5 DEF ProcessHeartbeat, Known
  <2>3. Successor(old, PacketRow(old, worn, connected))
    BY <1>0, <2>2, BegunMoves DEF Successor, PacketRow, SessionRow, Exists
  <2>4. QED
    BY <2>1, <2>3, BeginOK
<1>6. QED
  BY <1>2, <1>3, <1>4, <1>5 DEF SosRequest

\* The alarm is raised on the row the request read: it was clear, and if the
\* commit succeeds it still is.
LEMMA RaiseAlarmOK ==
  ASSUME IInv, Known, Owned, NEW t \in Threads, RaiseAlarm(t)
  PROVE  StepOK
<1>0. PICK u \in Users : u = thread[t].user
  BY DEF RaiseAlarm, IInv, RequestsOK, RequestOK
<1> DEFINE new == [session[u] EXCEPT !.emergencyTriggered = TRUE]
<1>1. /\ thread[t].pc = "located" /\ thread[t].fresh
      /\ Write(u, new)
      /\ raises' = [raises EXCEPT ![u] = @ + 1]
      /\ thread' = [Outdated({u}) EXCEPT
                      ![t] = [thread[t] EXCEPT !.pc = "flagged", !.raise = raises[u] + 1]]
      /\ queued' = queued
  BY <1>0 DEF RaiseAlarm
<1>2. /\ session[u] \in SessionRow /\ ~session[u].emergencyTriggered
      /\ Exists(u)
  BY <1>0, <1>1 DEF IInv, TypeOK, RequestsOK, RequestOK, Known
<1>3. /\ new.emergencyTriggered /\ new.status = session[u].status
      /\ new.confirmation = session[u].confirmation /\ new.status # NoSession
  BY <1>2 DEF SessionRow, Exists
<1>4. thread[t] \in ThreadState
  BY DEF IInv, TypeOK
<1> DEFINE flagged == [thread[t] EXCEPT !.pc = "flagged", !.raise = raises[u] + 1]
<1>5. flagged.user = u /\ flagged.pc = "flagged" /\ flagged.raise = raises[u] + 1
  BY <1>0, <1>4 DEF ThreadState
<1> HIDE DEF new, flagged
<1>6. /\ session'[u] = new
      /\ \A v \in Users : v # u => session'[v] = session[v] /\ raises'[v] = raises[v]
      /\ raises'[u] = raises[u] + 1 /\ raises[u] \in Nat
  BY <1>1, <1>2, SafetyAssumption DEF IInv, TypeOK, Write
<1>7. Allowed(u)
  <2>1. Promise!Step(u)
    BY <1>1, <1>2, <1>3, <1>6, RaisePromised
  <2>2. QED
    BY <1>2, <1>3, <1>6, <2>1
     DEF Allowed, MoveAllowed, RaiseAllowed, DangerAllowed, NoResponseAllowed
<1>8. \A s \in Threads : thread'[s].pc # "idle" =>
        \/ thread'[s].user = u
        \/ thread[s].pc # "idle" /\ thread'[s].user = thread[s].user
  BY <1>1, <1>5, OutdatedThreads DEF IInv
<1>9. Known'
  BY <1>1, <1>2, <1>3, <1>8, CommitKnown
<1>10. /\ thread'[t] = flagged
       /\ \A s \in Threads \ {t} :
            /\ thread'[s].pc = thread[s].pc
            /\ thread'[s].user = thread[s].user /\ thread'[s].raise = thread[s].raise
            /\ thread'[s].fresh => thread[s].fresh /\ thread[s].user # u
  BY <1>1, OutdatedThreads DEF IInv, flagged
<1>11. \A s \in Threads : thread[s].pc \in {"flagged", "enqueued"} =>
         thread[s].user \in Users /\ thread[s].raise \in 1 .. raises[thread[s].user]
  BY DEF IInv, RequestsOK, RequestOK
<1>12. queued[u] \subseteq 1 .. raises[u]
  BY <1>2 DEF IInv, AlertAccounting
<1>13. Owned'
  <2>1. \A s \in Threads : thread'[s].pc \in {"flagged", "enqueued"} /\ thread'[s].fresh =>
          session'[thread'[s].user].emergencyTriggered
    BY <1>3, <1>5, <1>6, <1>10, <1>11 DEF Owned
  <2>2. \A s \in Threads : thread'[s].pc = "flagged" =>
          thread'[s].raise \notin queued'[thread'[s].user]
    <3>1. raises[u] + 1 \notin queued[u]
      BY <1>6, <1>12
    <3>2. QED
      BY <1>0, <1>1, <1>5, <1>10, <3>1, ZenonT(30) DEF Owned
  <2>3. \A s \in Threads \ {t} : ~ /\ thread[s].pc = "flagged" /\ thread[s].user = u
                                    /\ thread[s].raise = raises[u] + 1
    BY <1>6, <1>11
  <2>4. \A r, s \in Threads :
          /\ thread'[r].pc = "flagged" /\ thread'[s].pc = "flagged"
          /\ thread'[r].user = thread'[s].user /\ thread'[r].raise = thread'[s].raise
          => r = s
    BY <1>5, <1>10, <2>3 DEF Owned
  <2>5. QED
    BY <2>1, <2>2, <2>4 DEF Owned
<1>14. QED
  BY <1>1, <1>6, <1>7, <1>9, <1>13, SameRow DEF StepOK

\* The session goes to IN_DANGER on the row the request flagged, whose alarm
\* has its outbox row.
LEMMA EnterDangerOK ==
  ASSUME IInv, Known, Owned, NEW t \in Threads, EnterDanger(t)
  PROVE  StepOK
<1>0. PICK u \in Users : u = thread[t].user
  BY DEF EnterDanger, ReadyForDanger, IInv, RequestsOK, RequestOK
<1> DEFINE new == [session[u] EXCEPT !.status = "IN_DANGER"]
<1>1. /\ thread[t].pc = "enqueued" /\ thread[t].fresh
      /\ CanMove(session[u].status, "IN_DANGER")
      /\ Write(u, new)
      /\ thread' = [Outdated({u}) EXCEPT ![t] = Idle]
      /\ raises' = raises /\ queued' = queued
  BY <1>0 DEF EnterDanger, ReadyForDanger
<1>2. /\ session[u] \in SessionRow
      /\ raises[u] \in queued[u] /\ session[u].emergencyTriggered
  BY <1>0, <1>1 DEF IInv, TypeOK, RequestsOK, RequestOK, Owned
<1>3. /\ new.status = "IN_DANGER" /\ new.confirmation = session[u].confirmation
      /\ new.emergencyTriggered = session[u].emergencyTriggered
  BY <1>2 DEF SessionRow
<1> HIDE DEF new
<1>4. /\ session'[u] = new
      /\ \A v \in Users : v # u => session'[v] = session[v]
  BY <1>1, <1>2 DEF IInv, TypeOK, Write
<1>5. Allowed(u)
  <2>1. Promise!Step(u)
    BY <1>1, <1>2, <1>3, <1>4, DangerPromised
  <2>2. QED
    BY <1>1, <1>2, <1>3, <1>4, <2>1
       DEF Allowed, MoveAllowed, RaiseAllowed, DangerAllowed, NoResponseAllowed
<1>6. \A s \in Threads : thread'[s].pc # "idle" =>
        thread[s].pc # "idle" /\ thread'[s].user = thread[s].user
  BY <1>1, OutdatedThreads DEF IInv, Idle
<1>7. Known'
  BY <1>1, <1>2, <1>3, <1>6, CommitKnown DEF NoSession
<1>8. \A s \in Threads : thread'[s].pc \in {"flagged", "enqueued"} =>
        /\ thread'[s].pc = thread[s].pc
        /\ thread'[s].user = thread[s].user /\ thread'[s].raise = thread[s].raise
        /\ thread'[s].fresh => thread[s].fresh /\ thread[s].user \notin {u}
  BY <1>1, OutdatedThreads DEF IInv, Idle
<1>9. Owned'
  BY <1>1, <1>2, <1>8, CommitOwned
<1>10. QED
  BY <1>1, <1>4, <1>5, <1>7, <1>9, SameRow DEF StepOK

\* A request that ends early, for a conflict, a refused transition or a failure
\* of the database, changes no row.
LEMMA RequestEndsOK ==
  ASSUME IInv, Known, Owned, NEW t \in Threads, AbandonRequest(t) \/ RequestFails(t)
  PROVE  StepOK
<1>1. /\ thread' = [thread EXCEPT ![t] = Idle]
      /\ UNCHANGED <<session, raises, queued>>
  BY DEF AbandonRequest, RequestFails
<1>2. \A s \in Threads : thread'[s] = thread[s] \/ thread'[s].pc = "idle"
  BY <1>1 DEF IInv, TypeOK, Idle
<1>3. Known'
  BY <1>1, <1>2 DEF Known, Exists
<1>4. Owned'
  BY <1>1, <1>2, OwnedKept
<1>5. QED
  BY <1>1, <1>3, <1>4, SameRow DEF StepOK

\* Every later step of a request.
LEMMA RequestStepOK ==
  ASSUME IInv, Known, Owned, NEW t \in Threads, RequestStep(t)
  PROVE  StepOK
<1>1. CASE InsertOutboxRow(t)
  <2>0. PICK u \in Users, r \in Nat : u = thread[t].user /\ r = thread[t].raise
    BY <1>1, SafetyAssumption
       DEF InsertOutboxRow, ReadyToInsert, IInv, TypeOK, ThreadState, RequestsOK, RequestOK
  <2>1. /\ thread' = [thread EXCEPT ![t].pc = "enqueued"]
        /\ thread[t].pc = "flagged"
        /\ queued' = [queued EXCEPT ![u] = @ \cup {r}]
        /\ UNCHANGED <<session, raises>>
    BY <1>1, <2>0 DEF InsertOutboxRow, ReadyToInsert
  <2>2. /\ \A s \in Threads : /\ thread'[s].user = thread[s].user
                                /\ thread'[s].raise = thread[s].raise
                                /\ thread'[s].fresh = thread[s].fresh
        /\ \A s \in Threads \ {t} : thread'[s].pc = thread[s].pc
        /\ thread'[t].pc = "enqueued"
    BY <2>1 DEF IInv, TypeOK, ThreadState
  <2>3. r \in (1 .. raises[u]) \ queued[u]
    BY <2>0, <2>1 DEF IInv, RequestsOK, RequestOK, Owned
  <2>4. /\ queued'[u] = queued[u] \cup {r}
        /\ \A v \in Users : v # u => queued'[v] = queued[v]
    BY <2>1, <2>3 DEF IInv, TypeOK
  <2>5. Known'
    BY <2>1, <2>2 DEF Known, Exists
  <2>6. Owned'
    <3>1. \A s \in Threads : thread[s].pc = "flagged" => thread[s].user \in Users
      BY DEF IInv, RequestsOK, RequestOK
    <3>2. \A s \in Threads : thread'[s].pc = "flagged" =>
            thread'[s].raise \notin queued'[thread'[s].user]
      BY <2>0, <2>1, <2>2, <2>4, <3>1 DEF Owned
    <3>3. \A s \in Threads :
            thread'[s].pc \in {"flagged", "enqueued"} /\ thread'[s].fresh =>
              session'[thread'[s].user].emergencyTriggered
      BY <2>1, <2>2 DEF Owned
    <3>4. QED
      BY <2>2, <3>2, <3>3 DEF Owned
  <2>7. Promise!Step(u)
    BY <2>1, <2>3, <2>4, QueuePromised
  <2>8. Allowed(u)
    BY <2>1, <2>7 DEF Allowed, MoveAllowed, RaiseAllowed, DangerAllowed, NoResponseAllowed
  <2>9. QED
    BY <2>1, <2>4, <2>5, <2>6, <2>8, SameRow DEF StepOK
<1>2. CASE AbandonRequest(t)
  BY <1>2, RequestEndsOK
<1>3. QED
  BY <1>1, <1>2, RaiseAlarmOK, EnterDangerOK DEF RequestStep

--------------------------------------------------------------------------------
(* Time, the sweep and crashes.                                             *)

\* Aging touches neither status nor answer nor alarm.
LEMMA TimeOK ==
  ASSUME IInv, Known, Owned, NEW u \in Users, Time(u)
  PROVE  StepOK
<1>1. PICK row \in SessionRow :
        /\ session' = [session EXCEPT ![u] = row]
        /\ row.status = session[u].status /\ row.confirmation = session[u].confirmation
        /\ row.emergencyTriggered = session[u].emergencyTriggered
        /\ UNCHANGED <<raises, queued, thread>>
  <2> DEFINE old == session[u]
  <2>0. old \in SessionRow
    BY DEF IInv, TypeOK
  <2>1. CASE PingAges(u)
    <3> DEFINE row == [old EXCEPT !.ping = Older.ping[@]]
    <3>1. row \in SessionRow
      BY <2>0 DEF SessionRow, Older
    <3>2. session' = [session EXCEPT ![u] = row] /\ UNCHANGED <<raises, queued, thread>>
      BY <2>1 DEF PingAges, Age
    <3>3. QED
      BY <2>0, <3>1, <3>2 DEF SessionRow
  <2>2. CASE BluetoothAges(u)
    <3> DEFINE row == [old EXCEPT !.bluetooth = Older.bluetooth[@]]
    <3>1. row \in SessionRow
      BY <2>0 DEF SessionRow, Older
    <3>2. session' = [session EXCEPT ![u] = row] /\ UNCHANGED <<raises, queued, thread>>
      BY <2>2 DEF BluetoothAges, Age
    <3>3. QED
      BY <2>0, <3>1, <3>2 DEF SessionRow
  <2>3. CASE WarningAges(u)
    <3> DEFINE row == [old EXCEPT !.warning = Older.warning[@]]
    <3>1. row \in SessionRow
      BY <2>0 DEF SessionRow, Older
    <3>2. session' = [session EXCEPT ![u] = row] /\ UNCHANGED <<raises, queued, thread>>
      BY <2>3 DEF WarningAges, Age
    <3>3. QED
      BY <2>0, <3>1, <3>2 DEF SessionRow
  <2>4. CASE PauseAges(u)
    <3> DEFINE row == [old EXCEPT !.autoResume = Older.autoResume[@]]
    <3>1. row \in SessionRow
      BY <2>0 DEF SessionRow, Older
    <3>2. session' = [session EXCEPT ![u] = row] /\ UNCHANGED <<raises, queued, thread>>
      BY <2>4 DEF PauseAges, Age
    <3>3. QED
      BY <2>0, <3>1, <3>2 DEF SessionRow
  <2>5. QED
    BY <2>1, <2>2, <2>3, <2>4 DEF Time
<1>2. \A v \in Users : /\ session'[v].status = session[v].status
                       /\ session'[v].confirmation = session[v].confirmation
                       /\ session'[v].emergencyTriggered = session[v].emergencyTriggered
  BY <1>1 DEF IInv, TypeOK
<1>3. \A v \in Users : Allowed(v)
  BY <1>1, <1>2, MovePromised
     DEF Allowed, MoveAllowed, RaiseAllowed, DangerAllowed, NoResponseAllowed
<1>4. \A v \in Users : Exists(v)' <=> Exists(v)
  BY <1>2 DEF Exists
<1>5. Known'
  BY <1>1, <1>2, <1>4, SafetyAssumption DEF Known, IInv, RequestsOK, RequestOK
<1>6. \A t \in Threads : thread[t].pc \in {"flagged", "enqueued"} => thread[t].user \in Users
  BY DEF IInv, RequestsOK, RequestOK
<1>7. Owned'
  BY <1>1, <1>2, <1>6, OwnedKept
<1>8. QED
  BY <1>3, <1>5, <1>7 DEF StepOK

\* Each row the sweep changes is still the row its rule was chosen for.
LEMMA SweepCommitOK ==
  ASSUME IInv, Known, Owned, SweepCommit
  PROVE  StepOK
<1>1. /\ touched = {}
      /\ session' = [u \in Users |-> AfterRule(session[u], plan[u])]
      /\ raises' = [u \in Users |-> IF u \in Alarmed THEN raises[u] + 1 ELSE raises[u]]
      /\ queued' = [u \in Users |-> IF u \in Alarmed THEN queued[u] \cup {raises[u] + 1}
                                                     ELSE queued[u]]
      /\ thread' = Outdated(Planned)
  BY DEF SweepCommit, NothingTouched
<1>2. ASSUME NEW u \in Users
      PROVE  Allowed(u) /\ (Exists(u) => Exists(u)') /\ (~Exists(u) => session'[u] = session[u])
  <2> DEFINE old == session[u]
             new == AfterRule(session[u], plan[u])
  <2>1. /\ old \in SessionRow /\ RowOK(old) /\ PlanOK(u)
        /\ plan[u] \in Rules \cup {"NOTHING"}
        /\ session'[u] = new
    BY <1>1 DEF IInv, TypeOK, RowsOK, PlansOK
  <2>2. CASE plan[u] = "NOTHING"
    <3>1. new = old /\ raises'[u] = raises[u] /\ queued'[u] = queued[u]
      BY <1>1, <2>2 DEF AfterRule, Alarmed
    <3>2. QED
      BY <2>1, <3>1, SameRow DEF Exists
  <2>3. CASE plan[u] = "AUTO_RESUME"
    <3>1. /\ old.status = "PAUSED_MANUAL" /\ new.status = "ACTIVE"
          /\ new.confirmation = old.confirmation
          /\ new.emergencyTriggered = old.emergencyTriggered
          /\ raises'[u] = raises[u] /\ queued'[u] = queued[u]
      BY <1>1, <2>1, <2>3 DEF AfterRule, Alarmed, PlanOK, SessionRow
    <3>2. CanMove(old.status, new.status)
      BY <3>1 DEF CanMove, AllowedTransitions, Status
    <3> HIDE DEF new
    <3>3. Promise!Step(u)
      BY <2>1, <3>1, <3>2, BegunMoves, MovePromised DEF NoSession
    <3>4. QED
      BY <2>1, <3>1, <3>2, <3>3 DEF Exists, NoSession, Allowed, MoveAllowed, RaiseAllowed,
                                    DangerAllowed, NoResponseAllowed
  <2>4. CASE plan[u] = "WARN"
    <3>1. /\ old.status = "ACTIVE" /\ new.status = "WARNING"
          /\ new.confirmation = "PENDING"
          /\ new.emergencyTriggered = old.emergencyTriggered
          /\ raises'[u] = raises[u] /\ queued'[u] = queued[u]
      BY <1>1, <2>1, <2>4 DEF AfterRule, Alarmed, PlanOK, SessionRow
    <3>2. CanMove(old.status, new.status)
      BY <3>1 DEF CanMove, AllowedTransitions, Status
    <3> HIDE DEF new
    <3>3. Promise!Step(u)
      BY <2>1, <3>1, <3>2, BegunMoves, MovePromised DEF NoSession
    <3>4. QED
      BY <2>1, <3>1, <3>2, <3>3 DEF Exists, NoSession, Allowed, MoveAllowed, RaiseAllowed,
                                    DangerAllowed, NoResponseAllowed
  <2>5. CASE plan[u] = "NO_RESPONSE"
    <3>1. /\ old.status = "WARNING" /\ new.status = "IN_DANGER"
          /\ old.warning = "expired" /\ ~old.emergencyTriggered
          /\ new.emergencyTriggered
      BY <2>1, <2>5 DEF AfterRule, PlanOK, SessionRow
    <3>2. /\ raises'[u] = raises[u] + 1
          /\ queued'[u] = queued[u] \cup {raises[u] + 1}
      BY <1>1, <2>5 DEF Alarmed
    <3>3. CanMove(old.status, new.status)
      BY <3>1 DEF CanMove, AllowedTransitions, Status
    <3> HIDE DEF new
    <3>4. Promise!Step(u)
      BY <2>1, <3>1, <3>2, <3>3, SameTable, AlarmPromised DEF NoSession, Promise!Begun
    <3>5. QED
      BY <2>1, <3>1, <3>2, <3>3, <3>4 DEF Exists, NoSession, Allowed, MoveAllowed,
                                          RaiseAllowed, DangerAllowed, NoResponseAllowed
  <2>6. QED
    BY <2>1, <2>2, <2>3, <2>4, <2>5 DEF PlanOK, Rules
<1>3. \A t \in Threads : thread'[t].pc = thread[t].pc /\ thread'[t].user = thread[t].user
  BY <1>1, OutdatedThreads DEF IInv
<1>4. \A u \in Users : ~Exists(u)' => ~session'[u].emergencyTriggered
  BY <1>2 DEF Known
<1>5. \A u \in Paired : Exists(u)'
  BY <1>2, SafetyAssumption DEF Known
<1>6. \A t \in Threads : thread'[t].pc # "idle" => Exists(thread[t].user)'
  BY <1>2, <1>3 DEF Known, IInv, RequestsOK, RequestOK
<1>7. \A u \in Users : queued'[u] \subseteq queued[u] \cup {raises[u] + 1}
  BY <1>1
<1>8. \A t \in Threads : thread'[t].pc \in {"flagged", "enqueued"} =>
        /\ thread'[t].pc = thread[t].pc
        /\ thread'[t].user = thread[t].user /\ thread'[t].raise = thread[t].raise
        /\ thread'[t].fresh => thread[t].fresh /\ thread[t].user \in Users \ Planned
  BY <1>1, OutdatedThreads DEF IInv, RequestsOK, RequestOK
<1>9. \A u \in Users \ Planned : session'[u] = session[u]
  BY <1>1 DEF Planned, AfterRule
<1>10. Owned'
  BY <1>7, <1>8, <1>9, OwnedKept
<1>11. QED
  BY <1>2, <1>4, <1>5, <1>6, <1>10 DEF StepOK, Known

\* Reading, rolling back and crashing change no row.
LEMMA NoRowOK ==
  ASSUME IInv, Known, Owned, SweepRead \/ SweepRollback \/ Crash \/ UNCHANGED vars
  PROVE  StepOK
<1>1. session' = session /\ raises' = raises /\ queued' = queued
  BY DEF SweepRead, SweepRollback, Crash, vars
<1>2. \A t \in Threads : thread'[t] = thread[t] \/ thread'[t].pc = "idle"
  BY DEF SweepRead, SweepRollback, Crash, vars, Idle
<1>3. Known'
  BY <1>1, <1>2 DEF Known, Exists
<1>4. Owned'
  BY <1>1, <1>2, OwnedKept
<1>5. QED
  BY <1>1, <1>3, <1>4, SameRow DEF StepOK

--------------------------------------------------------------------------------
(* The theorems.                                                            *)

\* Known holds initially.
LEMMA InitKnown == Init => Known
<1> SUFFICES ASSUME Init PROVE Known
  OBVIOUS
<1>1. NoRow.status = NoSession /\ ~NoRow.emergencyTriggered
  BY DEF NoRow
<1>2. ProvisionedRow.status = "ENDED"
  BY DEF ProvisionedRow, NoRow
<1>3. QED
  BY <1>1, <1>2, SafetyAssumption DEF Init, Known, Exists, Idle, NoSession

\* Owned holds initially: no request is in progress.
LEMMA InitOwned == Init => Owned
BY DEF Init, Owned, Idle

\* Every step is allowed and keeps Known and Owned.
LEMMA NextOK == IInv /\ Known /\ Owned /\ [Next]_vars => StepOK
<1> SUFFICES ASSUME IInv, Known, Owned, [Next]_vars PROVE StepOK
  OBVIOUS
<1>1. CASE \E u \in Users : ProtectionCall(u) \/ Time(u)
  BY <1>1, ProtectionOK, TimeOK
<1>2. CASE \E t \in Threads : RequestStep(t) \/ RequestFails(t)
                             \/ \E u \in Users : SosRequest(t, u)
  BY <1>2, RequestStepOK, RequestEndsOK, SosRequestOK
<1>3. CASE SweepRead \/ SweepRollback \/ Crash \/ UNCHANGED vars
  BY <1>3, NoRowOK
<1>4. CASE SweepCommit
  BY <1>4, SweepCommitOK
<1>5. QED
  BY <1>1, <1>2, <1>3, <1>4 DEF Next

\* Requests only work on rows that exist, no alarm stands for a user without
\* a row, and a request that nobody overtook has its own alarm standing.
THEOREM AlwaysKnown == Spec => [](Known /\ Owned)
<1>1. IInv /\ (Known /\ Owned) /\ [Next]_vars => (Known /\ Owned)'
  BY NextOK DEF StepOK
<1>2. Init => Known /\ Owned
  BY InitKnown, InitOwned
<1>3. QED
  BY <1>1, <1>2, Inductive, PTL DEF Spec

\* No sweep and no request ever moves a session against the validator's table.
THEOREM MovesRespectTable == Spec => TransitionsRespectTable
<1>1. IInv /\ Known /\ Owned /\ [Next]_vars
        => [\A u \in Users : Exists(u) /\ session'[u].status # session[u].status =>
              CanMove(session[u].status, session'[u].status)]_vars
  BY NextOK DEF StepOK, Allowed, MoveAllowed
<1>2. QED
  BY <1>1, Inductive, AlwaysKnown, PTL DEF Spec, TransitionsRespectTable

\* Duplicate prevention: whatever requests and sweeps overlap, an alarm is
\* raised only on a row whose flag is clear at that moment.
THEOREM NoDuplicateRaise == Spec => RaisedOnlyWhenClear
<1>1. IInv /\ Known /\ Owned /\ [Next]_vars
        => [\A u \in Users : raises'[u] # raises[u] =>
              ~session[u].emergencyTriggered /\ session'[u].emergencyTriggered]_vars
  BY NextOK DEF StepOK, Allowed, RaiseAllowed
<1>2. QED
  BY <1>1, Inductive, AlwaysKnown, PTL DEF Spec, RaisedOnlyWhenClear

\* Nobody is put IN_DANGER before the outbox row of the alarm is durable,
\* crashes included.
THEOREM DangerImpliesAlert == Spec => DangerOnlyWithAlert
<1>1. IInv /\ Known /\ Owned /\ [Next]_vars
        => [\A u \in Users :
              session[u].status # "IN_DANGER" /\ session'[u].status = "IN_DANGER"
                => raises'[u] \in queued'[u]]_vars
  BY NextOK DEF StepOK, Allowed, DangerAllowed
<1>2. QED
  BY <1>1, Inductive, AlwaysKnown, PTL DEF Spec, DangerOnlyWithAlert

\* The sweep never takes for unresponsive a user who was heard of between its
\* reading and its commit.
THEOREM OnlyTheSilentEscalate == Spec => NoResponseOnlyIfStillWaiting
<1>1. IInv /\ Known /\ Owned /\ [Next]_vars
        => [\A u \in Users :
              session'[u].confirmation = "NO_RESPONSE" /\ session[u].confirmation # "NO_RESPONSE"
                => /\ session[u].status = "WARNING"
                   /\ session[u].warning = "expired"
                   /\ ~session[u].emergencyTriggered]_vars
  BY NextOK DEF StepOK, Allowed, NoResponseAllowed
<1>2. QED
  BY <1>1, Inductive, AlwaysKnown, PTL DEF Spec, NoResponseOnlyIfStillWaiting

--------------------------------------------------------------------------------
(* The refinement.                                                          *)

\* The sessions as they are provisioned are initial sessions of AlarmPromise.
LEMMA PromisedInit == Init => Promise!Init
<1> SUFFICES ASSUME Init PROVE Promise!Init
  OBVIOUS
<1>1. /\ NoRow.status = NoSession /\ ~NoRow.emergencyTriggered
      /\ NoRow.emergencyTriggered \in BOOLEAN
  BY DEF NoRow
<1>2. /\ ProvisionedRow.status = "ENDED" /\ ~ProvisionedRow.emergencyTriggered
      /\ ProvisionedRow.emergencyTriggered \in BOOLEAN
  BY DEF ProvisionedRow, NoRow
<1>3. \A u \in Users : session[u] = NoRow \/ session[u] = ProvisionedRow
  BY DEF Init
<1>4. QED
  BY <1>1, <1>2, <1>3, SameTable DEF Init, Promise!Init

\* The requests, the sweep and the crashes together implement AlarmPromise:
\* alarms are raised one at a time, queued once each, and nobody comes into
\* IN_DANGER but with the alarm that stands and has its row.
THEOREM PromiseKept == Spec => KeepsPromise
<1>1. IInv /\ (Known /\ Owned) /\ [Next]_vars => [Promise!Next]_(Promise!vars)
  BY NextOK DEF StepOK, Allowed, Promise!Next
<1>2. QED
  BY <1>1, PromisedInit, Inductive, AlwaysKnown, PTL DEF Spec, KeepsPromise, Promise!Spec

\* What follows from the promise alone.
DangerHasAlert == \A u \in Users : session[u].status = "IN_DANGER" => queued[u] # {}

\* No session is ever IN_DANGER for which not one alarm has reached the
\* outbox, however requests, sweeps and crashes came between.
THEOREM AlertBehindDanger == Spec => []DangerHasAlert
<1>1. Promise!Init => DangerHasAlert
  BY SameTable DEF Promise!Init, DangerHasAlert, NoSession
<1>2. DangerHasAlert /\ [Promise!Next]_(Promise!vars) => DangerHasAlert'
  <2> SUFFICES ASSUME DangerHasAlert, [Promise!Next]_(Promise!vars), NEW u \in Users,
                      session'[u].status = "IN_DANGER"
               PROVE  queued'[u] # {}
    BY DEF DangerHasAlert
  <2>1. CASE UNCHANGED Promise!vars
    <3>1. session'[u].status = session[u].status /\ queued' = queued
      BY <2>1 DEF Promise!vars
    <3>2. QED
      BY <3>1 DEF DangerHasAlert
  <2>2. CASE Promise!Step(u)
    BY <2>2 DEF DangerHasAlert, Promise!Step, Promise!Move, Promise!Raise, Promise!Queue,
                Promise!EnterDanger, Promise!RaiseAtOnce
  <2>3. QED
    BY <2>1, <2>2 DEF Promise!Next
<1>3. QED
  BY <1>1, <1>2, PromiseKept, PTL DEF KeepsPromise, Promise!Spec
================================================================================
