----------------------------- MODULE SafetySession -----------------------------
(***************************************************************************)
(* The life of a user's safety session: the REST handlers that move it     *)
(* (HeartbeatCheckService, SosEventService), the wearable's packets, the   *)
(* scheduled sweep over all sessions, and the raising of an SOS with its   *)
(* outbox row (SosTriggerService).                                         *)
(*                                                                         *)
(* A handler that is one @Transactional method over one row is one atomic  *)
(* step: the @Version column makes its commit fail, without effect, if the *)
(* row was written meanwhile. Two pieces of code are not atomic here:      *)
(*  - the sweep reads every row, then commits all its changes or none;     *)
(*  - the non-transactional SOS requests commit several times on the way.  *)
(* Both remember whether a row they hold was written since they read it,   *)
(* which is all that a comparison of @Version values tells them.           *)
(***************************************************************************)
EXTENDS Naturals, FiniteSets, SessionStates, RiskRules

CONSTANTS
  Users,       \* the users of the system
  Paired,      \* those whose row was provisioned with their device's id
  Threads,     \* the request threads that run non-transactional SOS requests
  NoUser,      \* a null value
  HeartRates,  \* the heart rates a wearable reports in the model
  Movements,   \* the movement scores it reports
  Calls,       \* the calls that clients make (bounds an instance)
  MayCrash,    \* the process may be killed and restarted
  MayFail,     \* a statement of an SOS request may fail in the database
  MaxRaise     \* how often the alarm of one user may be raised (a bound)

ASSUME SafetyAssumption ==
  /\ Paired \subseteq Users
  /\ NoUser \notin Users
  /\ HeartRates \subseteq Int
  /\ Movements \subseteq Int
  /\ MayCrash \in BOOLEAN
  /\ MayFail \in BOOLEAN
  /\ MaxRaise \in Nat

VARIABLES
  session,   \* active_safety_sessions: the row of each user
  raises,    \* how often emergencyTriggered of a user was set so far
  queued,    \* for each user, the raises that have a row in sos_outbox
  lost,      \* the raises that never get one (ghost)
  thread,    \* the SOS requests in progress
  plan,      \* what the sweep in progress will do to each row it read
  touched,   \* the rows it will change that were written since it read them
  answered   \* users who answered the pending warning (ghost)

vars == <<session, raises, queued, lost, thread, plan, touched, answered>>

--------------------------------------------------------------------------------
(* Rows. A time stamp is kept as its age relative to the thresholds that   *)
(* checkHeartbeats compares it with.                                       *)

SessionRow ==
  [status             : Status \cup {NoSession},
   emergencyTriggered : BOOLEAN,
   confirmation       : {"NONE", "PENDING", "SAFE_CONFIRMED", "NO_RESPONSE"},
   worn               : BOOLEAN,
   preAlert           : BOOLEAN,                     \* preAlertStatus = ACTIVE
   ping               : {"fresh", "stale", "lost"},  \* over 3 and over 10 minutes
   bluetooth          : {"fresh", "stale"},          \* over 2 minutes
   warning            : {"none", "fresh", "expired"},\* over 60 seconds
   autoResume         : {"none", "waiting", "due"}]

NoRow ==
  [status |-> NoSession, emergencyTriggered |-> FALSE, confirmation |-> "NONE",
   worn |-> TRUE, preAlert |-> FALSE, ping |-> "fresh", bluetooth |-> "fresh",
   warning |-> "none", autoResume |-> "none"]

\* The row a Bluetooth ping or a vitals report creates for an unknown user.
NewRow == [NoRow EXCEPT !.status = "ACTIVE"]

\* The row of a device's owner, put there when the device was provisioned.
ProvisionedRow == [NoRow EXCEPT !.status = "ENDED"]

Exists(u) == session[u].status # NoSession

(* Requests in progress. *)

ThreadState ==
  [pc    : {"idle", "located", "flagged", "enqueued"},
   user  : Users \cup {NoUser},
   raise : 0 .. MaxRaise,     \* the alarm it raised
   fresh : BOOLEAN]           \* its row was not written by others since

Idle == [pc |-> "idle", user |-> NoUser, raise |-> 0, fresh |-> FALSE]

(* The sweep. *)

Rules == {"AUTO_RESUME", "WARN", "RECOVER", "NO_RESPONSE"}

NoPlan == [u \in Users |-> "NOTHING"]
Planned == {u \in Users : plan[u] # "NOTHING"}

TypeOK ==
  /\ session \in [Users -> SessionRow]
  /\ raises \in [Users -> 0 .. MaxRaise]
  /\ queued \in [Users -> SUBSET (1 .. MaxRaise)]
  /\ lost \in [Users -> SUBSET (1 .. MaxRaise)]
  /\ thread \in [Threads -> ThreadState]
  /\ plan \in [Users -> Rules \cup {"NOTHING"}]
  /\ touched \subseteq Planned
  /\ answered \subseteq Users

Init ==
  /\ session = [u \in Users |-> IF u \in Paired THEN ProvisionedRow ELSE NoRow]
  /\ raises = [u \in Users |-> 0]
  /\ queued = [u \in Users |-> {}]
  /\ lost = [u \in Users |-> {}]
  /\ thread = [t \in Threads |-> Idle]
  /\ plan = NoPlan
  /\ touched = {}
  /\ answered = {}

--------------------------------------------------------------------------------
(* Committing a row. *)

\* Mutant: no @Version column, so a request never notices another commit.
NoVersionCheck(us) == thread

\* What a commit to the rows of the users in us does to whoever holds one.
Outdated(us) ==
  [t \in Threads |-> IF thread[t].user \in us
                       THEN [thread[t] EXCEPT !.fresh = FALSE] ELSE thread[t]]

Write(u, row) ==
  /\ session' = [session EXCEPT ![u] = row]
  /\ touched' = touched \cup ({u} \cap Planned)
  /\ answered' = IF row.status = "WARNING" THEN answered ELSE answered \ {u}
  /\ plan' = plan

\* The commit of a transactional handler that raises no alarm.
Save(u, row) ==
  /\ Write(u, row)
  /\ thread' = Outdated({u})
  /\ UNCHANGED <<raises, queued, lost>>

\* triggerSosViaOutbox inside a transaction: flag, outbox row and transition
\* become visible together.
RaiseInTransaction(u, row) ==
  /\ raises[u] < MaxRaise
  /\ ~row.emergencyTriggered
  /\ CanMove(row.status, "IN_DANGER")
  /\ Write(u, [row EXCEPT !.emergencyTriggered = TRUE, !.status = "IN_DANGER"])
  /\ raises' = [raises EXCEPT ![u] = @ + 1]
  /\ queued' = [queued EXCEPT ![u] = @ \cup {raises[u] + 1}]
  /\ thread' = Outdated({u})
  /\ UNCHANGED lost

--------------------------------------------------------------------------------
(* HeartbeatCheckService: the handlers of the protection API. A handler     *)
(* whose transition is rejected rolls back: it changes nothing.             *)

StartProtection(u) ==
  LET row == session[u]
  IN  /\ CanMove(row.status, "ACTIVE")
      /\ Save(u, [row EXCEPT !.status = "ACTIVE", !.confirmation = "NONE",
                             !.autoResume = "none", !.worn = TRUE,
                             !.emergencyTriggered = FALSE,
                             !.ping = "fresh", !.bluetooth = "fresh"])

\* A heartbeat of a user in WARNING or PAUSED_OFF_BODY also recovers.
Recovered(row) ==
  [row EXCEPT !.status = "ACTIVE", !.autoResume = "none", !.confirmation = "NONE",
              !.warning = "none", !.worn = TRUE, !.emergencyTriggered = FALSE]

Ping(u) ==
  LET row == [session[u] EXCEPT !.ping = "fresh", !.bluetooth = "fresh"]
  IN  /\ Exists(u)
      /\ Save(u, IF row.status \in {"WARNING", "PAUSED_OFF_BODY"}
                   THEN Recovered(row) ELSE row)

StopProtection(u) ==
  /\ CanMove(session[u].status, "ENDED")
  /\ Save(u, [session[u] EXCEPT !.status = "ENDED"])

\* Creating a row here fails (last_ping_time is not nullable).
PauseProtection(u) ==
  /\ CanMove(session[u].status, "PAUSED_MANUAL")
  /\ Save(u, [session[u] EXCEPT !.status = "PAUSED_MANUAL", !.worn = TRUE,
                                !.autoResume = "waiting"])

\* Mutant: the resume forgets to clear autoResumeAt.
ResumedKeepingTimer(row) ==
  [row EXCEPT !.status = "ACTIVE", !.confirmation = "NONE", !.warning = "none",
              !.worn = TRUE]

Resumed(row) ==
  [row EXCEPT !.status = "ACTIVE", !.autoResume = "none", !.confirmation = "NONE",
              !.warning = "none", !.worn = TRUE]

ResumeProtection(u) ==
  /\ Exists(u)
  /\ CanMove(session[u].status, "ACTIVE")
  /\ Save(u, Resumed(session[u]))

ConfirmUserSafe(u) ==
  /\ CanMove(session[u].status, "RECOVERY_PENDING")
  /\ Save(u, [session[u] EXCEPT !.status = "RECOVERY_PENDING", !.warning = "none",
                                !.confirmation = "SAFE_CONFIRMED"])

\* The answer to a warning: the transition is rejected, so nothing of it
\* reaches the row. The ghost remembers that the user answered.
ConfirmUserSafeRejected(u) ==
  /\ session[u].status = "WARNING"
  /\ ~CanMove(session[u].status, "RECOVERY_PENDING")
  /\ answered' = answered \cup {u}
  /\ UNCHANGED <<session, raises, queued, lost, thread, plan, touched>>

UpdateBluetoothPing(u) ==
  LET row == IF Exists(u) THEN [session[u] EXCEPT !.bluetooth = "fresh"] ELSE NewRow
      back == [row EXCEPT !.status = "ACTIVE", !.confirmation = "NONE", !.warning = "none"]
  IN  Save(u, CASE row.status = "WARNING"         -> back
                [] row.status = "PAUSED_OFF_BODY" -> [back EXCEPT !.worn = TRUE]
                [] OTHER                          -> row)

MarkDeviceOffBody(u) ==
  /\ CanMove(session[u].status, "PAUSED_OFF_BODY")
  /\ Save(u, [session[u] EXCEPT !.status = "PAUSED_OFF_BODY", !.worn = FALSE])

\* The off-body analysis looks the session up by its device id. A row without
\* one is looked up by NULL, which fails if another row has none either.
LookupWorks(u) ==
  u \in Paired \/ \A v \in Users \ (Paired \cup {u}) : ~Exists(v)

VitalsStatus(status, level) ==
  CASE level = "ELEVATED" /\ status = "ACTIVE"        -> "SOFT_MONITORING"
    [] level = "NORMAL" /\ status = "SOFT_MONITORING" -> "ACTIVE"
    [] OTHER                                          -> status

\* One vitals report. forceEmergency returns early if an alarm stands; if its
\* transition is rejected the whole report is rolled back.
UpdateVitals(u) ==
  LET row == IF Exists(u) THEN [session[u] EXCEPT !.ping = "fresh", !.bluetooth = "fresh"]
                          ELSE NewRow
  IN  \E v \in {VitalsVerdict(hr, mv, row.worn) : hr \in HeartRates, mv \in Movements} :
        /\ v.lookup => LookupWorks(u)
        /\ \/ v.level = "DANGER" /\ RaiseInTransaction(u, row)
           \/ v.level = "DANGER" /\ row.emergencyTriggered /\ Save(u, row)
           \/ v.level # "DANGER"
                /\ Save(u, [row EXCEPT !.status = VitalsStatus(@, v.level)])

--------------------------------------------------------------------------------
(* SosEventService and PreAlertService: the one-commit events.              *)

MarkSafe(u) ==
  /\ Exists(u)
  /\ Save(u, [session[u] EXCEPT !.emergencyTriggered = FALSE, !.preAlert = FALSE])

StartPreAlert(u) ==
  /\ Exists(u)
  /\ Save(u, [session[u] EXCEPT !.preAlert = TRUE])

CancelPreAlert(u) ==
  /\ Exists(u)
  /\ Save(u, [session[u] EXCEPT !.preAlert = FALSE])

--------------------------------------------------------------------------------
(* The non-transactional SOS requests. Each repository call is a commit of  *)
(* its own; an exception leaves the earlier ones in place.                  *)

Located(u) == [Idle EXCEPT !.pc = "located", !.user = u, !.fresh = TRUE]

\* The first commit, of what the request itself reports. The request goes on
\* to raise the alarm unless the row it read has it raised already.
BeginRequest(t, u, row, alarm) ==
  /\ thread[t] = Idle
  /\ alarm => raises[u] < MaxRaise
  /\ Write(u, row)
  /\ thread' = IF alarm /\ ~row.emergencyTriggered
                 THEN [Outdated({u}) EXCEPT ![t] = Located(u)]
                 ELSE Outdated({u})
  /\ UNCHANGED <<raises, queued, lost>>

\* SOS_BUTTON_PRESSED: the row takes the position of the call. If the call
\* has none there is nothing to save, and the request goes on from its read.
PressSosButton(t, u) ==
  /\ Exists(u)
  /\ BeginRequest(t, u, session[u], TRUE)

PressWithoutPosition(t, u) ==
  /\ Exists(u)
  /\ thread[t] = Idle
  /\ raises[u] < MaxRaise
  /\ ~session[u].emergencyTriggered
  /\ thread' = [thread EXCEPT ![t] = Located(u)]
  /\ UNCHANGED <<session, raises, queued, lost, plan, touched, answered>>

\* A tamper event of a device (TamperDetectionService, processIncident).
ReportTamper(t, u) ==
  /\ u \in Paired
  /\ BeginRequest(t, u, session[u], TRUE)

\* WearableHeartbeatService.processHeartbeat for a device that has a row.
PacketRow(row, worn, connected) ==
  [row EXCEPT !.worn = worn, !.ping = "fresh",
              !.bluetooth = IF connected THEN "fresh" ELSE row.bluetooth]

PacketAlarms(row, worn, connected) ==
  {PacketAlarm(hr, mv, worn, connected, row.preAlert, gps) :
     hr \in HeartRates, mv \in Movements, gps \in GpsRisks}

ProcessHeartbeat(t, u) ==
  /\ u \in Paired
  /\ \E worn, connected \in BOOLEAN :
       \E alarm \in PacketAlarms(session[u], worn, connected) :
         BeginRequest(t, u, PacketRow(session[u], worn, connected), alarm)

\* emergencyTriggered is set; the commit succeeds if the row is still the one
\* the request read.
RaiseAlarm(t) ==
  LET u == thread[t].user
  IN  /\ thread[t].pc = "located"
      /\ thread[t].fresh
      /\ raises[u] < MaxRaise
      /\ Write(u, [session[u] EXCEPT !.emergencyTriggered = TRUE])
      /\ raises' = [raises EXCEPT ![u] = @ + 1]
      /\ thread' = [Outdated({u}) EXCEPT
                      ![t] = [thread[t] EXCEPT !.pc = "flagged", !.raise = raises[u] + 1]]
      /\ UNCHANGED <<queued, lost>>

\* Mutant: the row may be inserted before the flag is committed.
InsertsEarly(t) == thread[t].pc \in {"located", "flagged"}

ReadyToInsert(t) == thread[t].pc = "flagged"

\* The outbox row is inserted; the insert checks no version.
InsertOutboxRow(t) ==
  LET u == thread[t].user
  IN  /\ ReadyToInsert(t)
      /\ queued' = [queued EXCEPT ![u] = @ \cup {thread[t].raise}]
      /\ thread' = [thread EXCEPT ![t].pc = "enqueued"]
      /\ UNCHANGED <<session, raises, lost, plan, touched, answered>>

\* Mutant: the transition may come before the insert.
EntersDangerEarly(t) == thread[t].pc \in {"flagged", "enqueued"}

ReadyForDanger(t) == thread[t].pc = "enqueued"

EnterDanger(t) ==
  LET u == thread[t].user
  IN  /\ ReadyForDanger(t)
      /\ thread[t].fresh
      /\ CanMove(session[u].status, "IN_DANGER")
      /\ Write(u, [session[u] EXCEPT !.status = "IN_DANGER"])
      /\ thread' = [Outdated({u}) EXCEPT ![t] = Idle]
      /\ UNCHANGED <<raises, queued, lost>>

\* The alarms whose flag is committed and whose row is still to be inserted.
Inserting(u) == {thread[t].raise : t \in {x \in Threads : /\ thread[x].user = u
                                                          /\ thread[x].pc = "flagged"}}

\* Mutant: the insert, too, fails when the row was written meanwhile.
FailsBeforeInsert(t) == thread[t].pc # "idle" /\ ~thread[t].fresh

\* An optimistic-lock failure, or a rejected transition, ends the request.
Fails(t) ==
  \/ thread[t].pc \in {"located", "enqueued"} /\ ~thread[t].fresh
  \/ thread[t].pc = "enqueued" /\ ~CanMove(session[thread[t].user].status, "IN_DANGER")

AbandonRequest(t) ==
  /\ Fails(t)
  /\ thread' = [thread EXCEPT ![t] = Idle]
  /\ UNCHANGED <<session, raises, queued, lost, plan, touched, answered>>

\* The database fails under one of the request's statements: what was
\* committed before stays. If it was the insert, the flag has no row for ever.
RequestFails(t) ==
  /\ MayFail
  /\ thread[t] # Idle
  /\ thread' = [thread EXCEPT ![t] = Idle]
  /\ lost' = IF thread[t].pc = "flagged"
               THEN [lost EXCEPT ![thread[t].user] = @ \cup {thread[t].raise}] ELSE lost
  /\ UNCHANGED <<session, raises, queued, plan, touched, answered>>

--------------------------------------------------------------------------------
(* checkHeartbeats: one transaction over all sessions it watches.           *)

\* Mutant: the query leaves out the paused sessions.
WatchedWithoutPaused == {"ACTIVE", "WARNING"}

Watched == {"ACTIVE", "WARNING", "PAUSED_MANUAL", "PAUSED_OFF_BODY"}
Paused == {"PAUSED_MANUAL", "PAUSED_OFF_BODY"}

\* The first rule that matches a row (later rules are skipped by continue).
RuleFor(row) ==
  CASE row.status \notin Watched -> "NOTHING"
    [] row.status \in Watched /\ row.autoResume = "due" -> "AUTO_RESUME"
    [] row.autoResume # "due" /\ row.status = "ACTIVE"
         /\ (row.ping # "fresh" \/ row.bluetooth = "stale") -> "WARN"
    [] row.autoResume # "due" /\ row.status = "WARNING"
         /\ row.confirmation = "SAFE_CONFIRMED" -> "RECOVER"
    [] row.autoResume # "due" /\ row.status = "WARNING"
         /\ row.confirmation = "PENDING" /\ row.warning = "expired"
         /\ ~row.emergencyTriggered -> "NO_RESPONSE"
    [] row.autoResume # "due" /\ row.status \in Paused /\ row.ping = "lost" -> "WARN"
    [] OTHER -> "NOTHING"

RuleTarget == [AUTO_RESUME |-> "ACTIVE", WARN |-> "WARNING",
               RECOVER |-> "ACTIVE", NO_RESPONSE |-> "IN_DANGER"]

\* A rule whose transition is rejected is caught in the loop: no change.
PlanFor(u) ==
  LET rule == RuleFor(session[u])
  IN  IF \/ rule = "NOTHING"
         \/ ~CanMove(session[u].status, RuleTarget[rule])
         \/ rule = "NO_RESPONSE" /\ raises[u] = MaxRaise
        THEN "NOTHING" ELSE rule

\* Mutant: moveToWarning only changes the status.
AfterRuleUnarmed(row, rule) ==
  CASE rule = "AUTO_RESUME" -> [row EXCEPT !.status = "ACTIVE", !.autoResume = "none"]
    [] rule = "WARN"        -> [row EXCEPT !.status = "WARNING"]
    [] OTHER                -> row

AfterRule(row, rule) ==
  CASE rule = "AUTO_RESUME" -> [row EXCEPT !.status = "ACTIVE", !.autoResume = "none"]
    [] rule = "WARN"        -> [row EXCEPT !.status = "WARNING", !.warning = "fresh",
                                           !.confirmation = "PENDING"]
    [] rule = "RECOVER"     -> [row EXCEPT !.status = "ACTIVE", !.warning = "none",
                                           !.confirmation = "NONE"]
    [] rule = "NO_RESPONSE" -> [row EXCEPT !.status = "IN_DANGER",
                                           !.confirmation = "NO_RESPONSE",
                                           !.emergencyTriggered = TRUE]
    [] OTHER                -> row

\* A sweep that plans no change has no effect: it is a stuttering step.
SweepRead ==
  /\ Planned = {}
  /\ plan' = [u \in Users |-> PlanFor(u)]
  /\ plan' # NoPlan
  /\ UNCHANGED <<session, raises, queued, lost, thread, touched, answered>>

Alarmed == {u \in Users : plan[u] = "NO_RESPONSE"}

\* Mutant: the last writer wins.
LastWriterWins == TRUE

NothingTouched == touched = {}

SweepCommit ==
  /\ Planned # {}
  /\ NothingTouched
  /\ session' = [u \in Users |-> AfterRule(session[u], plan[u])]
  /\ raises' = [u \in Users |-> IF u \in Alarmed THEN raises[u] + 1 ELSE raises[u]]
  /\ queued' = [u \in Users |-> IF u \in Alarmed THEN queued[u] \cup {raises[u] + 1}
                                                 ELSE queued[u]]
  /\ thread' = Outdated(Planned)
  /\ answered' = answered \ Planned
  /\ plan' = NoPlan
  /\ touched' = {}
  /\ UNCHANGED lost

\* One row written since it was read fails the commit of all of them.
SweepRollback ==
  /\ touched # {}
  /\ plan' = NoPlan
  /\ touched' = {}
  /\ UNCHANGED <<session, raises, queued, lost, thread, answered>>

--------------------------------------------------------------------------------
(* Time and failure.                                                        *)

Older == [ping       |-> [fresh |-> "stale", stale |-> "lost", lost |-> "lost"],
          bluetooth  |-> [fresh |-> "stale", stale |-> "stale"],
          warning    |-> [none |-> "none", fresh |-> "expired", expired |-> "expired"],
          autoResume |-> [none |-> "none", waiting |-> "due", due |-> "due"]]

Age(u, row) ==
  /\ Exists(u)
  /\ row # session[u]
  /\ session' = [session EXCEPT ![u] = row]
  /\ UNCHANGED <<raises, queued, lost, thread, plan, touched, answered>>

PingAges(u)      == Age(u, [session[u] EXCEPT !.ping = Older.ping[@]])
BluetoothAges(u) == Age(u, [session[u] EXCEPT !.bluetooth = Older.bluetooth[@]])
WarningAges(u)   == Age(u, [session[u] EXCEPT !.warning = Older.warning[@]])
PauseAges(u)     == Age(u, [session[u] EXCEPT !.autoResume = Older.autoResume[@]])

\* The process is killed: what was not committed is gone.
Crash ==
  /\ MayCrash
  /\ Planned # {} \/ \E t \in Threads : thread[t] # Idle
  /\ thread' = [t \in Threads |-> Idle]
  /\ plan' = NoPlan
  /\ touched' = {}
  /\ lost' = [u \in Users |-> lost[u] \cup Inserting(u)]
  /\ UNCHANGED <<session, raises, queued, answered>>

--------------------------------------------------------------------------------
ProtectionCall(u) ==
  \/ "start"     \in Calls /\ StartProtection(u)
  \/ "ping"      \in Calls /\ Ping(u)
  \/ "stop"      \in Calls /\ StopProtection(u)
  \/ "pause"     \in Calls /\ PauseProtection(u)
  \/ "resume"    \in Calls /\ ResumeProtection(u)
  \/ "confirm"   \in Calls /\ (ConfirmUserSafe(u) \/ ConfirmUserSafeRejected(u))
  \/ "bluetooth" \in Calls /\ UpdateBluetoothPing(u)
  \/ "offbody"   \in Calls /\ MarkDeviceOffBody(u)
  \/ "vitals"    \in Calls /\ UpdateVitals(u)
  \/ "marksafe"  \in Calls /\ MarkSafe(u)
  \/ "prealert"  \in Calls /\ (StartPreAlert(u) \/ CancelPreAlert(u))

SosRequest(t, u) ==
  \/ "press"  \in Calls /\ (PressSosButton(t, u) \/ PressWithoutPosition(t, u))
  \/ "tamper" \in Calls /\ ReportTamper(t, u)
  \/ "packet" \in Calls /\ ProcessHeartbeat(t, u)

RequestStep(t) ==
  RaiseAlarm(t) \/ InsertOutboxRow(t) \/ EnterDanger(t) \/ AbandonRequest(t)

Time(u) == PingAges(u) \/ BluetoothAges(u) \/ WarningAges(u) \/ PauseAges(u)

Next ==
  \/ \E u \in Users : ProtectionCall(u) \/ Time(u)
  \/ \E t \in Threads : RequestStep(t) \/ RequestFails(t) \/ \E u \in Users : SosRequest(t, u)
  \/ SweepRead \/ SweepCommit \/ SweepRollback
  \/ Crash

Spec == Init /\ [][Next]_vars

\* The scheduler keeps running the sweep and every request is driven to its
\* end; warnings and pauses age. A sweep is not made to conflict for ever.
Fairness ==
  /\ \A u \in Users : WF_vars(WarningAges(u)) /\ WF_vars(PauseAges(u))
  /\ \A t \in Threads : WF_vars(RequestStep(t))
  /\ WF_vars(SweepRead) /\ WF_vars(SweepRollback) /\ SF_vars(SweepCommit)

FairSpec == Spec /\ Fairness

--------------------------------------------------------------------------------
(* Properties.                                                              *)

\* Every alarm that was ever raised is exactly one of these: it has its outbox
\* row, or one request is about to insert it, or it is lost with the very
\* insert that failed or that a kill of the process prevented. Nothing else
\* loses an alarm between the commit of emergencyTriggered and the insert into
\* sos_outbox, whatever requests and sweeps are interleaved and whatever
\* conflicts end them; and no row stands for an alarm nobody raised.
AlertAccounting ==
  \A u \in Users :
    /\ queued[u] \cup Inserting(u) \cup lost[u] = 1 .. raises[u]
    /\ queued[u] \cap Inserting(u) = {}
    /\ lost[u] \cap (queued[u] \cup Inserting(u)) = {}

\* A session under WARNING always waits for an answer and carries the time
\* the warning was issued: otherwise rule 5 of the sweep could never escalate
\* it, and no other rule would ever leave WARNING.
WarningIsArmed ==
  \A u \in Users : session[u].status = "WARNING" =>
    session[u].confirmation = "PENDING" /\ session[u].warning # "none"

\* Only a paused (or since then ended) session has an autoResumeAt. Rule 1 of
\* the sweep looks at it before anything else and skips the other rules, so a
\* left-over value would switch off the heartbeat watch of an ACTIVE session.
AutoResumeOnlyWhenPaused ==
  \A u \in Users : session[u].autoResume # "none" =>
    session[u].status \in {"PAUSED_MANUAL", "ENDED"}

\* The status of a row is only ever overwritten by one that the validator
\* allows from the status the row really has at that moment, although sweeps
\* and requests validate against the copy they read earlier.
TransitionsRespectTable ==
  [][\A u \in Users : Exists(u) /\ session'[u].status # session[u].status =>
       CanMove(session[u].status, session'[u].status)]_vars

\* Duplicate prevention: an alarm is raised only on a row whose
\* emergencyTriggered is clear when the commit happens, however many requests
\* and sweeps read it clear before.
RaisedOnlyWhenClear ==
  [][\A u \in Users : raises'[u] # raises[u] =>
       ~session[u].emergencyTriggered /\ session'[u].emergencyTriggered]_vars

\* No user is put IN_DANGER before the outbox row of the alarm that stands
\* is durable: not by a request that was overtaken, nor after a crash.
DangerOnlyWithAlert ==
  [][\A u \in Users :
       session[u].status # "IN_DANGER" /\ session'[u].status = "IN_DANGER"
         => raises'[u] \in queued'[u]]_vars

\* The sweep declares NO_RESPONSE only for a user who, at the commit, still
\* has an expired unanswered warning: a ping or an SOS that committed after
\* the sweep read the row takes it back.
NoResponseOnlyIfStillWaiting ==
  [][\A u \in Users :
       session'[u].confirmation = "NO_RESPONSE" /\ session[u].confirmation # "NO_RESPONSE"
         => /\ session[u].status = "WARNING"
            /\ session[u].warning = "expired"
            /\ ~session[u].emergencyTriggered]_vars

\* An unanswered warning of an armed session does not stay: the user recovers
\* or the alarm is raised (rule 5).
ArmedWarningEscalates ==
  \A u \in Users :
    (session[u].status = "WARNING" /\ ~session[u].emergencyTriggered /\ raises[u] < MaxRaise)
      ~> (session[u].status # "WARNING" \/ session[u].emergencyTriggered)

\* A pause of fixed duration ends (rule 1), again and again, even though
\* requests that write a session in between keep rolling the sweep back.
PauseEnds ==
  \A u \in Users : []<>(session[u].status # "PAUSED_MANUAL")

\* No alarm stays between its flag and its outbox row: again and again every
\* alarm raised so far has its row, or is lost because the database failed its
\* insert. No conflict and no refused transition keeps one out for ever.
AlarmsSettle ==
  \A u \in Users : []<>(queued[u] \cup lost[u] = 1 .. raises[u])

\* What requests, sweeps and crashes do to the sessions is only what
\* AlarmPromise allows: they leave alarms raised once, queued once, and nobody
\* IN_DANGER without one.
Promise == INSTANCE AlarmPromise WITH
             status <- [u \in Users |-> session[u].status],
             alarmed <- [u \in Users |-> session[u].emergencyTriggered],
             raised <- raises

KeepsPromise == Promise!Spec

--------------------------------------------------------------------------------
(* What the documentation says of the code and the code does not do.        *)

\* IHeartbeatCheckService: confirmUserSafe marks the user safe "from WARNING
\* state". Then a user who answered the warning is never taken for one who
\* gave no response.
AnswerStopsEscalation ==
  [][\A u \in answered : ~ (session[u].confirmation # "NO_RESPONSE"
                            /\ session'[u].confirmation = "NO_RESPONSE")]_vars

\* ISosTriggerService: triggering "creates outbox event, records timeline, and
\* transitions session state to IN_DANGER". Then a request that has inserted
\* its row and is not overtaken ends with the session IN_DANGER.
TriggerEndsInDanger ==
  [][\A t \in Threads :
       thread[t].pc = "enqueued" /\ thread[t].fresh /\ thread'[t].pc # "enqueued"
         => session'[thread[t].user].status = "IN_DANGER"]_vars

\* checkHeartbeats, comment of rule 6: "PAUSED -> WARNING" when a paused
\* session has not pinged for ten minutes.
LostPausedEscalates ==
  \A u \in Users :
    (session[u].status = "PAUSED_OFF_BODY" /\ session[u].ping = "lost")
      ~> (session[u].status # "PAUSED_OFF_BODY" \/ session[u].ping # "lost")

\* checkHeartbeats, comment of rule 5: "WARNING -> SOS".
WarningEscalates ==
  \A u \in Users :
    (session[u].status = "WARNING" /\ raises[u] < MaxRaise)
      ~> (session[u].status # "WARNING")
================================================================================
