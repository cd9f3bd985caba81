# Verification of the women-safety backend

TLA+ models, TLC runs and TLAPS proofs for the services under `src/`. The
repository is a set of Spring Boot services (Java) around one promise: when a
user is in danger, her emergency contacts are alerted, once, and nobody is
alerted for nothing. The models follow the code in
`src/sosservice/.../sosservice` (package paths below are relative to it unless
another service is named), in `src/notificationservice`,
`src/womensafetyAuthservice` and `src/userservice`.

## 1. Inventory

### The parts, their state and how they interact

| Component | State | Operations | Talks to |
|---|---|---|---|
| **Session state machine** (`statemachine/`) | none (the status is a column of the session row) | `validateTransition`, `transitionState` | called by everything that changes a status |
| **Session lifecycle** (`service/heartbeat/HeartbeatCheckService`, `domain/ActiveSafetySession`) | one row of `active_safety_sessions` per user, with a `@Version` | REST handlers start, ping, stop, pause, resume, confirmSafe, bluetooth ping, vitals, off-body; the sweep `checkHeartbeats` every 60 s | state machine, SOS raising, risk rules |
| **SOS raising** (`service/sos/SosTriggerService`, `SosEventService`, `service/prealert`) | `emergencyTriggered` of the row, rows of `sos_outbox` | button press, mark safe, pre-alert, cancel; `triggerSosViaOutbox` | communication fallback, state machine |
| **Wearable telemetry** (`WearableHeartbeatService`) | session row, `registered_device`, `location_history` | `processHeartbeat` | risk rules, off-body analysis, fusion, SOS raising |
| **Tamper detection** (`service/risk/TamperDetectionService`, `IncidentResponseService`) | session row | `analyze` | SOS raising |
| **Risk and sensor rules** (`service/risk`, `service/sensor`, `OffBodyIntelligenceService`, `GpsIntelligenceService`) | none | pure decisions over one reading | telemetry, vitals |
| **SOS outbox dispatch** (`SosOutboxProcessorService`, `SosRetryService`, `kafka/NotificationProducer`) | status of `sos_outbox` rows, messages in `sos-topic` and `sos-topic-dlt` | a scheduled run over the oldest hundred open rows, three attempts each, dead-lettering | user service (contacts), Kafka |
| **SOS notification delivery** (`notificationservice`: `SosNotificationConsumer`, `TwilioService`) | consumer offsets | SMS and voice calls; a message that failed is taken again | Kafka, Twilio |
| **Communication fallback** (`service/communication`) | failure counter and mode of the session | a chain of gateways | phone, relay, LoRa, satellite gateways |
| **Device monitor** (`scheduler/HeartbeatMonitorJob`, `HeartbeatLossService`) | `registered_device` | marks silent devices | timeline |
| **Incidents** (`service/incident`, `service/emergency`) | rows of `incidents` and `incident_events` | create, change of status, `executeEmergency` | SOS raising, timeline |
| **Police dispatch**, **acknowledgement** | dispatches | delivery confirmation | timeline |
| **Tracking**, **timeline and evidence**, **family dashboards** | recorded locations; append-only records; projections | | |
| **Accounts** (`womensafetyAuthservice`: `AuthService`) | users, reset tokens | register, verify, reset | one-time passwords, Kafka (`user.created`) |
| **One-time passwords and outbox** (`OtpService`, `OutboxPublisher`) | challenges, `outbox_events` | create, confirm, resend; batches of several instances | Kafka (`user.verified`) |
| **User profiles and contacts** (`userservice`) | profiles, contacts | add, change, delete a contact, replace a profile; consumers of `user.created` and `user.verified` | Kafka |
| **API gateway, shared DTOs, infrastructure, AI client** | none | | |

### What is hard

* *Interleaving.* The sweep and any number of requests work on the same rows.
  The only coordination is `@Version`: it detects that a row was written since
  it was read, at the commit, and only there.
* *Atomicity.* Handlers marked `@Transactional` commit one row once. The SOS
  requests (button, wearable packet, tamper event) are not transactional: every
  `repository.save` is a commit of its own, and an exception leaves the earlier
  commits in place. The sweep, in contrast, is one transaction over all users.
* *Partial failure and crashes* between those commits; between sending and
  marking an outbox row; between dead-lettering and saving its outcome.
* *Protocol.* The handlers ask for transitions the validator may refuse,
  sometimes after other effects were committed.
* *Stale copies.* Rows outside the sessions have no version. A request reads,
  checks and writes the whole row later: accounts, profiles and incidents are
  overwritten by the last writer, and the rules on contacts are checked against
  a list that may have changed.
* *Unreliable delivery.* Consumers commit an offset after the work and are given
  a message again when they are killed. They mean to forward failures to retry
  topics and dead letters (`@RetryableTopic`), but no serializer is configured
  for what they would publish: a message that failed is taken again as well.
* *Liveness.* A warning nobody answers must become an alarm, an alarm must
  not stay between flag and outbox row, a row must be sent or dead-lettered.

### What makes each part correct

* Sessions: only the validator's transitions; a warning can always escalate;
  a pause ends; a user who was heard of is not declared unresponsive; a
  leftover timer never shadows the heartbeat rules.
* Raising: no duplicate alarm; an alarm is lost only with the failed or killed
  insert of its own outbox row; never `IN_DANGER` without a durable alert.
* Dispatch: a `PUBLISHED` row reached every contact; no gaps; settled rows are
  never sent again; every row settles.
* Delivery: a message that came into the topic has reached its contact or still
  waits; together with the dispatch, every alert comes to an end if the provider
  recovers.
* Accounts: a challenge is announced as confirmed once (but for overlapping
  requests), the announcement arrives, a created account is announced or known
  to be lost, and verification is only lost to overlapping requests.
* Contacts: a number once per profile; limit, last contact and the ban on the
  own number are only broken by overlapping requests, and the last contact by
  the requests of other users that name it by its id.
* Incidents: stamps tell a legal history, the timeline agrees with them, and an
  emergency is an incident together with its alarm, or neither.
* Rules: the off-body analysis, the sensor rules and their fusion, each with its
  own thresholds, do not contradict each other; the verdict on a vitals report,
  the risk score included, does not drop when a reading gets more alarming.

`PROJECT.json` lists every component with its status, and every hazard at the
line where it bites with the properties that cover it.

## 2. Modules

| Module | What it is |
|---|---|
| `SessionStates` | the statuses and the validator's table; `CanMove` is `transitionState` succeeding, with the bootstrap of a new session |
| `RiskRules` | the sensor rules as operators |
| `RiskReadings`, `RiskProofs` | readings that get more alarming one step at a time, to compare the rules over whole ranges; the comparison, proved |
| `SafetySession` | session lifecycle, sweep, SOS raising, packets and tamper events |
| `AlarmPromise` | abstract: what the sessions promise about alarms, without threads, versions and sweeps; implemented by `SafetySession` |
| `SafetySessionProofs` | the inductive invariant and the state properties, proved |
| `SafetySessionSteps` | the action properties and the refinement of `AlarmPromise`, proved |
| `SosDispatch`, `SosDispatchProofs` | the outbox dispatch and its proofs |
| `AlertDelivery` | abstract: an alert is raised and then sent or abandoned; every message of a sent alert reaches its contact |
| `SosDelivery`, `MCSosDelivery`, `SosDeliveryProofs` | the dispatch composed with the consumer of the notification service; implements `AlertDelivery` |
| `EventOutbox` | the transactional outbox of the auth service and its publishers |
| `Accounts`, `MCAccounts`, `AccountsProofs` | an account, its challenges and the requests on them, on top of `EventOutbox` |
| `UserProfiles` | how `user.created` becomes a profile |
| `EmergencyContacts`, `MCContacts`, `EmergencyContactsProofs` | contacts and the requests that change them, on top of `UserProfiles` |
| `Incidents`, `MCIncidents`, `IncidentsProofs` | incidents, their timeline, and emergencies |

### How `SafetySession` corresponds to the code

*State.* `session` is the table of rows. A time stamp is kept as its age
relative to the thresholds the sweep compares it with (`ping`: over three and
over ten minutes, `bluetooth`: over two, `warning`: over sixty seconds,
`autoResume`: passed or not). Ages of one row advance independently, which
covers more behaviours than the clock allows. `raises` counts how often
`emergencyTriggered` of a user was set and gives each alarm its number;
`queued` holds the numbers that have an outbox row, the ghost `lost` those that
never get one. `thread` is what the
non-transactional requests in progress hold; `plan` and `touched` are the
persistence context of the sweep. `answered` is another ghost.

*Transactional handlers* (`StartProtection` ... `UpdateVitals`) are single
steps. This is what `@Version` gives for a transaction over one row: if the row
was written between its read and its commit the transaction rolls back and
nothing of it remains; otherwise it could as well have run at the moment of its
commit. A handler whose transition is refused rolls back too, so its action is
simply not enabled.

*The alarm of a vitals report* is part of its transaction (`RaiseInTransaction`):
flag, outbox row and status become visible together, and a refused transition
undoes the report.

*Non-transactional SOS requests* are sequences of commits: `BeginRequest` (what
the call or packet itself reports), `RaiseAlarm` (the flag), `InsertOutboxRow`,
`EnterDanger`. The request keeps the row it read (the persistence context is
open for the whole request), so it compares versions at each commit: `fresh`
says that nobody else wrote the row since. The insert checks no version. A save
that changes nothing is no commit: a press without a position only reads the
row (`PressWithoutPosition`). A request whose row has the flag set already ends
after its first commit (`DUPLICATE_SOS_PREVENTED`), so a thread is only started
for a clear flag. Commits in the middle that change nothing a property reads
(tracking id, risk score, communication mode) are merged with their neighbours;
the phone gateway of this version always acknowledges.

*Failing statements* (`MayFail`). The database may refuse any commit of such a
request (`RequestFails`): the exception ends the request and what it committed
before stays. If it is the insert of the outbox row that fails, the flag stays
set without a row, as after a kill at that moment (`Crash`), and every later
alarm of the user is a duplicate until the flag is reset. A save whose answer is
lost is a commit and then a failure. A transactional handler or a sweep that
fails rolls back, so that no step is needed for it.

*The sweep* reads all watched rows (`SweepRead` computes the rule that matches
each), and commits the changes of all rows or of none (`SweepCommit`,
`SweepRollback`). The `catch (ObjectOptimisticLockingFailureException)` inside
its loop never sees a conflict, because the flush happens at the commit of the
surrounding transaction. The `IllegalArgumentException` of a refused transition
is caught in the loop and does not mark the transaction, since the validator is
no transactional bean.

*Device ids.* `registered_device` ids reach a session row only if the row has
them already (`findByDeviceId`), and no code writes the first one. Users with a
provisioned row are in `Paired`, which is external to the code; packets and
tamper events exist for them only. For all others the off-body analysis looks
for a null device id, which fails once two such rows exist (`LookupWorks`): no
vitals report of any of them is recorded then.

*Left out.* Positions, battery, risk scores, tracking ids and timeline entries
change no decision that is modelled; logging and messages likewise. The GPS
analysis is the set of risks it can return. The AI prediction is disabled in
this version (`prediction = null`), and so are its inputs.

### How `SosDispatch` corresponds to the code

`status` and `created` are columns of `sos_outbox`; `topic` and `deadLetters`
are what is in Kafka; `batch` is the list a run has read, `job` the call of
`sendWithRetry` in progress with the status of its entity in memory. Messages
are numbered in sending order, two (SMS, voice) for each contact. Any call to
the broker, the user service or the database may fail; a send whose
acknowledgement times out, or a save whose answer is lost, may still have taken
effect. `retry_count` and `failure_reason` are written and never read, the status
`RETRY` is never written: they are left out. There is one scheduler thread and one process, as
deployed. The retry delays are not modelled; `MaxCrash` bounds restarts.

One consequence of the memory copy is visible in the model: if the save after
the last send fails, the next attempt first saves `PUBLISHED` and then sends
everything again, and may end in `FAILED` or `DLT`. `SettledStaysSettled`
therefore speaks of rows the scheduler is not working on.

### How `SosDelivery` corresponds to the code

It extends `SosDispatch`: a message that `SendMessage` (or a send that only
seems to fail) puts into `sos-topic` is in `waiting` until its offset is
committed. `Take` hands it to a consumer thread (`handling`), whose attempt ends
in `Deliver` or `FailedAttempt`; `KilledInAttempt` stops the process before the
commit. A provider call that throws, or is killed, may have reached the contact
(`reached`).

`@RetryableTopic` should publish a failed message to a retry topic, and in the
end to `sos-topic-dlt`. The service sets no `value-serializer` for a producer
and defines no `KafkaTemplate`, so Spring Boot's default `StringSerializer` is
given a `NotificationRequest`: the publication throws, the offset is not
committed, and the record is taken from `sos-topic` again (`NotForwarded`). The
other topics stay empty, and neither they nor the number of attempts are state.

Which waiting message comes next is left open. In the code a message that keeps
failing holds up those behind it in its partition; the model allows that and any
other order. Messages do not influence each other otherwise, so a run may follow
some of them (`Followed`).

`Fate` is the refinement mapping to `AlertDelivery`: a row counts as settled
when its status is final and the scheduler has gone on, because a status that
came from memory may still change before (see above).

### How `EventOutbox` and `Accounts` correspond to the code

*Outbox.* `rows` are the rows of `outbox_events`, `marked` those with
`published_at`. `Fetch` is `SELECT ... FOR UPDATE SKIP LOCKED`: an instance gets
unpublished rows nobody has locked. It sends them one by one (`SendOk`,
`SendFailed`, after which an event may be in the topic all the same) and commits the marks of what was
acknowledged (`CommitMarks`). `BreakOff` is a kill or a failed commit: marks and
locks are undone, the messages are not. `failures` counts both.

*Accounts.* `register` and `resetPassword` are not transactional: `RegisterRead`,
`SaveExisting` or `SaveNew`, the transaction of `createOtp`, and the sending of
`user.created` are steps of their own. `OtpService` runs in transactions, which
read (`ConfirmRead`, ...) and commit later; there is no version, so whatever was
read is written back (`WrittenBack`). Two challenges of one user may be pending
because the latest is found by the order of random ids. A wrong code changes
nothing: the exception rolls the counted attempt back (`RolledBack`), and no
challenge is ever `BLOCKED`.

### How `UserProfiles` and `EmergencyContacts` correspond to the code

`waiting`, `Consume` and `FailedAttempt` are the consumer of `user.created`,
which cannot forward what failed either and takes it again. Requests of
`EmergencyContactService` are not transactional: the reads are one step
(`AddRead`, ...), the write another, checked by nothing but the unique key on
profile and number (`Unique`).

`updateProfile` is one transaction (`ReplaceRead`, `ReplaceCommit`); it neither
normalises numbers nor compares them with the user's own. It attaches whatever
contacts the client sends, with their ids: one of another profile is re-homed by
the merge, without a question whose it is (`KnownIds`). `Replaced` is the flush:
inserts first, then the updates row by row in some order (`InTurn`), then the
deletes, each under the unique key. A contact sent back unchanged is no update,
which differs from one only if another profile has taken it meanwhile.
`updateContact` writes the whole row it read: taken meanwhile, it comes back.
`deleteContact` does not look whose contact it deletes either.

`RewriteRead` and `RewriteCommit` stand for the upload of a picture and the
consumer of `user.verified`, which write the whole profile as they read it.
Numbers are pairs of a phone and its form, because the unique key compares the
strings: `+91...` and a number as typed are different to it.

### How `Incidents` corresponds to the code

`incident` holds status and time stamps of each row, the stamps in the order of
their times; `timeline` holds what `incident_events` reports. `updateStatus`
reads the row (`UpdateRead`) and commits the whole row and one timeline entry
(`UpdateCommit`); from `CREATED` to `CREATED` nothing in the row changes, so only
the entry is written. `executeEmergency` is one transaction: the incident,
already in `TRACKING`, its entries, and (`EmergencyRaises`) flag, outbox row and
status of the session, or (`EmergencyRepeats`) nothing of them when the flag was
set. The session has a version: a copy that is no longer current makes the whole
transaction roll back. What other requests do to the session is the subject of
`SafetySession`; here `SessionWritten` puts it into any of the states `Others`.
Any transaction may be rolled back at any time. `executeEmergency` is reached
only from an endpoint of `TestController` in this version.

## 3. Runs

| Run | Instance | Shows |
|---|---|---|
| `session_races` | one paired user, two request threads, twelve calls, two alarms, any commit of an SOS request may fail, no crash, fair | `AlertAccounting`, `WarningIsArmed`, `AutoResumeOnlyWhenPaused`, `TransitionsRespectTable`, `RaisedOnlyWhenClear` with every call interleaved with the sweep; `KeepsPromise`, that all this implements `AlarmPromise`; `ArmedWarningEscalates`, `AlarmsSettle`, and `PauseEnds` although calls keep rolling the sweep back |
| `session_batch` | two users, one thread, failures and crashes, off-body reports | `NoResponseOnlyIfStillWaiting`: a sweep over several rows against pings and presses of any of them; `DangerOnlyWithAlert` although an alarm may be lost by a failed insert or a crash; `IInv`, the inductive invariant of the proofs, on every reachable state |
| `risk_rules` | heart rates 90 to 160, movement 0 to 100 | `RuleSetsAgree` (off-body analysis, sensor rules and fusion), `VerdictNeverDrops` |
| `delivery` | two alerts, two contacts, runs of one row, two attempts of the dispatch, one restart of it, one message followed, fair, and a provider that recovers | `PublishedReachesAll`, `SentInOrder`, `SettledStaysSettled`, `EveryAlertSettles`; `NothingLost`; that the composition implements `AlertDelivery`: `DoesWhatItMay` (safety) and `KeepsItsPromise` (progress) |
| `accounts` | one account, two challenges, two requests at a time, one of them killed or one `user.created` lost, two publishers with batches of two, one failure, fair publishers | `ExclusiveRows`, `SentOncePerFailure`, `ConfirmedOncePerOverlap`, `CreatedAccounting`, `VerificationLostToOverlap`, `ConfirmationArrives` |
| `contacts` | two users, one of them without a profile yet, two phones, one of them in two forms, lists of at most two, three contacts ever made, two requests at a time, one `updateProfile` among them | `ProfileAccounting`, `NumberOnce`, `LimitLostToOverlap`, `LastContactLostToOverlap`, `OwnPhoneLostToOverlap` |
| `incidents` | two incidents, two requests at a time, a session that others activate, pause or put in danger | `HistoryIsLegal`, `StampsReported`, `HistoryLostToOverlap`, `EmergencyRaisesOrRepeats` |

Every run but `risk_rules` and `session_races` checks its type invariant as well
(in `session_batch` it is a part of `IInv`, which holds for the sessions of both
runs).

*Properties of the form "... only by overlap".* Where the code checks first and
writes later without a lock, the plain rule (at most fifteen contacts, a
verified account stays verified, a closed incident stays closed) is false, and
the code makes no attempt to keep it. The property then says exactly how it can
break: only by a request whose copy was overtaken. A single missing check in a
handler breaks it; so does a request that writes something it did not read.

*Why the bounds suffice.* Rows of different users interact only through the
sweep (all or none) and the null device id; two users show both. Two threads
are enough for a race between requests, the sweep is a third actor. Two alarms
per user let a second one follow a reset of the first. The readings reach every outcome that a report or
packet can have for the session; `risk_rules` covers the ranges themselves, all
thresholds included. `MayFail` is TRUE in both runs; crashes
(`MayCrash`) are left to `session_batch`, since to one user a kill is a failure
of all requests at once.

In `delivery`, with two alerts and runs of one row the limit of a run is reached
(`BatchSize`): a row that cannot be sent holds up the other, the case in which
`EveryAlertSettles` could fail. Two contacts give a gap somewhere to appear. Two
attempts (`MaxAttempts`; the code has three) have a first, a last and a retry;
one restart (`MaxCrash`) may fall on any step. `Followed` is
one message: deliveries do not influence each other. Kills and failures of the
consumer are not bounded.

In `accounts`, the confirmations of one challenge by two overlapping requests
(`Followed`: the first two events of challenge 1) are followed to the topic;
`MaxFailures` and `MaxKills` are one each, since the properties are stated per
failure. In `contacts`, `MaxContacts` is two instead of fifteen, the least at
which a limit, a last contact and a third one exist; `MaxId` bounds the contacts
ever made and lets one id of three be a contact made anew; `MaxReplaces` lets
one request at a time be an `updateProfile`, which may send the ids of either
user's contacts (two of them at a time are covered by the proofs); `Typed` lets
one phone come in two forms; `Registered` leaves one user without a profile; failures and kills of the consumer are not bounded.
In `incidents`, `MaxIncidents` is two, so that overlapping emergencies can open
one each. The proofs lift the safety properties to all sizes, with any batch,
number of attempts, threads, users and contacts.

*Deadlock* is checked in the runs of `SafetySession`, where some call or the sweep
is always possible. It is not checked in the others: an empty outbox leaves the
scheduler with nothing to do, and the counters of the instances run out.

*Fairness.* The scheduler runs the sweep again and again (`WF` on reading and
rolling back), a request that has begun is executed by its thread (`WF`), and
time passes for warnings and pauses (`WF`). `SF` on `SweepCommit` says that the
sweep is not made to conflict in every single round: it takes milliseconds once
a minute. Without it, `PauseEnds` is false, because a conflict on any row undoes
the round for everybody. In the dispatch, `WF` on the scheduler, and `SF` on
dead-lettering and on saving its outcome: the broker and the database do not
refuse one alert in every run for ever. In the delivery, `WF` on taking each
waiting message and `SF` on the end of its attempt, in success or failure: Kafka
hands out what is not committed, and a consumer is not killed in every attempt
(`FairDeliverySpec`). That is all the code justifies, and `endless_retry` shows
it is not enough. `delivery` assumes in addition that the provider recovers (`SF`
on `Deliver`, `RecoveringSpec`); a message behind a failing one in its partition
is then taken, too. In the accounts, `WF` on each publisher's
schedule; requests may stop anywhere, since `ConfirmationArrives` speaks of
committed confirmations only. Contacts and incidents need no fairness. No user
and no device is assumed to call.

*Mutants.* For every property of every passing run there is a plausible mistake
in the code (a missing `@Version`, a reset that is forgotten, a retry that
resumes in the middle, a query that leaves a status out, a lock that is not
taken) under which the run reports the property violated. They stand beside the
definitions they change, marked `Mutant`.

## 4. Where documentation and code differ

Five runs expect a violation. Each checks one sentence of the documentation:

| Run | The documentation says | The code |
|---|---|---|
| `answer_ignored` | `confirmUserSafe` marks the user safe from WARNING (`IHeartbeatCheckService:50`) | asks for `RECOVERY_PENDING`, refused from `WARNING`: the answer is dropped and the next sweep escalates as `NO_RESPONSE` |
| `trigger_rejected` | triggering creates the outbox event and moves the session to `IN_DANGER` (`ISosTriggerService:13`) | from `PAUSED_MANUAL`, `ENDED` or `IN_DANGER` flag and outbox row are committed, then the transition is refused |
| `lost_pause` | rule 6, "PAUSED -> WARNING" | the validator allows `WARNING` only from `ACTIVE` and `SOFT_MONITORING`: a paused session whose device is lost stays paused |
| `warning_disarmed` | rule 5, "WARNING -> SOS" | a flag left from an earlier alarm (back to `ACTIVE` by resume) keeps the rule from ever applying |
| `endless_retry` | a message that fails is tried four times and goes to `sos-topic-dlt` (`SosNotificationConsumer:22`, `:115`) | it can be published to no other topic and is taken from `sos-topic` again without end, unless the provider recovers |

The rules 4 (`RECOVER`) and 6 are therefore dead code for reachable rows; the
proofs show this as well (`GoodPlan`).

Two more differences have no run. A vitals report of a user without a device id
fails once two such rows exist (`LookupWorks`), although vitals from the wearable
are to be recorded (`IHeartbeatCheckService:62`). The consumers of the user
service mean to forward what failed and cannot, for the same reason as in
`endless_retry`.

## 5. Proofs

All theorems hold for every value of the constants under the assumptions of the
modules (`SafetyAssumption`, `DispatchAssumption`, `DeliveryAssumption`,
`OutboxAssumption`, `AccountsAssumption`, `ProfilesAssumption`,
`ContactsAssumption`, `IncidentsAssumption`, `ReadingAssumption`), which only
give the constants their types (`Paired` is a subset of `Users`, the null values
are no users and no alerts, counts are natural numbers, `Alerts` and the threads
are finite).

Every invariant and every action property that a run checks is proved; what is
left to TLC is liveness (see the end of this section).

### Sessions and alarms

**`SafetySessionProofs`.** `IInv` is `TypeOK /\ RowsOK /\ RequestsOK /\ PlansOK
/\ OneInserter /\ AlertAccounting`. The state properties are not inductive alone: the sweep
commits what it planned from an earlier copy, so `PlansOK` says that a row whose
plan was not overtaken still satisfies the condition of its rule; a request goes
on from an earlier copy, so `RequestsOK` says that a fresh request still knows
the flag clear (before raising) or its own alarm the latest one (after). `RowsOK`
are the two row properties. `AlertAccounting` divides the alarms raised into
those queued, those a request is about to insert, and those lost with the failed
or killed insert of their own; it needs `OneInserter`, that no two requests hold
the same alarm, for the failure of one of them must not lose the other's.
Theorems: `Inductive`, `TypeCorrect`, `EveryAlarmAccounted` (`AlertAccounting`),
`WarningStaysArmed`, `TimerOnlyWhenPaused`. One lemma per
action; commits of one row share `WriteStep`, `SaveStep` and `RaiseStep`.

**`SafetySessionSteps`.** The four action properties, from `IInv` and `Known` (a
user without a row has no alarm; requests work on rows that exist; paired users
have rows). `StepOK` collects what one step may do; each handler is shown to
commit a `Successor` of the row it read. Theorems: `MovesRespectTable`,
`NoDuplicateRaise`, `DangerImpliesAlert`, `OnlyTheSilentEscalate`.

*The refinement of `AlarmPromise`.* Its variables are read off those of
`SafetySession` (`Promise`): the status of each row, its flag, `raises` and
`queued`. `PromiseKept` (`Spec => KeepsPromise`) needs one invariant more,
`Owned`: a request that has set the flag and whose copy is current still finds
it set, the number of its alarm has no outbox row before it inserts it, and no
two requests are about to insert the same number. It is what makes
`InsertOutboxRow` a `Queue` of a new number and `EnterDanger` one that enters
with the standing alarm; without it a late insert could queue an alarm twice.
The sweep is one step of the promise for all its users together, which is why
`AlarmPromise!Next` lets every user move at once. Each kind of commit has a lemma
(`...Promised`) that maps it to a step of the promise. `AlertBehindDanger` (no
session is `IN_DANGER` without an alarm in the outbox) is then proved from the
promise alone.

### Dispatch and delivery

**`SosDispatchProofs`.** `IInv` adds to the properties what the scheduler knows
of its alert (`JobOK`: everything before the next message is in the topic;
`PUBLISHED` is in memory only when all messages are) and of the rows it has read
(`BatchOK`: open, and none of them the one in work). Theorems: `Inductive`,
`TypeCorrect`, `NobodyLeftOut`, `NoGaps`, `SettledForGood`.

`NoRowHoldsTheScheduler` is the part of `EveryAlertSettles` that rests on no
fairness of brokers and databases: `Remaining` measures what is left to do for
the row in work, taking a row sets it to `RunLength`
(`MaxAttempts * (2 * Contacts + 3) + 2`), and every step on the row lowers it,
whether calls succeed, fail or leave their outcome open. A row that cannot be
sent holds up the others for at most that many steps.

**`SosDeliveryProofs`.** The invariant `DInv` adds to that of the dispatch the
types of the delivery, `NothingLost` and `Backed` (what is in the topic belongs to
an alert that has a row, and a consumer works only on what waits). A message
leaves `waiting` only when its contact was reached, and what failed or was killed
leaves it there (`MessagesNeverLost`).
`DispatchCarriesOver` shows that the composition still implements `SosDispatch`,
so that its theorems need not be proved again; `PublishedMessagesAnswered` joins
them with `NothingLost`: every followed message of a `PUBLISHED` row was reached
or waits. `DeliveryRefines` is the refinement of the
safety part of `AlertDelivery`: initial states map to initial states, and every
step to a step or a stutter; a change of `Fate` needs `SettledForGood`'s
argument, that a row out of the scheduler's hands keeps its final status.

### Risk rules

**`RiskProofs`.** The lemmas are about the rules for all integers: which results
the off-body analysis has (`OffBodyRisks`), that the fusion of the scores asks
for an SOS only beside an off-body danger (`FusionNeedsOffBody`), that no rule
takes a verdict back when a reading gets more alarming. From them, for every
range of readings: `RulesAgree` (`RuleSetsAgree`), `VerdictsMonotone`
(`VerdictNeverDrops`), and `SensorRulesDecide`: whether a packet raises an alarm
is decided by its sensor values alone.

### Accounts and the outbox of events

**`AccountsProofs`.** Three invariants go together: of the outbox (what an
instance has sent lies in the rows it has locked, and these exclude those of the
others), of registrations (a thread that holds a new account is the only one, and
the account exists), and of confirmations (those announced are numbered without
a gap; a challenge that may still be confirmed has none). `ConfirmedOnce` counts
the threads that have confirmed or still can. Theorems: `AccountsInductive`,
`AccountsTypeCorrect`, `RowsExclusive`, `SentOnce`, `ConfirmedOnce`,
`CreatedAccounted`, `VerificationLoss`.

The outbox is also proved by itself: `OutboxCorrect` for `OutboxSpec`, in which
anything may insert events at any time, and `AccountsUseOutbox`, that to the
outbox the accounts are such an environment. `NothingSentAfterItsMark`: no event
vanishes, and a marked one stays marked and is sent by nobody any more.
`ConfirmedIsAnnounced` is the part of `ConfirmationArrives` without fairness: a
confirmed challenge has its event in the outbox in every state.

### Profiles and contacts

**`EmergencyContactsProofs`.** The invariant adds to types and properties what
each request checked when it read: its list was under the limit, had more than
one contact, did not hold the number, and the number was not the own one it had
read. A commit that finds the list it has read then keeps the rule; this gives
the three action properties. For a new list three lemmas are needed: that it is
within the limit (`ReplaceWithinLimit`), leaves at least one contact
(`ReplaceLeavesOne`) unless its request was overtaken, and that the lists of the
others can only shrink (`OthersShrink`), which is how a request of another user
takes a last contact. Theorems: `ContactsInductive`,
`ContactsTypeCorrect`, `ProfileAccounted`, `NumbersOnce`, `LimitLoss`,
`LastContactLoss`, `OwnPhoneLoss`.

### Incidents

**`IncidentsProofs`.** A row that was read is written back later, whatever became
of it, so that the invariant says of copies in memory what it says of rows: their
stamps tell a legal history (`Coherent`) and are in the timeline; a current copy
of the session is the session. `StampedRow` is the lemma on one valid move.
Theorems: `IncidentsInductive`, `IncidentsTypeCorrect`, `LegalHistories`,
`ReportedStamps`, `HistoryLoss`, `EmergencyAlarm`. `OneStampPerStatus` ranks the
statuses, shows that every move of the validator rises, and concludes that no
status is stamped twice: one column for each, as the table has, is enough.

### What taking turns would be enough for

Four theorems turn the properties of the form "... only by overlap" round. The
code takes no lock and has no version in these places, so each has the turns as
a hypothesis on the behaviour, as weak as the proof allows:

| Theorem | If ... | then ... |
|---|---|---|
| `LimitKeptInTurns` | of the requests of one user that may add contacts (`addContact`, `updateContact`, `updateProfile`) only one runs at a time | no list exceeds `MaxContacts`, whatever deletions and requests of other users overlap with them |
| `ContactLeftInTurns` | of the requests that change one user's contacts only one runs at a time, and `deleteContact` and `updateProfile` leave the lists of other users alone, which neither sees to | who has contacts keeps at least one |
| `VerifiedForGood` | no account is verified while another request holds its row as it was before | a verified account stays verified |
| `HistoryKeptInTurns` | of the status changes of one incident only one runs at a time | no stamp is lost and a `CLOSED` incident stays as it is |

The invariants behind them say that the copies requests hold are still good:
`ReadAll` (the list may have shrunk since it was read, not grown, and the contact
being updated still fits in), `ReadExactly` (no request is overtaken),
`CopiesCurrent` and `RowsCurrent`.

### Model-checked only

The liveness properties `ArmedWarningEscalates`, `AlarmsSettle`, `PauseEnds`,
`EveryAlertSettles`, `ConfirmationArrives` and the progress part of
`AlertDelivery`, `KeepsItsPromise` (fairness is out of the prover's reach). The safety that liveness rests on is
proved where it could be stated: `NoRowHoldsTheScheduler`,
`ConfirmedIsAnnounced`, `DeliveryRefines`.

## 6. Not modelled

* *Communication fallback*: the phone gateway of this version always
  acknowledges, so that the chain of gateways never gets to its second link.
* *Device monitor*: marks silent devices inactive and adds to a risk score; no
  decision that is modelled reads either. A failure between the two loses the
  second for good, which is listed as a hazard.
* *Tracking*: locations are inserted, marked inactive and labelled with an
  incident by single statements; no decision reads them. Whether the label can
  be written before the incident's own insert is flushed is a question about
  the persistence library; the model lets every emergency be rolled back.
* *Police dispatch and acknowledgement*: `dispatchIncident` has no caller, so no
  dispatch exists and the acknowledgements change nothing.
* *Direct SOS endpoint* (`SosController`): one synchronous call of
  `sendAutomaticSOS`, with no row, no retry and no state.
* *Mail notifications*: consumers that send one mail and keep no state.
* *Accounts*, partly: the tokens of password resets (a reset may come at any
  time in the model), and `createVerificationToken`, which has no caller.
* *Wearable telemetry* and *tamper detection*, partly: `location_history`,
  `registered_device` and risk scores, which no modelled decision reads.
* Read-only projections (dashboards, stale-user queries), evidence records, the
  API gateway, DTOs, deployment, and the AI prediction service, none of which
  takes part in a decision that changes the state above.

What could still be done: the session and its emergencies in one composition
with `SosDispatch` (the row that `SafetySession` queues is the alert that
`SosDelivery` raises), and the device monitor together with the risk scores,
should a later version decide on them.
