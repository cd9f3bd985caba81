------------------------------ MODULE SosDispatch ------------------------------
(***************************************************************************)
(* How the rows of sos_outbox become messages for the emergency contacts:  *)
(* the scheduled processor (SosOutboxProcessorService) takes the open rows *)
(* in order of creation, sends each with up to three attempts              *)
(* (SosRetryService), one Kafka message per contact and channel            *)
(* (NotificationProducer), and dead-letters what it cannot send.           *)
(*                                                                         *)
(* The messages of an alert are numbered in the order in which they are    *)
(* sent: 2*c - 1 is the SMS and 2*c the voice call for contact c. The      *)
(* broker and the user service may fail at every call; a send whose        *)
(* acknowledgement times out may have reached the topic. A save to the     *)
(* database may fail, too, before or after its commit. The scheduler keeps *)
(* a copy of the row in memory, whose status it saves at the start of      *)
(* every attempt. retry_count and failure_reason, which no code reads, are *)
(* left out.                                                               *)
(***************************************************************************)
EXTENDS Naturals, FiniteSets

CONSTANTS
  Alerts,       \* rows that triggerSosViaOutbox inserts
  NoAlert,      \* a null value
  Contacts,     \* number of emergency contacts of the user
  BatchSize,    \* rows taken in one run (findTop100...)
  MaxAttempts,  \* attempts per row and run (@Retryable maxAttempts)
  MaxCrash      \* restarts of the process (a bound)

ASSUME DispatchAssumption ==
  /\ IsFiniteSet(Alerts)
  /\ NoAlert \notin Alerts
  /\ Contacts \in Nat \ {0}
  /\ BatchSize \in Nat \ {0}
  /\ MaxAttempts \in Nat \ {0}
  /\ MaxCrash \in Nat

VARIABLES
  status,       \* the status of each row
  created,      \* its created_at, as its place in the order of insertion
  batch,        \* the rows the current run has read and not yet taken
  job,          \* what the scheduler thread is doing
  topic,        \* for each alert, its messages in sos-topic
  deadLetters,  \* the alerts in sos-topic-dlt
  crashes       \* restarts so far

vars == <<status, created, batch, job, topic, deadLetters, crashes>>

Messages == 1 .. 2 * Contacts
Statuses == {"PENDING", "PUBLISHED", "FAILED", "DLT"}
Settled == {"PUBLISHED", "DLT"}

Job == [pc      : {"idle", "begin", "fetch", "send", "recover", "outcome"},
        alert   : Alerts \cup {NoAlert},
        memory  : Statuses,           \* the status of the copy in memory
        attempt : 0 .. MaxAttempts,
        next    : 1 .. 2 * Contacts + 1]

NoJob == [pc |-> "idle", alert |-> NoAlert, memory |-> "PENDING", attempt |-> 0, next |-> 1]

TypeOK ==
  /\ status \in [Alerts -> Statuses \cup {"ABSENT"}]
  /\ created \in [Alerts -> Nat]
  /\ batch \subseteq Alerts
  /\ job \in Job
  /\ topic \in [Alerts -> SUBSET Messages]
  /\ deadLetters \subseteq Alerts
  /\ crashes \in 0 .. MaxCrash

Init ==
  /\ status = [a \in Alerts |-> "ABSENT"]
  /\ created = [a \in Alerts |-> 0]
  /\ batch = {}
  /\ job = NoJob
  /\ topic = [a \in Alerts |-> {}]
  /\ deadLetters = {}
  /\ crashes = 0

--------------------------------------------------------------------------------
\* SosTriggerService inserts the row of a new alarm.
InsertRow(a) ==
  /\ status[a] = "ABSENT"
  /\ status' = [status EXCEPT ![a] = "PENDING"]
  /\ created' = [created EXCEPT ![a] = Cardinality({b \in Alerts : status[b] # "ABSENT"})]
  /\ UNCHANGED <<batch, job, topic, deadLetters, crashes>>

\* Mutant: dead-lettered rows are read again.
SelectedWithDead == {"PENDING", "FAILED", "DLT"}

\* Mutant: rows whose dead-lettering failed are not read again.
SelectedPending == {"PENDING"}

Selected == {"PENDING", "FAILED"}

\* The oldest rows that are open, as many as fit into one run.
OldestOpen ==
  LET open == {a \in Alerts : status[a] \in Selected}
  IN  {a \in open : Cardinality({b \in open : created[b] < created[a]}) < BatchSize}

\* processOutbox starts: the list it works through is read once.
StartRun ==
  /\ job = NoJob
  /\ batch = {}
  /\ OldestOpen # {}
  /\ batch' = OldestOpen
  /\ UNCHANGED <<status, created, job, topic, deadLetters, crashes>>

\* sendWithRetry is called for the next row of the list.
TakeRow ==
  \E a \in batch :
    /\ job = NoJob
    /\ \A b \in batch : created[a] <= created[b]
    /\ job' = [NoJob EXCEPT !.pc = "begin", !.alert = a, !.memory = status[a],
                            !.attempt = 1]
    /\ batch' = batch \ {a}
    /\ UNCHANGED <<status, created, topic, deadLetters, crashes>>

\* Mutant: a retry goes on where the failed attempt stopped, skipping the
\* message that failed.
ResumeAfterFailure(j) ==
  IF j.attempt < MaxAttempts
    THEN [j EXCEPT !.pc = "send", !.attempt = @ + 1,
                   !.next = IF @ > 2 * Contacts THEN @ ELSE @ + 1]
    ELSE [j EXCEPT !.pc = "recover", !.next = 1]

\* Mutant: maxAttempts is taken for the number of retries.
OneAttemptMore(j) ==
  IF j.attempt <= MaxAttempts
    THEN [j EXCEPT !.pc = "begin", !.attempt = @ + 1, !.next = 1]
    ELSE [j EXCEPT !.pc = "recover", !.next = 1]

\* What an exception in an attempt leads to: a fresh attempt, which fetches
\* the contacts and sends from the first message on, or @Recover.
AfterFailure(j) ==
  IF j.attempt < MaxAttempts
    THEN [j EXCEPT !.pc = "begin", !.attempt = @ + 1, !.next = 1]
    ELSE [j EXCEPT !.pc = "recover", !.next = 1]

\* The row of the job gets status s.
Saved(s) == status' = [status EXCEPT ![job.alert] = s]

\* A save throws: the row keeps its status, or only the answer was lost.
SaveFails(s) == status' = status \/ Saved(s)

\* The attempt is counted; the save writes the status in memory with it.
BeginAttempt ==
  /\ job.pc = "begin"
  /\ Saved(job.memory)
  /\ job' = [job EXCEPT !.pc = "fetch"]
  /\ UNCHANGED <<created, batch, topic, deadLetters, crashes>>

BeginFails ==
  /\ job.pc = "begin"
  /\ SaveFails(job.memory)
  /\ job' = AfterFailure(job)
  /\ UNCHANGED <<created, batch, topic, deadLetters, crashes>>

FetchContacts ==
  /\ job.pc = "fetch"
  /\ job' = [job EXCEPT !.pc = "send"]
  /\ UNCHANGED <<status, created, batch, topic, deadLetters, crashes>>

\* The user service fails or knows no contact: IllegalStateException.
FetchFails ==
  /\ job.pc = "fetch"
  /\ job' = AfterFailure(job)
  /\ UNCHANGED <<status, created, batch, topic, deadLetters, crashes>>

SendMessage ==
  /\ job.pc = "send"
  /\ job.next \in Messages
  /\ topic' = [topic EXCEPT ![job.alert] = @ \cup {job.next}]
  /\ job' = [job EXCEPT !.next = @ + 1]
  /\ UNCHANGED <<status, created, batch, deadLetters, crashes>>

\* send().get(10 s) throws: the message is lost, or it is in the topic and
\* only the acknowledgement came too late.
SendFails ==
  /\ job.pc = "send"
  /\ job.next \in Messages
  /\ \/ topic' = topic
     \/ topic' = [topic EXCEPT ![job.alert] = @ \cup {job.next}]
  /\ job' = AfterFailure(job)
  /\ UNCHANGED <<status, created, batch, deadLetters, crashes>>

\* Mutant: the row is marked before the last message is acknowledged.
AllButLastSent == job.next >= 2 * Contacts

AllSent == job.next > 2 * Contacts

\* Every message was acknowledged: the row is PUBLISHED.
CompleteRow ==
  /\ job.pc = "send"
  /\ AllSent
  /\ Saved("PUBLISHED")
  /\ job' = NoJob
  /\ UNCHANGED <<created, batch, topic, deadLetters, crashes>>

\* The save fails after every message was sent: the next attempt sends them
\* all again, with PUBLISHED already in memory.
CompleteFails ==
  /\ job.pc = "send"
  /\ AllSent
  /\ SaveFails("PUBLISHED")
  /\ job' = AfterFailure([job EXCEPT !.memory = "PUBLISHED"])
  /\ UNCHANGED <<created, batch, topic, deadLetters, crashes>>

\* @Recover: the alert goes to the dead-letter topic.
DeadLetter ==
  /\ job.pc = "recover"
  /\ deadLetters' = deadLetters \cup {job.alert}
  /\ job' = [job EXCEPT !.pc = "outcome", !.memory = "DLT"]
  /\ UNCHANGED <<status, created, batch, topic, crashes>>

\* The dead-letter topic cannot be written either, or its acknowledgement is
\* lost: a later run is to take the row again.
DeadLetterFails ==
  /\ job.pc = "recover"
  /\ \/ deadLetters' = deadLetters
     \/ deadLetters' = deadLetters \cup {job.alert}
  /\ job' = [job EXCEPT !.pc = "outcome", !.memory = "FAILED"]
  /\ UNCHANGED <<status, created, batch, topic, crashes>>

SaveOutcome ==
  /\ job.pc = "outcome"
  /\ Saved(job.memory)
  /\ job' = NoJob
  /\ UNCHANGED <<created, batch, topic, deadLetters, crashes>>

\* The exception leaves @Recover and is logged by processOutbox.
OutcomeFails ==
  /\ job.pc = "outcome"
  /\ SaveFails(job.memory)
  /\ job' = NoJob
  /\ UNCHANGED <<created, batch, topic, deadLetters, crashes>>

\* The process is killed and restarted: rows and topics remain.
Crash ==
  /\ crashes < MaxCrash
  /\ job # NoJob \/ batch # {}
  /\ crashes' = crashes + 1
  /\ job' = NoJob
  /\ batch' = {}
  /\ UNCHANGED <<status, created, topic, deadLetters>>

\* Every step of the scheduler but the sending of a message.
QuietStep ==
  \/ StartRun \/ TakeRow
  \/ BeginAttempt \/ BeginFails \/ FetchContacts \/ FetchFails
  \/ CompleteRow \/ CompleteFails
  \/ DeadLetter \/ DeadLetterFails \/ SaveOutcome \/ OutcomeFails

SchedulerStep == QuietStep \/ SendMessage \/ SendFails

Next == SchedulerStep \/ Crash \/ \E a \in Alerts : InsertRow(a)

Spec == Init /\ [][Next]_vars

\* The scheduler thread keeps running. Neither the dead-letter topic nor the
\* save that follows it refuses one alert in every run for ever.
Fairness ==
  /\ WF_vars(SchedulerStep)
  /\ \A a \in Alerts :
       /\ SF_vars(DeadLetter /\ job.alert = a)
       /\ SF_vars(SaveOutcome /\ job.alert = a /\ job.memory = "DLT")

FairSpec == Spec /\ Fairness

--------------------------------------------------------------------------------
(* Properties.                                                              *)

\* A row is PUBLISHED only if every contact's SMS and voice message is in the
\* topic, whatever attempts failed half-way or timed out before, and although
\* a failed save leaves the status PUBLISHED in memory for later saves.
PublishedReachesAll ==
  \A a \in Alerts : status[a] = "PUBLISHED" => topic[a] = Messages

\* What is in the topic is always a first part of the alert's messages: a
\* contact is never alerted while one before is left out, so that a retry
\* from the start closes every gap.
SentInOrder ==
  \A a \in Alerts : \A m \in topic[a] : 1 .. m \subseteq topic[a]

\* Once an alert is sent or given up and the scheduler has gone on, no later
\* run takes its row up again, and the row keeps its status.
SettledStaysSettled ==
  [][\A a \in Alerts : status[a] \in Settled /\ job.alert # a
                          => job'.alert # a /\ status'[a] = status[a]]_vars

\* Every inserted row is sent or dead-lettered in the end, through failed
\* attempts, failed dead-lettering, failed saves and restarts.
EveryAlertSettles ==
  \A a \in Alerts : (status[a] = "PENDING") ~> (status[a] \in Settled)
================================================================================
