--------------------------- MODULE SosDispatchProofs ---------------------------
(***************************************************************************)
(* Proofs about SosDispatch, for every set of alerts, any number of        *)
(* contacts, every batch size and every number of attempts and restarts.   *)
(*                                                                         *)
(* That a PUBLISHED row has all its messages in the topic, and that the    *)
(* topic has no gaps, follow from what the scheduler knows of the alert it *)
(* works on (JobOK): every message before the next one was acknowledged,   *)
(* and PUBLISHED is in memory only after all of them were. That settled    *)
(* rows are never taken again follows from what it knows of the rows it    *)
(* has read (BatchOK).                                                     *)
(***************************************************************************)
EXTENDS SosDispatch, TLAPS, FiniteSetTheorems

JobOK ==
  /\ job.pc = "idle" <=> job = NoJob
  /\ job.pc # "idle" => job.alert \in Alerts
  /\ job.pc \in {"begin", "fetch"} => job.next = 1
  /\ job.pc = "send" => \A m \in Messages : m < job.next => m \in topic[job.alert]
  /\ job.pc # "idle" /\ job.memory = "PUBLISHED" => topic[job.alert] = Messages

BatchOK ==
  \A a \in batch : status[a] \in Selected /\ a # job.alert

IInv == TypeOK /\ JobOK /\ BatchOK /\ PublishedReachesAll /\ SentInOrder

--------------------------------------------------------------------------------
(* The scheduler's own state.                                               *)

\* An exception in an attempt leaves a job of the type that starts over or
\* gives up, for the same alert and with the same status in memory.
LEMMA FailureKeepsJob ==
  ASSUME TypeOK, NEW j \in Job, j.pc # "idle", j.alert \in Alerts
  PROVE  /\ AfterFailure(j) \in Job
         /\ AfterFailure(j).pc \in {"begin", "recover"}
         /\ AfterFailure(j).alert = j.alert
         /\ AfterFailure(j).memory = j.memory
         /\ AfterFailure(j).next = 1
<1>1. Contacts \in Nat /\ MaxAttempts \in Nat
  BY DispatchAssumption
<1> DEFINE first == 1 .. 2 * Contacts + 1
<1>f. 1 \in first
  BY <1>1
<1>j. j \in [pc : {"idle", "begin", "fetch", "send", "recover", "outcome"},
             alert : Alerts \cup {NoAlert}, memory : Statuses,
             attempt : 0 .. MaxAttempts, next : first]
  BY DEF Job
<1> HIDE DEF first
<1>2. CASE j.attempt < MaxAttempts
  <2>1. j.attempt + 1 \in 0 .. MaxAttempts
    BY <1>1, <1>2, <1>j
  <2>2. AfterFailure(j) = [j EXCEPT !.pc = "begin", !.attempt = @ + 1, !.next = 1]
    BY <1>2 DEF AfterFailure
  <2>3. QED
    BY <1>f, <1>j, <2>1, <2>2 DEF Job, first
<1>3. CASE ~(j.attempt < MaxAttempts)
  <2>1. AfterFailure(j) = [j EXCEPT !.pc = "recover", !.next = 1]
    BY <1>3 DEF AfterFailure
  <2>2. QED
    BY <1>f, <1>j, <2>1 DEF Job, first
<1>4. QED
  BY <1>2, <1>3

\* After a failed attempt the scheduler is in order whatever it sent before.
LEMMA FailureStep ==
  ASSUME IInv, NEW j \in Job, j.pc # "idle", j.alert = job.alert, job.pc # "idle",
         j.memory = "PUBLISHED" => topic'[j.alert] = Messages,
         job' = AfterFailure(j)
  PROVE  job' \in Job /\ JobOK' /\ job'.alert = job.alert
<1>1. j.alert \in Alerts
  BY DEF IInv, JobOK
<1>2. /\ job' \in Job
      /\ job'.pc \in {"begin", "recover"}
      /\ job'.alert = j.alert
      /\ job'.memory = j.memory
      /\ job'.next = 1
  BY <1>1, FailureKeepsJob DEF IInv
<1>3. job' # NoJob
  BY <1>2 DEF NoJob
<1>4. QED
  BY <1>1, <1>2, <1>3 DEF JobOK

\* A job that is finished or killed leaves the idle scheduler.
LEMMA IdleOK ==
  /\ NoJob \in Job
  /\ job' = NoJob => JobOK'
BY DispatchAssumption DEF NoJob, Job, Statuses, JobOK

\* Saving a status to the row of the job keeps the rows and the batch: only
\* PUBLISHED needs a reason.
LEMMA SavedStep ==
  ASSUME IInv, job.pc # "idle", NEW s \in Statuses,
         status' = status \/ Saved(s),
         s = "PUBLISHED" => topic[job.alert] = Messages,
         UNCHANGED <<created, batch, topic>>
  PROVE  /\ status' \in [Alerts -> Statuses \cup {"ABSENT"}]
         /\ PublishedReachesAll' /\ SentInOrder'
         /\ \A a \in batch' : status'[a] \in Selected
<1>1. job.alert \in Alerts /\ status \in [Alerts -> Statuses \cup {"ABSENT"}]
  BY DEF IInv, JobOK, TypeOK
<1>2. \A a \in Alerts : status'[a] = status[a] \/ (a = job.alert /\ status'[a] = s)
  BY <1>1 DEF Saved
<1>3. status' \in [Alerts -> Statuses \cup {"ABSENT"}]
  BY <1>1 DEF Saved
<1>4. PublishedReachesAll'
  BY <1>2 DEF IInv, PublishedReachesAll, Messages
<1>5. SentInOrder'
  BY DEF IInv, SentInOrder
<1>6. \A a \in batch' : status'[a] \in Selected
  BY <1>2 DEF IInv, BatchOK, TypeOK
<1>7. QED
  BY <1>3, <1>4, <1>5, <1>6

--------------------------------------------------------------------------------
(* Rows and runs.                                                           *)

\* A new row is of no concern to what the scheduler works on.
LEMMA InsertStep ==
  ASSUME IInv, NEW a \in Alerts, InsertRow(a)
  PROVE  IInv'
<1>1. /\ status \in [Alerts -> Statuses \cup {"ABSENT"}]
      /\ status' = [status EXCEPT ![a] = "PENDING"]
  BY DEF IInv, TypeOK, InsertRow
<1>2. Cardinality({b \in Alerts : status[b] # "ABSENT"}) \in Nat
  BY DispatchAssumption, FS_Subset, FS_CardinalityType
<1>3. TypeOK'
  BY <1>1, <1>2 DEF IInv, TypeOK, InsertRow, Statuses
<1>4. JobOK'
  BY DEF IInv, JobOK, InsertRow
<1>5. BatchOK'
  BY <1>1 DEF IInv, TypeOK, BatchOK, InsertRow, Selected
<1>6. PublishedReachesAll' /\ SentInOrder'
  BY <1>1 DEF IInv, PublishedReachesAll, SentInOrder, InsertRow
<1>7. QED
  BY <1>3, <1>4, <1>5, <1>6 DEF IInv

\* The rows a run reads are open, and the scheduler works on none of them.
LEMMA StartRunStep ==
  ASSUME IInv, StartRun
  PROVE  IInv'
<1>1. /\ batch' \subseteq {a \in Alerts : status[a] \in Selected}
      /\ job = NoJob
  BY DEF StartRun, OldestOpen
<1>2. TypeOK'
  BY <1>1 DEF IInv, TypeOK, StartRun
<1>3. BatchOK'
  BY <1>1, DispatchAssumption DEF BatchOK, StartRun, NoJob
<1>4. QED
  BY <1>2, <1>3 DEF IInv, JobOK, PublishedReachesAll, SentInOrder, StartRun

\* A row is taken as it is in the database, for the first attempt.
LEMMA TakeRowStep ==
  ASSUME IInv, TakeRow
  PROVE  IInv'
<1>1. PICK a \in batch :
        /\ job' = [NoJob EXCEPT !.pc = "begin", !.alert = a, !.memory = status[a],
                                !.attempt = 1]
        /\ batch' = batch \ {a}
  BY DEF TakeRow
<1>2. a \in Alerts /\ status[a] \in Selected
  BY DEF IInv, TypeOK, BatchOK
<1>3. /\ job' = [pc |-> "begin", alert |-> a, memory |-> status[a], attempt |-> 1,
                next |-> 1]
      /\ job' \in Job
  <2>1. job' = [pc |-> "begin", alert |-> a, memory |-> status[a], attempt |-> 1,
                next |-> 1]
    BY <1>1 DEF NoJob
  <2>2. 1 \in 0 .. MaxAttempts /\ 1 \in 1 .. 2 * Contacts + 1
    BY DispatchAssumption
  <2>3. QED
    BY <1>2, <2>1, <2>2 DEF Job, Selected, Statuses
<1>4. TypeOK'
  BY <1>1, <1>3 DEF IInv, TypeOK, TakeRow
<1>5. JobOK'
  BY <1>2, <1>3 DEF JobOK, NoJob, Selected
<1>6. BatchOK'
  BY <1>1, <1>3 DEF IInv, BatchOK, TakeRow
<1>7. QED
  BY <1>4, <1>5, <1>6 DEF IInv, PublishedReachesAll, SentInOrder, TakeRow

--------------------------------------------------------------------------------
(* An attempt.                                                              *)

\* The status saved at the start of an attempt is the one in memory.
LEMMA BeginAttemptStep ==
  ASSUME IInv, BeginAttempt
  PROVE  IInv'
<1>1. /\ job \in Job /\ job.pc = "begin"
      /\ job' = [job EXCEPT !.pc = "fetch"]
      /\ UNCHANGED <<created, batch, topic, deadLetters, crashes>>
  BY DEF IInv, TypeOK, BeginAttempt
<1>2. /\ status' \in [Alerts -> Statuses \cup {"ABSENT"}]
      /\ PublishedReachesAll' /\ SentInOrder'
      /\ \A a \in batch' : status'[a] \in Selected
  <2>1. job.memory \in Statuses /\ (job.memory = "PUBLISHED" => topic[job.alert] = Messages)
    BY <1>1 DEF Job, IInv, JobOK
  <2>2. QED
    BY <1>1, <2>1, SavedStep DEF BeginAttempt
<1>3. job' \in Job /\ job'.alert = job.alert /\ job'.memory = job.memory
      /\ job'.next = job.next /\ job'.pc = "fetch"
  BY <1>1 DEF Job
<1>4. TypeOK'
  BY <1>1, <1>2, <1>3 DEF IInv, TypeOK
<1>5. JobOK'
  BY <1>1, <1>3 DEF IInv, JobOK, NoJob
<1>6. BatchOK'
  BY <1>1, <1>2, <1>3 DEF IInv, BatchOK
<1>7. QED
  BY <1>2, <1>4, <1>5, <1>6 DEF IInv

\* A failed save at the start of an attempt.
LEMMA BeginFailsStep ==
  ASSUME IInv, BeginFails
  PROVE  IInv'
<1>1. /\ job \in Job /\ job.pc = "begin"
      /\ job' = AfterFailure(job)
      /\ UNCHANGED <<created, batch, topic, deadLetters, crashes>>
  BY DEF IInv, TypeOK, BeginFails
<1>2. job.memory \in Statuses /\ (job.memory = "PUBLISHED" => topic[job.alert] = Messages)
  BY <1>1 DEF Job, IInv, JobOK
<1>3. /\ status' \in [Alerts -> Statuses \cup {"ABSENT"}]
      /\ PublishedReachesAll' /\ SentInOrder'
      /\ \A a \in batch' : status'[a] \in Selected
  BY <1>1, <1>2, SavedStep DEF BeginFails, SaveFails
<1>4. job' \in Job /\ JobOK' /\ job'.alert = job.alert
  BY <1>1, <1>2, FailureStep
<1>5. QED
  BY <1>1, <1>3, <1>4 DEF IInv, TypeOK, BatchOK

\* The contacts are fetched: the first message is the next.
LEMMA FetchStep ==
  ASSUME IInv, FetchContacts
  PROVE  IInv'
<1>1. /\ job \in Job /\ job.pc = "fetch" /\ job.next = 1
      /\ job' = [job EXCEPT !.pc = "send"]
      /\ UNCHANGED <<status, created, batch, topic, deadLetters, crashes>>
  BY DEF IInv, TypeOK, JobOK, FetchContacts
<1>2. job' \in Job /\ job'.alert = job.alert /\ job'.memory = job.memory
      /\ job'.next = 1 /\ job'.pc = "send"
  BY <1>1 DEF Job
<1>3. JobOK'
  BY <1>1, <1>2 DEF IInv, JobOK, NoJob, Messages
<1>4. QED
  BY <1>1, <1>2, <1>3 DEF IInv, TypeOK, BatchOK, PublishedReachesAll, SentInOrder

\* The contacts cannot be fetched.
LEMMA FetchFailsStep ==
  ASSUME IInv, FetchFails
  PROVE  IInv'
<1>1. /\ job \in Job /\ job.pc = "fetch"
      /\ job' = AfterFailure(job)
      /\ UNCHANGED <<status, created, batch, topic, deadLetters, crashes>>
  BY DEF IInv, TypeOK, FetchFails
<1>2. job.memory = "PUBLISHED" => topic'[job.alert] = Messages
  BY <1>1 DEF IInv, JobOK
<1>3. job' \in Job /\ JobOK' /\ job'.alert = job.alert
  BY <1>1, <1>2, FailureStep
<1>4. QED
  BY <1>1, <1>3 DEF IInv, TypeOK, BatchOK, PublishedReachesAll, SentInOrder

\* The next message enters the topic behind all before it, acknowledged or not.
LEMMA MessageStep ==
  ASSUME IInv, job.pc = "send", job.next \in Messages,
         topic' = [topic EXCEPT ![job.alert] = @ \cup {job.next}]
  PROVE  /\ topic' \in [Alerts -> SUBSET Messages]
         /\ topic'[job.alert] = topic[job.alert] \cup {job.next}
         /\ \A a \in Alerts : topic[a] \subseteq topic'[a]
         /\ SentInOrder'
         /\ \A a \in Alerts : topic[a] = Messages => topic'[a] = Messages
<1>1. job.alert \in Alerts /\ topic \in [Alerts -> SUBSET Messages] /\ Contacts \in Nat
  BY DispatchAssumption DEF IInv, TypeOK, JobOK
<1>2. /\ topic' \in [Alerts -> SUBSET Messages]
      /\ topic'[job.alert] = topic[job.alert] \cup {job.next}
      /\ \A a \in Alerts : a # job.alert => topic'[a] = topic[a]
  BY <1>1
<1>3. \A a \in Alerts : topic[a] = Messages => topic'[a] = Messages
  BY <1>1, <1>2
<1>4. ASSUME NEW a \in Alerts, NEW m \in topic'[a]
      PROVE  1 .. m \subseteq topic'[a]
  <2>1. CASE a # job.alert \/ m \in topic[a]
    BY <1>2, <2>1 DEF IInv, SentInOrder
  <2>2. CASE a = job.alert /\ m = job.next
    <3>1. \A k \in Messages : k < m => k \in topic[a]
      BY <2>2 DEF IInv, JobOK
    <3>2. 1 .. m \subseteq Messages
      BY <1>1, <2>2 DEF Messages
    <3>3. QED
      BY <1>1, <1>2, <2>2, <3>1, <3>2 DEF Messages
  <2>3. QED
    BY <1>2, <2>1, <2>2
<1>5. QED
  BY <1>1, <1>2, <1>3, <1>4 DEF SentInOrder

\* A message is acknowledged.
LEMMA SendStep ==
  ASSUME IInv, SendMessage
  PROVE  IInv'
<1>1. /\ job \in Job /\ job.pc = "send" /\ job.next \in Messages /\ Contacts \in Nat
      /\ topic' = [topic EXCEPT ![job.alert] = @ \cup {job.next}]
      /\ job' = [job EXCEPT !.next = @ + 1]
      /\ UNCHANGED <<status, created, batch, deadLetters, crashes>>
  BY DispatchAssumption DEF IInv, TypeOK, SendMessage
<1>2. /\ topic' \in [Alerts -> SUBSET Messages]
      /\ topic'[job.alert] = topic[job.alert] \cup {job.next}
      /\ SentInOrder'
      /\ \A a \in Alerts : topic[a] = Messages => topic'[a] = Messages
  BY <1>1, MessageStep
<1>3. job' \in Job /\ job'.alert = job.alert /\ job'.memory = job.memory
      /\ job'.next = job.next + 1 /\ job'.pc = "send" /\ job.alert \in Alerts
  BY <1>1 DEF Job, Messages, IInv, JobOK
<1>4. \A m \in Messages : m < job'.next => m \in topic'[job'.alert]
  BY <1>1, <1>2, <1>3 DEF IInv, JobOK, Messages
<1>5. JobOK'
  BY <1>1, <1>2, <1>3, <1>4 DEF IInv, JobOK, NoJob, Messages
<1>6. QED
  BY <1>1, <1>2, <1>3, <1>5 DEF IInv, TypeOK, BatchOK, PublishedReachesAll, Messages

\* A message is not acknowledged.
LEMMA SendFailsStep ==
  ASSUME IInv, SendFails
  PROVE  IInv'
<1>1. /\ job \in Job /\ job.pc = "send" /\ job.next \in Messages
      /\ topic' = topic \/ topic' = [topic EXCEPT ![job.alert] = @ \cup {job.next}]
      /\ job' = AfterFailure(job)
      /\ UNCHANGED <<status, created, batch, deadLetters, crashes>>
  BY DEF IInv, TypeOK, SendFails
<1>2. /\ topic' \in [Alerts -> SUBSET Messages]
      /\ SentInOrder'
      /\ \A a \in Alerts : topic[a] = Messages => topic'[a] = Messages
  <2>1. CASE topic' = topic
    BY <2>1 DEF IInv, TypeOK, SentInOrder
  <2>2. CASE topic' = [topic EXCEPT ![job.alert] = @ \cup {job.next}]
    BY <1>1, <2>2, MessageStep
  <2>3. QED
    BY <1>1, <2>1, <2>2
<1>3. job.memory = "PUBLISHED" => topic'[job.alert] = Messages
  BY <1>1, <1>2 DEF IInv, JobOK
<1>4. job' \in Job /\ JobOK' /\ job'.alert = job.alert
  BY <1>1, <1>3, FailureStep
<1>5. QED
  BY <1>1, <1>2, <1>4 DEF IInv, TypeOK, BatchOK, PublishedReachesAll, Messages

\* When the last message is acknowledged, all are in the topic.
LEMMA AllSentMeansAll ==
  ASSUME IInv, job.pc = "send", AllSent
  PROVE  topic[job.alert] = Messages
<1>1. job \in Job /\ job.alert \in Alerts /\ topic[job.alert] \subseteq Messages
      /\ Contacts \in Nat
  BY DispatchAssumption DEF IInv, TypeOK, JobOK
<1>2. \A m \in Messages : m \in topic[job.alert]
  BY <1>1 DEF IInv, JobOK, AllSent, Messages, Job
<1>3. QED
  BY <1>1, <1>2

\* The row of an alert that was sent is marked.
LEMMA CompleteStep ==
  ASSUME IInv, CompleteRow
  PROVE  IInv'
<1>1. /\ job.pc = "send" /\ job' = NoJob
      /\ UNCHANGED <<created, batch, topic, deadLetters, crashes>>
  BY DEF CompleteRow
<1>2. /\ status' \in [Alerts -> Statuses \cup {"ABSENT"}]
      /\ PublishedReachesAll' /\ SentInOrder'
      /\ \A a \in batch' : status'[a] \in Selected
  <2>1. "PUBLISHED" \in Statuses
    BY DEF Statuses
  <2>2. topic[job.alert] = Messages
    BY AllSentMeansAll DEF CompleteRow
  <2>3. QED
    BY <1>1, <2>1, <2>2, SavedStep DEF CompleteRow
<1>3. QED
  BY <1>1, <1>2, IdleOK, DispatchAssumption DEF IInv, TypeOK, BatchOK, NoJob

\* The row of an alert that was sent cannot be marked.
LEMMA CompleteFailsStep ==
  ASSUME IInv, CompleteFails
  PROVE  IInv'
<1> DEFINE j == [job EXCEPT !.memory = "PUBLISHED"]
<1>1. /\ job \in Job /\ job.pc = "send" /\ job' = AfterFailure(j)
      /\ UNCHANGED <<created, batch, topic, deadLetters, crashes>>
  BY DEF IInv, TypeOK, CompleteFails
<1>2. topic[job.alert] = Messages
  BY AllSentMeansAll DEF CompleteFails
<1>3. /\ status' \in [Alerts -> Statuses \cup {"ABSENT"}]
      /\ PublishedReachesAll' /\ SentInOrder'
      /\ \A a \in batch' : status'[a] \in Selected
  <2>1. "PUBLISHED" \in Statuses
    BY DEF Statuses
  <2>2. QED
    BY <1>1, <1>2, <2>1, SavedStep DEF CompleteFails, SaveFails
<1>4. j \in Job /\ j.pc # "idle" /\ j.alert = job.alert
  BY <1>1 DEF Job, Statuses
<1>5. topic'[j.alert] = Messages
  BY <1>1, <1>2, <1>4 DEF Messages
<1>6. job' \in Job /\ JobOK' /\ job'.alert = job.alert
  BY <1>1, <1>4, <1>5, FailureStep
<1>7. QED
  BY <1>1, <1>3, <1>6 DEF IInv, TypeOK, BatchOK

--------------------------------------------------------------------------------
(* Giving up, and restarts.                                                 *)

\* The alert is dead-lettered, or that fails: the outcome is in memory.
LEMMA RecoverStep ==
  ASSUME IInv, DeadLetter \/ DeadLetterFails
  PROVE  IInv'
<1>1. PICK s \in {"DLT", "FAILED"} :
        /\ job.pc = "recover"
        /\ job' = [job EXCEPT !.pc = "outcome", !.memory = s]
        /\ UNCHANGED <<status, created, batch, topic, crashes>>
  BY DEF DeadLetter, DeadLetterFails
<1>2. job \in Job /\ job.alert \in Alerts
  BY <1>1 DEF IInv, TypeOK, JobOK
<1>3. deadLetters' \subseteq Alerts
  BY <1>2 DEF IInv, TypeOK, DeadLetter, DeadLetterFails
<1>4. job' \in Job /\ job'.alert = job.alert /\ job'.memory = s /\ job'.pc = "outcome"
  BY <1>1, <1>2 DEF Job, Statuses
<1>5. JobOK'
  BY <1>2, <1>4 DEF JobOK, NoJob
<1>6. QED
  BY <1>1, <1>3, <1>4, <1>5 DEF IInv, TypeOK, BatchOK, PublishedReachesAll, SentInOrder

\* The outcome is saved, or the save fails; the scheduler goes on either way.
LEMMA OutcomeStep ==
  ASSUME IInv, SaveOutcome \/ OutcomeFails
  PROVE  IInv'
<1>1. /\ job.pc = "outcome" /\ job' = NoJob
      /\ UNCHANGED <<created, batch, topic, deadLetters, crashes>>
      /\ status' = status \/ Saved(job.memory)
  BY DEF SaveOutcome, OutcomeFails, SaveFails
<1>2. job.memory \in Statuses /\ (job.memory = "PUBLISHED" => topic[job.alert] = Messages)
  BY <1>1 DEF IInv, TypeOK, JobOK, Job
<1>3. /\ status' \in [Alerts -> Statuses \cup {"ABSENT"}]
      /\ PublishedReachesAll' /\ SentInOrder'
      /\ \A a \in batch' : status'[a] \in Selected
  BY <1>1, <1>2, SavedStep
<1>4. QED
  BY <1>1, <1>3, IdleOK, DispatchAssumption DEF IInv, TypeOK, BatchOK, NoJob

\* A restart forgets the run and the job.
LEMMA CrashStep ==
  ASSUME IInv, Crash
  PROVE  IInv'
<1>1. TypeOK'
  BY IdleOK, DispatchAssumption DEF IInv, TypeOK, Crash
<1>2. JobOK' /\ BatchOK'
  BY IdleOK DEF Crash, BatchOK
<1>3. QED
  BY <1>1, <1>2 DEF IInv, PublishedReachesAll, SentInOrder, Crash

--------------------------------------------------------------------------------
(* The theorems.                                                            *)

\* The invariant holds initially.
LEMMA InitIInv == Init => IInv
<1> SUFFICES ASSUME Init PROVE IInv
  OBVIOUS
<1>1. TypeOK
  BY IdleOK, DispatchAssumption DEF Init, TypeOK
<1>2. JobOK /\ BatchOK
  BY DEF Init, JobOK, BatchOK, NoJob
<1>3. PublishedReachesAll /\ SentInOrder
  BY DEF Init, PublishedReachesAll, SentInOrder
<1>4. QED
  BY <1>1, <1>2, <1>3 DEF IInv

\* Every step keeps the invariant.
LEMMA NextIInv == IInv /\ [Next]_vars => IInv'
<1> SUFFICES ASSUME IInv, [Next]_vars PROVE IInv'
  OBVIOUS
<1>1. CASE StartRun
  BY <1>1, StartRunStep
<1>2. CASE TakeRow
  BY <1>2, TakeRowStep
<1>3. CASE BeginAttempt \/ BeginFails
  BY <1>3, BeginAttemptStep, BeginFailsStep
<1>4. CASE FetchContacts \/ FetchFails
  BY <1>4, FetchStep, FetchFailsStep
<1>5. CASE SendMessage \/ SendFails
  BY <1>5, SendStep, SendFailsStep
<1>6. CASE CompleteRow \/ CompleteFails
  BY <1>6, CompleteStep, CompleteFailsStep
<1>7. CASE DeadLetter \/ DeadLetterFails
  BY <1>7, RecoverStep
<1>8. CASE SaveOutcome \/ OutcomeFails
  BY <1>8, OutcomeStep
<1>9. CASE Crash
  BY <1>9, CrashStep
<1>10. CASE \E a \in Alerts : InsertRow(a)
  BY <1>10, InsertStep
<1>11. CASE UNCHANGED vars
  BY <1>11 DEF vars, IInv, TypeOK, JobOK, BatchOK, PublishedReachesAll, SentInOrder
<1>12. QED
  BY <1>1, <1>2, <1>3, <1>4, <1>5, <1>6, <1>7, <1>8, <1>9, <1>10, <1>11
     DEF Next, SchedulerStep, QuietStep

\* The strengthened invariant holds in every behaviour.
THEOREM Inductive == Spec => []IInv
BY InitIInv, NextIInv, PTL DEF Spec

\* Every variable keeps its type.
THEOREM TypeCorrect == Spec => []TypeOK
<1>1. IInv => TypeOK
  BY DEF IInv
<1>2. QED
  BY <1>1, Inductive, PTL

\* A row is PUBLISHED only if every message for every contact is in the
\* topic, through retries, lost acknowledgements, failed saves and restarts.
THEOREM NobodyLeftOut == Spec => []PublishedReachesAll
<1>1. IInv => PublishedReachesAll
  BY DEF IInv
<1>2. QED
  BY <1>1, Inductive, PTL

\* The messages of an alert in the topic never have a gap.
THEOREM NoGaps == Spec => []SentInOrder
<1>1. IInv => SentInOrder
  BY DEF IInv
<1>2. QED
  BY <1>1, Inductive, PTL

\* A step changes the status of no settled row but the job's, and takes up
\* no settled row.
LEMMA SettledStep ==
  ASSUME IInv, [Next]_vars, NEW a \in Alerts, status[a] \in Settled, job.alert # a
  PROVE  job'.alert # a /\ status'[a] = status[a]
<1>0. /\ status \in [Alerts -> Statuses \cup {"ABSENT"}]
      /\ job \in Job /\ a # NoAlert
  BY DispatchAssumption DEF IInv, TypeOK
<1>1. CASE TakeRow
  <2>1. PICK b \in batch : job' = [NoJob EXCEPT !.pc = "begin", !.alert = b,
                                     !.memory = status[b], !.attempt = 1]
    BY <1>1 DEF TakeRow
  <2>2. job'.alert = b /\ b # a
    BY <2>1 DEF NoJob, IInv, BatchOK, Selected, Settled
  <2>3. QED
    BY <1>1, <2>2 DEF TakeRow
<1>2. CASE BeginFails \/ FetchFails \/ SendFails \/ CompleteFails
  <2>1. job.alert \in Alerts /\ job.pc # "idle"
    BY <1>2 DEF IInv, JobOK, BeginFails, FetchFails, SendFails, CompleteFails
  <2>2. job'.alert = job.alert
    <3>1. [job EXCEPT !.memory = "PUBLISHED"] \in Job
      BY <1>0 DEF Job, Statuses
    <3>2. /\ [job EXCEPT !.memory = "PUBLISHED"].pc = job.pc
          /\ [job EXCEPT !.memory = "PUBLISHED"].alert = job.alert
      BY <1>0 DEF Job
    <3>3. AfterFailure(job).alert = job.alert
      BY <1>0, <2>1, FailureKeepsJob DEF IInv
    <3>4. AfterFailure([job EXCEPT !.memory = "PUBLISHED"]).alert = job.alert
      BY <2>1, <3>1, <3>2, FailureKeepsJob DEF IInv
    <3>5. QED
      BY <1>2, <3>3, <3>4 DEF BeginFails, FetchFails, SendFails, CompleteFails
  <2>3. status'[a] = status[a]
    BY <1>0, <1>2, <2>1
       DEF BeginFails, FetchFails, SendFails, CompleteFails, SaveFails, Saved
  <2>4. QED
    BY <2>2, <2>3
<1>3. CASE BeginAttempt \/ FetchContacts \/ SendMessage
  BY <1>0, <1>3 DEF BeginAttempt, FetchContacts, SendMessage, Saved, Job
<1>4. CASE DeadLetter \/ DeadLetterFails
  <2>1. job'.alert = job.alert
    BY <1>0, <1>4 DEF DeadLetter, DeadLetterFails, Job
  <2>2. status' = status
    BY <1>4 DEF DeadLetter, DeadLetterFails
  <2>3. QED
    BY <2>1, <2>2
<1>5. CASE CompleteRow \/ SaveOutcome \/ OutcomeFails
  BY <1>0, <1>5 DEF CompleteRow, SaveOutcome, OutcomeFails, SaveFails, Saved, NoJob
<1>6. CASE StartRun \/ Crash
  BY <1>0, <1>6 DEF StartRun, Crash, NoJob
<1>7. CASE \E b \in Alerts : InsertRow(b)
  BY <1>0, <1>7 DEF InsertRow, Settled
<1>8. CASE UNCHANGED vars
  BY <1>8 DEF vars
<1>9. QED
  BY <1>1, <1>2, <1>3, <1>4, <1>5, <1>6, <1>7, <1>8 DEF Next, SchedulerStep, QuietStep

\* Once an alert is sent or given up, no later run takes it up again.
THEOREM SettledForGood == Spec => SettledStaysSettled
<1>1. IInv /\ [Next]_vars
        => [\A a \in Alerts : status[a] \in Settled /\ job.alert # a
                                 => job'.alert # a /\ status'[a] = status[a]]_vars
  BY SettledStep
<1>2. QED
  BY <1>1, Inductive, PTL DEF Spec, SettledStaysSettled

--------------------------------------------------------------------------------
(* How long one row can hold the scheduler: a measure of what is left to do *)
(* for it, in steps. Whatever fails, every step on the row lowers it.       *)

\* The most steps that one attempt takes.
AttemptLength == 2 * Contacts + 3

\* The most steps from the taking of a row to its end.
RunLength == MaxAttempts * AttemptLength + 2

Remaining(j) ==
  LET later == (MaxAttempts - j.attempt) * AttemptLength
  IN  CASE j.pc = "idle"    -> 0
        [] j.pc = "outcome" -> 1
        [] j.pc = "recover" -> 2
        [] j.pc = "send"    -> later + AttemptLength + 1 - j.next
        [] j.pc = "fetch"   -> later + AttemptLength + 1
        [] j.pc = "begin"   -> later + AttemptLength + 2

\* The measure of each kind of job, with what the attempts after this one take.
LEMMA RemainingOf ==
  ASSUME NEW j \in Job
  PROVE  /\ j.pc = "idle" => Remaining(j) = 0
         /\ j.pc = "outcome" => Remaining(j) = 1
         /\ j.pc = "recover" => Remaining(j) = 2
         /\ \E later \in Nat :
              /\ later = (MaxAttempts - j.attempt) * AttemptLength
              /\ j.pc = "send" => Remaining(j) = later + AttemptLength + 1 - j.next
              /\ j.pc = "fetch" => Remaining(j) = later + AttemptLength + 1
              /\ j.pc = "begin" => Remaining(j) = later + AttemptLength + 2
         /\ AttemptLength \in Nat /\ AttemptLength = 2 * Contacts + 3
         /\ Contacts \in Nat /\ j.next \in 1 .. 2 * Contacts + 1
<1>1. /\ AttemptLength \in Nat /\ AttemptLength = 2 * Contacts + 3
      /\ Contacts \in Nat /\ j.next \in 1 .. 2 * Contacts + 1
  BY DispatchAssumption DEF AttemptLength, Job
<1>2. MaxAttempts - j.attempt \in Nat
  BY DispatchAssumption DEF Job
<1>3. (MaxAttempts - j.attempt) * AttemptLength \in Nat
  BY <1>1, <1>2
<1> DEFINE later == (MaxAttempts - j.attempt) * AttemptLength
<1>4. /\ j.pc = "idle" => Remaining(j) = 0
      /\ j.pc = "outcome" => Remaining(j) = 1
      /\ j.pc = "recover" => Remaining(j) = 2
      /\ j.pc = "send" => Remaining(j) = later + AttemptLength + 1 - j.next
      /\ j.pc = "fetch" => Remaining(j) = later + AttemptLength + 1
      /\ j.pc = "begin" => Remaining(j) = later + AttemptLength + 2
  BY DEF Remaining
<1>5. QED
  BY <1>1, <1>3, <1>4

\* A failure in an attempt leaves less to do than the attempt had left.
LEMMA FailureShortens ==
  ASSUME TypeOK, NEW j \in Job, j.pc \in {"begin", "fetch", "send"}, j.alert \in Alerts
  PROVE  Remaining(AfterFailure(j)) \in Nat /\ Remaining(AfterFailure(j)) < Remaining(j)
<1>1. PICK later \in Nat :
        /\ later = (MaxAttempts - j.attempt) * AttemptLength
        /\ j.pc = "send" => Remaining(j) = later + AttemptLength + 1 - j.next
        /\ j.pc = "fetch" => Remaining(j) = later + AttemptLength + 1
        /\ j.pc = "begin" => Remaining(j) = later + AttemptLength + 2
  BY RemainingOf
<1>2. /\ AttemptLength \in Nat /\ AttemptLength = 2 * Contacts + 3
      /\ Contacts \in Nat /\ j.next \in 1 .. 2 * Contacts + 1
  BY RemainingOf
<1>3. Remaining(j) \in Nat /\ Remaining(j) >= later + 3
  BY <1>1, <1>2
<1>4. AfterFailure(j) \in Job
  BY FailureKeepsJob
<1>5. CASE j.attempt < MaxAttempts
  <2>1. AfterFailure(j).pc = "begin" /\ AfterFailure(j).attempt = j.attempt + 1
    BY <1>5 DEF AfterFailure, Job
  <2>2. Remaining(AfterFailure(j))
          = (MaxAttempts - (j.attempt + 1)) * AttemptLength + AttemptLength + 2
    BY <1>4, <2>1, RemainingOf
  <2>3. (MaxAttempts - (j.attempt + 1)) * AttemptLength + AttemptLength = later
    <3>1. MaxAttempts \in Nat /\ j.attempt \in Nat
      BY DispatchAssumption DEF Job
    <3>2. \A m, a, l \in Nat : (m - (a + 1)) * l + l = (m - a) * l
      OBVIOUS
    <3>3. QED
      BY <1>1, <1>2, <3>1, <3>2
  <2>4. QED
    BY <1>3, <2>2, <2>3
<1>6. CASE ~(j.attempt < MaxAttempts)
  <2>1. AfterFailure(j).pc = "recover"
    BY <1>6 DEF AfterFailure, Job
  <2>2. QED
    BY <1>3, <1>4, <2>1, RemainingOf
<1>7. QED
  BY <1>5, <1>6

\* Taking a row sets the measure to RunLength.
LEMMA TakingSets ==
  ASSUME IInv, IInv', TakeRow
  PROVE  Remaining(job') = RunLength
<1>1. job'.pc = "begin" /\ job'.attempt = 1 /\ job' \in Job
  BY DEF TakeRow, NoJob, IInv, TypeOK
<1>2. Remaining(job') = (MaxAttempts - 1) * AttemptLength + AttemptLength + 2
  BY <1>1, RemainingOf
<1>3. \A m, l \in Nat : (m - 1) * l + l = m * l
  OBVIOUS
<1>4. MaxAttempts \in Nat /\ AttemptLength \in Nat
  BY <1>1, RemainingOf, DispatchAssumption
<1>5. QED
  BY <1>2, <1>3, <1>4 DEF RunLength

\* Every step of the scheduler on a row, and a restart, lowers the measure.
LEMMA StepShortens ==
  ASSUME IInv, IInv', job.pc # "idle", SchedulerStep \/ Crash
  PROVE  Remaining(job') < Remaining(job)
<1>0. /\ job \in Job /\ job' \in Job /\ TypeOK
      /\ job # NoJob /\ job.alert \in Alerts
  BY DEF IInv, TypeOK, JobOK
<1>1. Remaining(job) \in Nat /\ Remaining(job) > 0
  BY <1>0, RemainingOf DEF Job
<1>2. Remaining(NoJob) = 0
  BY <1>0, RemainingOf, IdleOK DEF NoJob
<1>3. ~StartRun /\ ~TakeRow
  BY <1>0 DEF StartRun, TakeRow
<1>4. CASE BeginFails \/ FetchFails \/ SendFails
  <2>1. job.pc \in {"begin", "fetch", "send"} /\ job' = AfterFailure(job)
    BY <1>4 DEF BeginFails, FetchFails, SendFails
  <2>2. QED
    BY <1>0, <2>1, FailureShortens
<1>5. CASE CompleteFails
  <2> DEFINE j == [job EXCEPT !.memory = "PUBLISHED"]
  <2>1. job.pc = "send" /\ job' = AfterFailure(j)
    BY <1>5 DEF CompleteFails
  <2>2. j \in Job /\ j.pc = "send" /\ j.alert = job.alert
    BY <1>0, <2>1 DEF Job, Statuses
  <2>3. Remaining(j) = Remaining(job)
    BY <1>0 DEF Remaining, Job
  <2> HIDE DEF j
  <2>4. QED
    BY <1>0, <2>1, <2>2, <2>3, FailureShortens
<1>6. CASE BeginAttempt \/ FetchContacts \/ SendMessage
  <2>1. \/ job.pc = "begin" /\ job'.pc = "fetch" /\ job'.next = job.next
        \/ job.pc = "fetch" /\ job'.pc = "send" /\ job'.next = job.next
        \/ job.pc = "send" /\ job'.pc = "send" /\ job'.next = job.next + 1
    BY <1>0, <1>6 DEF BeginAttempt, FetchContacts, SendMessage, Job
  <2>2. job'.attempt = job.attempt
    BY <1>0, <1>6 DEF BeginAttempt, FetchContacts, SendMessage, Job
  <2>3. PICK later \in Nat :
          /\ later = (MaxAttempts - job.attempt) * AttemptLength
          /\ job.pc = "send" => Remaining(job) = later + AttemptLength + 1 - job.next
          /\ job.pc = "fetch" => Remaining(job) = later + AttemptLength + 1
          /\ job.pc = "begin" => Remaining(job) = later + AttemptLength + 2
    BY <1>0, RemainingOf
  <2>4. /\ job'.pc = "send" => Remaining(job') = later + AttemptLength + 1 - job'.next
        /\ job'.pc = "fetch" => Remaining(job') = later + AttemptLength + 1
    BY <1>0, <2>2, <2>3, RemainingOf
  <2>5. AttemptLength \in Nat /\ job.next \in Nat /\ job.next > 0
    BY <1>0, RemainingOf
  <2>6. QED
    BY <2>1, <2>3, <2>4, <2>5
<1>7. CASE DeadLetter \/ DeadLetterFails
  <2>1. job.pc = "recover" /\ job'.pc = "outcome"
    BY <1>0, <1>7 DEF DeadLetter, DeadLetterFails, Job
  <2>2. QED
    BY <1>0, <2>1, RemainingOf
<1>8. CASE CompleteRow \/ SaveOutcome \/ OutcomeFails \/ Crash
  <2>1. job' = NoJob
    BY <1>8 DEF CompleteRow, SaveOutcome, OutcomeFails, Crash
  <2>2. QED
    BY <1>1, <1>2, <2>1 DEF NoJob
<1>9. QED
  BY <1>3, <1>4, <1>5, <1>6, <1>7, <1>8 DEF SchedulerStep, QuietStep

\* No alert holds the one scheduler thread for ever: whatever fails, from the
\* taking of a row the scheduler makes at most RunLength steps on it, and
\* nothing else touches what it is doing but a restart. This is what
\* EveryAlertSettles rests on beside the fairness.
RowsAreLeft ==
  [][/\ job.pc = "idle" /\ job'.pc # "idle" => Remaining(job') = RunLength
     /\ job.pc # "idle" /\ (SchedulerStep \/ job' # job) => Remaining(job') < Remaining(job)]_vars

THEOREM NoRowHoldsTheScheduler == Spec => RowsAreLeft
<1>1. IInv /\ [Next]_vars
        => [/\ job.pc = "idle" /\ job'.pc # "idle" => Remaining(job') = RunLength
            /\ job.pc # "idle" /\ (SchedulerStep \/ job' # job)
                 => Remaining(job') < Remaining(job)]_vars
  <2> SUFFICES ASSUME IInv, Next
               PROVE  /\ job.pc = "idle" /\ job'.pc # "idle" => Remaining(job') = RunLength
                      /\ job.pc # "idle" /\ (SchedulerStep \/ job' # job)
                           => Remaining(job') < Remaining(job)
    OBVIOUS
  <2>1. IInv'
    BY NextIInv
  <2>2. job' # job => SchedulerStep \/ Crash
    BY DEF Next, InsertRow
  <2>3. job.pc # "idle" /\ (SchedulerStep \/ job' # job) => Remaining(job') < Remaining(job)
    BY <2>1, <2>2, StepShortens
  <2>4. ASSUME job.pc = "idle", job'.pc # "idle" PROVE TakeRow
    <3>1. job' # NoJob /\ job' # job
      BY <2>4 DEF NoJob
    <3>2. ~StartRun /\ ~CompleteRow /\ ~SaveOutcome /\ ~OutcomeFails /\ ~Crash
      BY <3>1 DEF StartRun, CompleteRow, SaveOutcome, OutcomeFails, Crash
    <3>3. QED
      BY <2>2, <2>4, <3>2
         DEF SchedulerStep, QuietStep, BeginAttempt, BeginFails, FetchContacts, FetchFails,
             SendMessage, SendFails, CompleteFails, DeadLetter, DeadLetterFails
  <2>5. QED
    BY <2>1, <2>3, <2>4, TakingSets
<1>2. QED
  BY <1>1, Inductive, PTL DEF Spec, RowsAreLeft
================================================================================
