--------------------------- MODULE SosDeliveryProofs ---------------------------
(***************************************************************************)
(* Proofs about SosDelivery, for every set of alerts and of followed       *)
(* messages and any number of attempts: a message that came into sos-topic *)
(* is never lost, and dispatch and delivery together implement the safety  *)
(* part of AlertDelivery.                                                  *)
(*                                                                         *)
(* The refinement rests on SettledStep of SosDispatchProofs, a settled     *)
(* alert is not taken up again, and on Backed: whatever the consumer does, *)
(* it does for a message of an alert that has a row.                       *)
(***************************************************************************)
EXTENDS SosDelivery, SosDispatchProofs

Backed ==
  /\ \A a \in Alerts : topic[a] # {} => status[a] # "ABSENT"
  /\ job.pc # "idle" => status[job.alert] # "ABSENT"
  /\ handling \subseteq waiting
  /\ \A f \in Followed : f \in reached \cup waiting => f[2] \in topic[f[1]]

DInv == IInv /\ CopiesTypeOK /\ NothingLost /\ Backed

--------------------------------------------------------------------------------
(* The dispatch within the composition.                                     *)

\* The dispatch does what it does alone; the consumer leaves it as it is.
LEMMA DispatchPart ==
  /\ DispatchStep => Next /\ UNCHANGED <<handling, reached>>
  /\ ConsumerStep => UNCHANGED vars
BY DEF DispatchStep, SendFailsHere, Next, SchedulerStep, ConsumerStep, Take, Deliver,
       FailedAttempt, KilledInAttempt

LEMMA IInvKept == IInv /\ [DeliveryNext]_deliveryVars => IInv'
BY NextIInv, DispatchPart DEF DeliveryNext, deliveryVars, vars

\* A row once inserted never becomes absent, and only the row of the job
\* changes unless one is inserted.
LEMMA RowsStay ==
  ASSUME IInv, Next
  PROVE  \/ \E a \in Alerts : InsertRow(a)
         \/ /\ job.pc = "idle" => status' = status
            /\ \E s \in Statuses : status' = status \/ Saved(s)
<1>0. job \in Job /\ "PUBLISHED" \in Statuses
  BY DEF IInv, TypeOK, Statuses
<1>1. job.memory \in Statuses
  BY <1>0 DEF Job
<1>2. CASE QuietStep
  <2>1. CASE StartRun \/ TakeRow
    BY <1>0, <2>1 DEF StartRun, TakeRow
  <2>2. CASE BeginAttempt \/ BeginFails
    BY <1>1, <2>2 DEF BeginAttempt, BeginFails, SaveFails
  <2>3. CASE FetchContacts \/ FetchFails
    BY <1>0, <2>3 DEF FetchContacts, FetchFails
  <2>4. CASE CompleteRow \/ CompleteFails
    BY <1>0, <2>4 DEF CompleteRow, CompleteFails, SaveFails
  <2>5. CASE DeadLetter \/ DeadLetterFails
    BY <1>0, <2>5 DEF DeadLetter, DeadLetterFails
  <2>6. CASE SaveOutcome \/ OutcomeFails
    BY <1>1, <2>6 DEF SaveOutcome, OutcomeFails, SaveFails
  <2>7. QED
    BY <1>2, <2>1, <2>2, <2>3, <2>4, <2>5, <2>6 DEF QuietStep
<1>3. CASE SendMessage \/ SendFails \/ Crash
  BY <1>0, <1>3 DEF SendMessage, SendFails, Crash
<1>4. QED
  BY <1>2, <1>3 DEF Next, SchedulerStep

\* No row becomes absent.
LEMMA NoRowVanishes ==
  ASSUME IInv, Next, NEW a \in Alerts, status[a] # "ABSENT"
  PROVE  status'[a] # "ABSENT"
<1>1. status \in [Alerts -> Statuses \cup {"ABSENT"}]
  BY DEF IInv, TypeOK
<1>2. CASE \E b \in Alerts : InsertRow(b)
  BY <1>1, <1>2 DEF InsertRow
<1>3. CASE \E s \in Statuses : status' = status \/ Saved(s)
  BY <1>1, <1>3 DEF Saved, Statuses
<1>4. QED
  BY <1>2, <1>3, RowsStay

\* A step of the dispatch leaves every message that was sent in the topic;
\* the only one that may be new is the current one of an alert that has a row.
LEMMA TopicStep ==
  ASSUME IInv, Next
  PROVE  \/ topic' = topic
         \/ /\ SendMessage \/ SendFails
            /\ job.alert \in Alerts /\ job.pc # "idle" /\ job.next \in Messages
            /\ topic' = [topic EXCEPT ![job.alert] = @ \cup {job.next}]
<1>1. CASE SendMessage \/ SendFails
  BY <1>1 DEF SendMessage, SendFails, IInv, JobOK
<1>2. CASE QuietStep \/ Crash \/ \E a \in Alerts : InsertRow(a)
  BY <1>2 DEF QuietStep, StartRun, TakeRow, BeginAttempt, BeginFails, FetchContacts,
              FetchFails, CompleteRow, CompleteFails, DeadLetter, DeadLetterFails,
              SaveOutcome, OutcomeFails, Crash, InsertRow
<1>3. QED
  BY <1>1, <1>2 DEF Next, SchedulerStep

\* Whoever has a job has a row: a job starts with a row of the batch.
LEMMA JobHasRow ==
  ASSUME IInv, Backed, Next, job'.pc # "idle"
  PROVE  status'[job'.alert] # "ABSENT"
<1>0. job \in Job /\ job' \in Job /\ IInv'
  BY NextIInv DEF IInv, TypeOK
<1>1. CASE TakeRow
  <2>1. PICK b \in batch : job' = [NoJob EXCEPT !.pc = "begin", !.alert = b,
                                     !.memory = status[b], !.attempt = 1]
    BY <1>1 DEF TakeRow
  <2>2. job'.alert = b
    BY <2>1 DEF NoJob
  <2>3. QED
    BY <1>1, <2>2 DEF TakeRow, IInv, BatchOK, Selected
<1>2. CASE ~TakeRow
  <2>1. job.pc # "idle" /\ job'.alert = job.alert
    <3>1. job.pc = "idle" => job = NoJob
      BY DEF IInv, JobOK
    <3>2. CASE StartRun \/ Crash \/ \E a \in Alerts : InsertRow(a)
      BY <1>0, <3>1, <3>2 DEF StartRun, Crash, InsertRow, NoJob, IInv, JobOK
    <3>3. CASE BeginAttempt \/ FetchContacts \/ SendMessage \/ DeadLetter \/ DeadLetterFails
      BY <1>0, <3>3 DEF BeginAttempt, FetchContacts, SendMessage, DeadLetter,
                        DeadLetterFails, Job
    <3>4. CASE CompleteRow \/ SaveOutcome \/ OutcomeFails
      BY <3>4 DEF CompleteRow, SaveOutcome, OutcomeFails, NoJob
    <3>5. CASE BeginFails \/ FetchFails \/ SendFails
      <4>1. job.pc # "idle" /\ job' = AfterFailure(job)
        BY <3>5 DEF BeginFails, FetchFails, SendFails
      <4>2. QED
        BY <1>0, <4>1, FailureKeepsJob DEF IInv, JobOK
    <3>6. CASE CompleteFails
      <4> DEFINE j == [job EXCEPT !.memory = "PUBLISHED"]
      <4>1. j \in Job /\ j.pc = job.pc /\ j.alert = job.alert
        BY <1>0 DEF Job, Statuses
      <4>2. job.pc # "idle" /\ job' = AfterFailure(j)
        BY <3>6 DEF CompleteFails
      <4>3. QED
        BY <4>1, <4>2, FailureKeepsJob DEF IInv, JobOK
    <3>7. QED
      BY <1>2, <3>2, <3>3, <3>4, <3>5, <3>6 DEF Next, SchedulerStep, QuietStep
  <2>2. job.alert \in Alerts
    BY <2>1 DEF IInv, JobOK
  <2>3. QED
    BY <2>1, <2>2, NoRowVanishes DEF Backed
<1>3. QED
  BY <1>1, <1>2

--------------------------------------------------------------------------------
(* The copies of the messages.                                              *)

\* What a step of the dispatch does to the waiting messages: it adds one when it
\* puts a followed message into sos-topic, and takes none away.
LEMMA WaitingOfDispatch ==
  ASSUME DInv, DispatchStep
  PROVE  /\ waiting \subseteq waiting' /\ waiting' \subseteq Followed
         /\ \A f \in waiting' \ waiting : f[2] \in topic'[f[1]]
         /\ \A f \in Followed : f[2] \in topic'[f[1]] \ topic[f[1]] => f \in waiting'
<1>0. /\ Next /\ topic \in [Alerts -> SUBSET Messages]
      /\ waiting \subseteq Followed
      /\ \A f \in Followed : f[1] \in Alerts /\ f = <<f[1], f[2]>>
  BY DispatchPart, DeliveryAssumption DEF DInv, IInv, TypeOK, CopiesTypeOK
<1>1. CASE waiting' = waiting /\ topic' = topic
  BY <1>0, <1>1
<1>2. CASE Arrives /\ \/ topic' = [topic EXCEPT ![job.alert] = @ \cup {job.next}]
                      \/ topic' = topic /\ job.next \in topic[job.alert]
  <2>1. waiting' = waiting \cup ({Current} \cap Followed)
    BY <1>2 DEF Arrives
  <2>2. ASSUME NEW f \in Followed, f = Current
        PROVE  f[2] \in topic'[f[1]]
    BY <1>0, <1>2, <2>2 DEF Current
  <2>3. ASSUME NEW f \in Followed, f # Current
        PROVE  f[2] \notin topic'[f[1]] \ topic[f[1]]
    BY <1>0, <1>2, <2>3 DEF Current
  <2>4. QED
    BY <1>0, <2>1, <2>2, <2>3
<1>3. CASE SendMessage /\ Arrives
  BY <1>2, <1>3 DEF SendMessage
<1>4. CASE SendFailsHere
  <2>1. CASE topic' = topic /\ waiting' = waiting
    BY <1>1, <2>1
  <2>2. CASE job.next \in topic'[job.alert] /\ Arrives
    BY <1>2, <1>4, <2>2 DEF SendFailsHere, SendFails
  <2>3. QED
    BY <1>4, <2>1, <2>2 DEF SendFailsHere
<1>5. CASE (QuietStep \/ Crash \/ \E a \in Alerts : InsertRow(a)) /\ waiting' = waiting
  <2>1. topic' = topic
    BY <1>5 DEF QuietStep, StartRun, TakeRow, BeginAttempt, BeginFails, FetchContacts,
              FetchFails, CompleteRow, CompleteFails, DeadLetter, DeadLetterFails,
              SaveOutcome, OutcomeFails, Crash, InsertRow
  <2>2. QED
    BY <1>1, <1>5, <2>1
<1>6. QED
  BY <1>3, <1>4, <1>5 DEF DispatchStep

\* What a step of the consumer does: it works on messages that wait, and those
\* that it takes away were reached.
LEMMA WaitingOfConsumer ==
  ASSUME CopiesTypeOK, handling \subseteq waiting, ConsumerStep
  PROVE  /\ CopiesTypeOK' /\ handling' \subseteq waiting'
         /\ waiting' \subseteq waiting /\ waiting \ waiting' \subseteq reached'
         /\ reached \subseteq reached' /\ reached' \ reached \subseteq waiting
<1>1. ASSUME NEW f \in Followed, Take(f)
      PROVE  /\ waiting' = waiting /\ reached' = reached
             /\ f \in waiting /\ handling' = handling \cup {f}
  BY <1>1 DEF Take
<1>2. ASSUME NEW f \in Followed, Deliver(f)
      PROVE  /\ f \in handling /\ reached' = reached \cup {f}
             /\ waiting' = waiting \ {f} /\ handling' = handling \ {f}
  BY <1>2 DEF Deliver
<1>3. ASSUME NEW f \in Followed, FailedAttempt(f)
      PROVE  /\ f \in handling /\ reached' \in {reached, reached \cup {f}}
             /\ waiting' = waiting /\ handling' = handling \ {f}
  BY <1>3 DEF FailedAttempt, NotForwarded
<1>4. ASSUME KilledInAttempt
      PROVE  /\ waiting' = waiting /\ handling' = {}
             /\ \E called \in SUBSET handling : reached' = reached \cup called
  BY <1>4 DEF KilledInAttempt, NotCommitted
<1>5. CASE \E f \in Followed : Take(f) \/ Deliver(f) \/ FailedAttempt(f)
  BY <1>1, <1>2, <1>3, <1>5 DEF CopiesTypeOK
<1>6. CASE KilledInAttempt
  BY <1>4, <1>6 DEF CopiesTypeOK
<1>7. QED
  BY <1>5, <1>6 DEF ConsumerStep

LEMMA DispatchKeepsDInv ==
  ASSUME DInv, DispatchStep
  PROVE  DInv'
<1>0. /\ IInv /\ Next /\ UNCHANGED <<handling, reached>>
      /\ topic \in [Alerts -> SUBSET Messages]
  BY DispatchPart DEF DInv, IInv, TypeOK
<1>1. IInv'
  BY <1>0, NextIInv
<1>2. CopiesTypeOK'
  BY <1>0, WaitingOfDispatch DEF DInv, CopiesTypeOK
<1>3. \A f \in Followed : f[1] \in Alerts
  BY DeliveryAssumption
<1>4. \A a \in Alerts : topic[a] \subseteq topic'[a]
  BY <1>0, TopicStep
<1>5. NothingLost'
  <2> SUFFICES ASSUME NEW f \in Followed, f[2] \in topic'[f[1]]
               PROVE  f \in reached' \cup waiting'
    BY DEF NothingLost
  <2>1. CASE f[2] \in topic[f[1]]
    BY <1>0, <2>1, WaitingOfDispatch DEF DInv, NothingLost
  <2>2. CASE f[2] \notin topic[f[1]]
    BY <2>2, WaitingOfDispatch
  <2>3. QED
    BY <2>1, <2>2
<1>6. \A a \in Alerts : topic'[a] # {} => status'[a] # "ABSENT"
  <2> SUFFICES ASSUME NEW a \in Alerts, topic'[a] # {} PROVE status'[a] # "ABSENT"
    OBVIOUS
  <2>1. CASE topic'[a] = topic[a]
    BY <1>0, <2>1, NoRowVanishes DEF DInv, Backed
  <2>2. CASE topic'[a] # topic[a]
    BY <1>0, <2>2, TopicStep, NoRowVanishes DEF DInv, Backed
  <2>3. QED
    BY <2>1, <2>2
<1>7. job'.pc # "idle" => status'[job'.alert] # "ABSENT"
  BY <1>0, JobHasRow DEF DInv
<1>8. handling' \subseteq waiting'
  BY <1>0, WaitingOfDispatch DEF DInv, Backed
<1>9. \A f \in Followed : f \in reached' \cup waiting' => f[2] \in topic'[f[1]]
  BY <1>0, <1>3, <1>4, WaitingOfDispatch DEF DInv, Backed
<1>10. QED
  BY <1>1, <1>2, <1>5, <1>6, <1>7, <1>8, <1>9 DEF DInv, Backed

LEMMA ConsumerKeepsDInv ==
  ASSUME DInv, ConsumerStep
  PROVE  DInv'
<1>0. UNCHANGED vars
  BY DispatchPart
<1>1. IInv'
  BY <1>0, NextIInv DEF DInv
<1>2. /\ CopiesTypeOK' /\ handling' \subseteq waiting'
      /\ waiting' \subseteq waiting /\ waiting \ waiting' \subseteq reached'
      /\ reached \subseteq reached' /\ reached' \ reached \subseteq waiting
  BY WaitingOfConsumer DEF DInv, Backed
<1>3. NothingLost'
  BY <1>0, <1>2 DEF DInv, NothingLost, vars
<1>4. Backed'
  BY <1>0, <1>2 DEF DInv, Backed, vars
<1>5. QED
  BY <1>1, <1>2, <1>3, <1>4 DEF DInv

LEMMA InitDInv == DeliveryInit => DInv
<1> SUFFICES ASSUME DeliveryInit PROVE DInv
  OBVIOUS
<1>1. IInv
  BY InitIInv DEF DeliveryInit
<1>2. /\ waiting = {} /\ handling = {} /\ reached = {}
      /\ \A f \in Followed : f[1] \in Alerts
      /\ \A a \in Alerts : topic[a] = {}
      /\ job.pc = "idle"
  BY DeliveryAssumption DEF DeliveryInit, Init, NoJob
<1>3. QED
  BY <1>1, <1>2 DEF DInv, CopiesTypeOK, NothingLost, Backed

LEMMA NextDInv == DInv /\ [DeliveryNext]_deliveryVars => DInv'
<1> SUFFICES ASSUME DInv, [DeliveryNext]_deliveryVars PROVE DInv'
  OBVIOUS
<1>1. CASE UNCHANGED deliveryVars
  <2>1. IInv'
    BY <1>1, IInvKept DEF DInv
  <2>2. QED
    BY <1>1, <2>1 DEF deliveryVars, DInv, CopiesTypeOK, NothingLost, Backed
<1>2. QED
  BY <1>1, DispatchKeepsDInv, ConsumerKeepsDInv DEF DeliveryNext

\* The strengthened invariant of the composition holds in every behaviour.
THEOREM DeliveryInductive == DeliverySpec => []DInv
BY InitDInv, NextDInv, PTL DEF DeliverySpec

\* The variables of dispatch and delivery keep their types.
THEOREM DeliveryTypeCorrect == DeliverySpec => []DeliveryTypeOK
<1>1. DInv => DeliveryTypeOK
  BY DEF DInv, IInv, DeliveryTypeOK
<1>2. QED
  BY <1>1, DeliveryInductive, PTL

\* A message that came into sos-topic has reached its contact or waits there for
\* ever after, whichever service is killed whenever and however often.
THEOREM MessagesNeverLost == DeliverySpec => []NothingLost
<1>1. DInv => NothingLost
  BY DEF DInv
<1>2. QED
  BY <1>1, DeliveryInductive, PTL

--------------------------------------------------------------------------------
(* The refinement of AlertDelivery.                                         *)

\* The insert of a row raises its alert and leaves the fate of the others.
LEMMA InsertRaises ==
  ASSUME IInv, NEW a \in Alerts, InsertRow(a)
  PROVE  /\ Fate(a) = "none" /\ Fate(a)' = "raised"
         /\ \A b \in Alerts : b # a => Fate(b)' = Fate(b)
BY DEF IInv, TypeOK, InsertRow, Fate, Settled

\* Any other step of the dispatch settles at most one alert, the one the
\* scheduler works on: the others' rows do not change, and settled ones are
\* not taken up again.
LEMMA DispatchSettlesOne ==
  ASSUME DInv, Next, ~ \E a \in Alerts : InsertRow(a), NEW a \in Alerts
  PROVE  \/ Fate(a)' = Fate(a)
         \/ a = job.alert /\ Fate(a) = "raised" /\ Fate(a)' \in {"sent", "abandoned"}
<1>0. /\ IInv /\ IInv'
      /\ status \in [Alerts -> Statuses \cup {"ABSENT"}]
      /\ status' \in [Alerts -> Statuses \cup {"ABSENT"}]
      /\ a # NoAlert
  BY NextIInv, DispatchAssumption DEF DInv, IInv, TypeOK
<1>1. CASE job.alert = a
  <2>1. job.pc # "idle"
    BY <1>0, <1>1 DEF IInv, JobOK, NoJob
  <2>2. status[a] # "ABSENT" /\ status'[a] # "ABSENT"
    BY <1>0, <1>1, <2>1, NoRowVanishes DEF DInv, Backed
  <2>3. Fate(a) = "raised"
    BY <1>1, <2>2 DEF Fate
  <2>4. Fate(a)' \in {"raised", "sent", "abandoned"}
    BY <2>2 DEF Fate
  <2>5. QED
    BY <1>1, <2>3, <2>4
<1>2. CASE job.alert # a
  <2>1. status'[a] = status[a]
    <3>1. CASE job.pc = "idle"
      BY <1>0, <3>1, RowsStay
    <3>2. CASE job.pc # "idle"
      BY <1>0, <1>2, <3>2, RowsStay DEF Saved
    <3>3. QED
      BY <3>1, <3>2
  <2>2. status[a] \in Settled => job'.alert # a
    BY <1>0, <1>2, SettledStep
  <2>3. QED
    BY <1>2, <2>1, <2>2 DEF Fate
<1>3. QED
  BY <1>1, <1>2

\* The messages that the consumer delivers are of alerts that were raised.
LEMMA ConsumerAttempts ==
  ASSUME DInv, ConsumerStep
  PROVE  /\ reached \subseteq reached'
         /\ \A f \in reached' \ reached :
              f \in Followed /\ f[1] \in Alerts /\ Fate(f[1]) # "none"
         /\ \A a \in Alerts : Fate(a)' = Fate(a)
<1>1. UNCHANGED vars
  BY DispatchPart
<1>2. reached \subseteq reached' /\ reached' \ reached \subseteq waiting
  BY WaitingOfConsumer DEF DInv, Backed
<1>3. ASSUME NEW f \in reached' \ reached
      PROVE  f \in Followed /\ f[1] \in Alerts /\ Fate(f[1]) # "none"
  <2>1. f \in Followed /\ f \in waiting
    BY <1>2 DEF DInv, CopiesTypeOK
  <2>2. f[1] \in Alerts /\ status[f[1]] # "ABSENT"
    BY <2>1, DeliveryAssumption DEF DInv, Backed
  <2>3. QED
    BY <2>1, <2>2 DEF Fate
<1>4. \A a \in Alerts : Fate(a)' = Fate(a)
  BY <1>1 DEF vars, Fate
<1>5. QED
  BY <1>2, <1>3, <1>4

\* Every step of the composition is a step of AlertDelivery or a stutter.
LEMMA StepRefines ==
  ASSUME DInv, [DeliveryNext]_deliveryVars
  PROVE  [Promise!Next]_Promise!vars
<1> DEFINE F == [a \in Alerts |-> Fate(a)]
<1>1. CASE ConsumerStep
  <2> DEFINE delivered == reached' \ reached
  <2>1. /\ reached' = reached \cup delivered
        /\ \A f \in delivered : f \in Followed /\ F[f[1]] # "none"
    BY <1>1, ConsumerAttempts
  <2>2. F' = F
    BY <1>1, ConsumerAttempts
  <2>3. Promise!Attempt
    <3>1. delivered \in SUBSET {m \in Followed : F[m[1]] # "none"}
      BY <2>1
    <3>2. QED
      BY <2>1, <2>2, <3>1 DEF Promise!Attempt
  <2>4. QED
    BY <2>3 DEF Promise!Next
<1>2. CASE DispatchStep /\ \E a \in Alerts : InsertRow(a)
  <2>1. PICK a \in Alerts : InsertRow(a)
    BY <1>2
  <2>2. F[a] = "none" /\ F' = [F EXCEPT ![a] = "raised"]
    BY <2>1, InsertRaises DEF DInv
  <2>3. Promise!Raise(a)
    BY <1>2, <2>2, DispatchPart DEF Promise!Raise
  <2>4. QED
    BY <2>3 DEF Promise!Next
<1>3. CASE DispatchStep /\ ~ \E a \in Alerts : InsertRow(a)
  <2>0. Next /\ UNCHANGED <<handling, reached>>
    BY <1>3, DispatchPart
  <2>1. CASE \A a \in Alerts : Fate(a)' = Fate(a)
    <3>1. F' = F
      BY <2>1
    <3>2. QED
      BY <2>0, <3>1 DEF Promise!vars
  <2>2. CASE \E a \in Alerts : Fate(a)' # Fate(a)
    <3>1. PICK a \in Alerts : Fate(a)' # Fate(a)
      BY <2>2
    <3>2. a = job.alert /\ Fate(a) = "raised" /\ Fate(a)' \in {"sent", "abandoned"}
      BY <1>3, <2>0, <3>1, DispatchSettlesOne
    <3>3. \A b \in Alerts : b # a => Fate(b)' = Fate(b)
      BY <1>3, <2>0, <3>2, DispatchSettlesOne
    <3>4. F' = [F EXCEPT ![a] = Fate(a)']
      BY <3>3
    <3>5. Promise!Settle(a)
      BY <2>0, <3>2, <3>4 DEF Promise!Settle, Promise!Final
    <3>6. QED
      BY <3>5 DEF Promise!Next
  <2>3. QED
    BY <2>1, <2>2
<1>4. CASE UNCHANGED deliveryVars
  <2>1. F' = F
    BY <1>4 DEF deliveryVars, Fate
  <2>2. QED
    BY <1>4, <2>1 DEF Promise!vars, deliveryVars
<1>5. QED
  BY <1>1, <1>2, <1>3, <1>4 DEF DeliveryNext

\* Dispatch and delivery implement the safety part of AlertDelivery: an alert
\* once settled stays so, and nobody is called for an alert that nobody raised.
THEOREM DeliveryRefines == DeliverySpec => DoesWhatItMay
<1>1. DeliveryInit => Promise!Init
  BY DEF DeliveryInit, Init, Promise!Init, Fate
<1>2. DInv /\ [DeliveryNext]_deliveryVars => [Promise!Next]_Promise!vars
  BY StepRefines
<1>3. QED
  BY <1>1, <1>2, DeliveryInductive, PTL DEF DeliverySpec, DoesWhatItMay, Promise!Safe

--------------------------------------------------------------------------------
(* What is proved of the dispatch holds in the composition.                 *)

\* The composition implements the dispatch: with the consumer beside it, which
\* the dispatch does not hear of, it does nothing that it could not do alone.
THEOREM DispatchCarriesOver == DeliverySpec => Spec
<1>1. DeliveryInit => Init
  BY DEF DeliveryInit
<1>2. [DeliveryNext]_deliveryVars => [Next]_vars
  BY DispatchPart DEF DeliveryNext, deliveryVars, vars
<1>3. QED
  BY <1>1, <1>2, PTL DEF DeliverySpec, Spec

\* A settled alert is not sent again while its messages are being delivered.
THEOREM SettledWhileDelivered == DeliverySpec => SettledStaysSettled
BY DispatchCarriesOver, SettledForGood, PTL

\* The two services together: every message of a PUBLISHED row, of which the
\* dispatch knows only that it is in the topic, was delivered or waits for the
\* next attempt.
PublishedAnswered ==
  \A f \in Followed :
    status[f[1]] = "PUBLISHED" => f \in reached \cup waiting

THEOREM PublishedMessagesAnswered == DeliverySpec => []PublishedAnswered
<1>1. DInv => PublishedAnswered
  <2> SUFFICES ASSUME DInv, NEW f \in Followed, status[f[1]] = "PUBLISHED"
               PROVE  f \in reached \cup waiting
    BY DEF PublishedAnswered
  <2>1. f[1] \in Alerts /\ f[2] \in Messages
    BY DeliveryAssumption
  <2>2. f[2] \in topic[f[1]]
    BY <2>1 DEF DInv, IInv, PublishedReachesAll
  <2>3. QED
    BY <2>2 DEF DInv, NothingLost
<1>2. QED
  BY <1>1, DeliveryInductive, PTL
================================================================================
