------------------------------ MODULE SosDelivery ------------------------------
(***************************************************************************)
(* SosDispatch composed with the notification service: every message that  *)
(* the dispatch puts into sos-topic is taken by SosNotificationConsumer,   *)
(* which sends the SMS or places the call. The offset of a message is      *)
(* committed after it was handled (ack-mode record), so that a consumer    *)
(* that is killed in between gets it again.                                *)
(*                                                                         *)
(* @RetryableTopic is to publish a message that failed to a retry topic    *)
(* and in the end to the dead letters. The service configures no           *)
(* serializer for the values it would publish, so that this throws, too,   *)
(* and the consumer takes the message from sos-topic once more: nothing    *)
(* ever comes to the other topics, which are therefore no state here.      *)
(*                                                                         *)
(* A message is <<a, m>>, message m of alert a. The dispatch may send it   *)
(* again while its first copy waits or after it was handled; two waiting   *)
(* copies are one here, and to handle the first of them is to be killed    *)
(* before the commit. The order in which the partitions hand messages out  *)
(* is left open. Nothing relates the deliveries of different messages, so  *)
(* that a run may follow some of them only.                                *)
(***************************************************************************)
EXTENDS SosDispatch

CONSTANT
  Followed  \* the messages whose delivery is followed (a bound)

ASSUME DeliveryAssumption == Followed \subseteq Alerts \X Messages

VARIABLES
  waiting,   \* the messages in sos-topic whose offset is not committed
  handling,  \* those of them that a consumer thread is working on
  reached    \* the messages for which the provider of SMS and calls did its work

deliveryVars == <<status, created, batch, job, topic, deadLetters, crashes,
                  waiting, handling, reached>>

CopiesTypeOK ==
  /\ waiting \subseteq Followed
  /\ handling \subseteq Followed
  /\ reached \subseteq Followed

\* The types of the dispatch and of the delivery.
DeliveryTypeOK == TypeOK /\ CopiesTypeOK

DeliveryInit ==
  /\ Init
  /\ waiting = {}
  /\ handling = {}
  /\ reached = {}

--------------------------------------------------------------------------------
(* The dispatch, as in SosDispatch, and the copies it puts into sos-topic.  *)

\* The message that the scheduler is about to send.
Current == <<job.alert, job.next>>

Arrives == waiting' = waiting \cup ({Current} \cap Followed)

\* A send that throws: the message is not in the topic, or it is and only the
\* acknowledgement came too late. One that is in it already may come again.
SendFailsHere ==
  /\ SendFails
  /\ \/ topic' = topic /\ waiting' = waiting
     \/ job.next \in topic'[job.alert] /\ Arrives

DispatchStep ==
  /\ \/ SendMessage /\ Arrives
     \/ SendFailsHere
     \/ (QuietStep \/ Crash \/ \E a \in Alerts : InsertRow(a)) /\ UNCHANGED waiting
  /\ UNCHANGED <<handling, reached>>

--------------------------------------------------------------------------------
(* The consumer.                                                            *)

Take(f) ==
  /\ f \in waiting \ handling
  /\ handling' = handling \cup {f}
  /\ UNCHANGED <<vars, waiting, reached>>

\* The provider does what it is asked, and the offset is committed.
Deliver(f) ==
  /\ f \in handling
  /\ reached' = reached \cup {f}
  /\ waiting' = waiting \ {f}
  /\ handling' = handling \ {f}
  /\ UNCHANGED vars

\* Mutant: the exception does not leave the listener, and the message counts
\* as handled.
FailureSwallowed(f) == waiting' = waiting \ {f}

\* The message cannot be forwarded: its offset is not committed and it is
\* taken again.
NotForwarded(f) == waiting' = waiting

\* The provider may have done its work although it reports an error.
FailedAttempt(f) ==
  /\ f \in handling
  /\ reached' \in {reached, reached \cup {f}}
  /\ NotForwarded(f)
  /\ handling' = handling \ {f}
  /\ UNCHANGED vars

\* Mutant: the offset is committed before the attempt; a kill loses the message.
CommittedBefore == waiting' = waiting \ handling

\* The messages in work stay where they are.
NotCommitted == waiting' = waiting

\* The notification service is killed, before or after its calls of the
\* provider.
KilledInAttempt ==
  /\ handling # {}
  /\ \E called \in SUBSET handling : reached' = reached \cup called
  /\ NotCommitted
  /\ handling' = {}
  /\ UNCHANGED vars

ConsumerStep ==
  (\E f \in Followed : Take(f) \/ Deliver(f) \/ FailedAttempt(f)) \/ KilledInAttempt

DeliveryNext == DispatchStep \/ ConsumerStep

DeliverySpec == DeliveryInit /\ [][DeliveryNext]_deliveryVars

\* The consumer threads keep running: whatever waits is taken, again and again,
\* and not every attempt is broken off by a kill.
ConsumerFairness ==
  \A f \in Followed : /\ WF_deliveryVars(Take(f))
                      /\ SF_deliveryVars(Deliver(f) \/ FailedAttempt(f))

FairDeliverySpec == DeliverySpec /\ Fairness /\ ConsumerFairness

\* The provider does not refuse a message that it is given again and again.
ProviderRecovers == \A f \in Followed : SF_deliveryVars(Deliver(f))

RecoveringSpec == FairDeliverySpec /\ ProviderRecovers

--------------------------------------------------------------------------------
(* Properties.                                                              *)

\* A message that came into sos-topic is never lost: its contact was reached or
\* the topic still holds it for an attempt, whichever service was killed at
\* whatever moment, and however often the provider failed.
NothingLost ==
  \A f \in Followed : f[2] \in topic[f[1]] => f \in reached \cup waiting

\* What has become of an alert. While the scheduler works on a row its status
\* may still change, even if it is PUBLISHED.
Fate(a) ==
  IF status[a] = "ABSENT" THEN "none"
  ELSE IF status[a] \notin Settled \/ job.alert = a THEN "raised"
  ELSE IF status[a] = "PUBLISHED" THEN "sent" ELSE "abandoned"

Promise == INSTANCE AlertDelivery WITH
             Messages <- Followed,
             fate <- [a \in Alerts |-> Fate(a)]

\* Dispatch and delivery together do only what AlertDelivery allows.
DoesWhatItMay == Promise!Safe

\* If the provider recovers, they bring every alert to an end and every message
\* of a sent alert to its contact.
KeepsItsPromise == Promise!Progress

--------------------------------------------------------------------------------
(* What a comment says of the code and the code does not do.                *)

\* SosNotificationConsumer: four attempts, then "sos-topic-dlt". Then no message
\* is taken from sos-topic for ever, whatever the provider does.
RetriesEnd ==
  \A f \in Followed : (f \in waiting) ~> (f \notin waiting)
================================================================================
