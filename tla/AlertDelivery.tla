----------------------------- MODULE AlertDelivery -----------------------------
(***************************************************************************)
(* What the dispatch and delivery of alerts promises, without outbox,      *)
(* topics, attempts and restarts: a raised alert gets one final fate, sent *)
(* to all contacts or abandoned, and every message of an alert that was    *)
(* sent reaches its contact, in any order and any number of times.         *)
(* Contacts of an alert that is abandoned in the end, or not sent          *)
(* completely yet, may be reached, too: its messages go out one by one.    *)
(***************************************************************************)
CONSTANTS
  Alerts,
  Messages  \* pairs of an alert and the number of a message of it

VARIABLES
  fate,    \* what has become of each alert
  reached  \* the messages whose contact was reached

vars == <<fate, reached>>

Final == {"sent", "abandoned"}

Init ==
  /\ fate = [a \in Alerts |-> "none"]
  /\ reached = {}

Raise(a) ==
  /\ fate[a] = "none"
  /\ fate' = [fate EXCEPT ![a] = "raised"]
  /\ UNCHANGED reached

Settle(a) ==
  /\ fate[a] = "raised"
  /\ \E f \in Final : fate' = [fate EXCEPT ![a] = f]
  /\ UNCHANGED reached

\* Messages are delivered; more than one, if several attempts end together.
Attempt ==
  /\ \E delivered \in SUBSET {m \in Messages : fate[m[1]] # "none"} :
       reached' = reached \cup delivered
  /\ UNCHANGED fate

Next == (\E a \in Alerts : Raise(a) \/ Settle(a)) \/ Attempt

Safe == Init /\ [][Next]_vars

\* No alert stays between raised and settled, and no message of a sent alert
\* stays undelivered.
Progress ==
  /\ \A a \in Alerts : (fate[a] = "raised") ~> (fate[a] \in Final)
  /\ \A m \in Messages : (fate[m[1]] = "sent") ~> (m \in reached)

Spec == Safe /\ Progress
================================================================================
