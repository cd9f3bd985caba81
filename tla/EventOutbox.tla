------------------------------ MODULE EventOutbox ------------------------------
(***************************************************************************)
(* The outbox of the auth service: rows of outbox_events, inserted by the  *)
(* transactions that create the events, and OutboxPublisher.publishBatch,  *)
(* which every instance of the service runs on its own schedule. A run is  *)
(* one transaction: it locks a batch of unpublished rows, skipping those   *)
(* that another instance holds, sends them one by one and commits the      *)
(* marks (published_at) of those whose send was acknowledged.              *)
(***************************************************************************)
EXTENDS Naturals, FiniteSets

CONSTANTS
  Events,
  Publishers,  \* the instances of the service
  BatchSize,   \* app.outbox.batch-size
  Followed,    \* the events whose publication is followed (a bound)
  MaxFailures  \* failed sends and broken-off runs (a bound)

ASSUME OutboxAssumption ==
  /\ BatchSize \in Nat \ {0}
  /\ Followed \subseteq Events
  /\ MaxFailures \in Nat

VARIABLES
  rows,      \* the events in the table
  marked,    \* those whose published_at is set
  locked,    \* the rows each instance has locked
  todo,      \* those of them it has not come to yet
  done,      \* those of them it has sent, the mark not committed yet
  sends,     \* how often each event came into its topic
  failures   \* failed sends and broken-off runs so far

outboxVars == <<rows, marked, locked, todo, done, sends, failures>>

OutboxTypeOK ==
  /\ rows \subseteq Events
  /\ marked \subseteq Events
  /\ locked \in [Publishers -> SUBSET Events]
  /\ todo \in [Publishers -> SUBSET Events]
  /\ done \in [Publishers -> SUBSET Events]
  /\ sends \in [Events -> Nat]
  /\ failures \in Nat

OutboxInit ==
  /\ rows = {}
  /\ marked = {}
  /\ locked = [p \in Publishers |-> {}]
  /\ todo = [p \in Publishers |-> {}]
  /\ done = [p \in Publishers |-> {}]
  /\ sends = [e \in Events |-> 0]
  /\ failures = 0

\* Part of the transaction that creates the events.
Insert(new) ==
  /\ rows' = rows \cup new
  /\ UNCHANGED <<marked, locked, todo, done, sends, failures>>

--------------------------------------------------------------------------------
(* publishBatch.                                                            *)

\* Mutant: the query without FOR UPDATE SKIP LOCKED.
FreeWithoutLocks == (rows \cap Followed) \ marked

\* The unpublished rows that no transaction has locked.
Free == (rows \cap Followed) \ (marked \cup UNION {locked[p] : p \in Publishers})

\* The rows come ordered by their random ids: any batch of the right size.
Fetch(p) ==
  /\ locked[p] = {}
  /\ Free # {}
  /\ \E b \in SUBSET Free :
       /\ \/ Cardinality(b) = BatchSize
          \/ b = Free /\ Cardinality(b) < BatchSize
       /\ locked' = [locked EXCEPT ![p] = b]
       /\ todo' = [todo EXCEPT ![p] = b]
  /\ UNCHANGED <<rows, marked, done, sends, failures>>

SendOk(p, e) ==
  /\ e \in todo[p]
  /\ todo' = [todo EXCEPT ![p] = @ \ {e}]
  /\ done' = [done EXCEPT ![p] = @ \cup {e}]
  /\ sends' = [sends EXCEPT ![e] = @ + 1]
  /\ UNCHANGED <<rows, marked, locked, failures>>

\* The send throws, or its acknowledgement is late: the event may be in its
\* topic; the loop goes on with the next row and leaves this one unmarked.
SendFailed(p, e) ==
  /\ e \in todo[p]
  /\ failures < MaxFailures
  /\ failures' = failures + 1
  /\ todo' = [todo EXCEPT ![p] = @ \ {e}]
  /\ sends' \in {sends, [sends EXCEPT ![e] = @ + 1]}
  /\ UNCHANGED <<rows, marked, locked, done>>

\* Mutant: a failed send is marked like the others.
MarksAll(p) == marked' = marked \cup locked[p]

Marks(p) == marked' = marked \cup done[p]

Released(p) ==
  /\ locked' = [locked EXCEPT ![p] = {}]
  /\ todo' = [todo EXCEPT ![p] = {}]
  /\ done' = [done EXCEPT ![p] = {}]

CommitMarks(p) ==
  /\ locked[p] # {}
  /\ todo[p] = {}
  /\ Marks(p)
  /\ Released(p)
  /\ UNCHANGED <<rows, sends, failures>>

\* The instance is killed or its commit fails: the marks are undone, what was
\* sent stays sent.
BreakOff(p) ==
  /\ locked[p] # {}
  /\ failures < MaxFailures
  /\ failures' = failures + 1
  /\ Released(p)
  /\ UNCHANGED <<rows, marked, sends>>

PublisherStep ==
  \E p \in Publishers :
    Fetch(p) \/ CommitMarks(p) \/ BreakOff(p) \/ \E e \in Events : SendOk(p, e) \/ SendFailed(p, e)

\* The schedule of an instance that lives, taken step by step to its commit.
Publish(p) == Fetch(p) \/ CommitMarks(p) \/ \E e \in Events : SendOk(p, e)

\* The outbox by itself, whoever inserts.
OutboxNext == PublisherStep \/ \E new \in SUBSET Events : Insert(new)

OutboxSpec == OutboxInit /\ [][OutboxNext]_outboxVars

--------------------------------------------------------------------------------
(* Properties.                                                              *)

\* Two instances never work on the same row, and none on a row that is marked.
ExclusiveRows ==
  /\ \A p, q \in Publishers : p # q => locked[p] \cap locked[q] = {}
  /\ \A p \in Publishers : locked[p] \cap marked = {}

\* The send of e was acknowledged in a transaction that is committed or may be.
Acknowledged(e) == e \in marked \/ \E p \in Publishers : e \in done[p]

\* An event is sent again only after a failure: without one exactly once,
\* however many instances publish. One that is marked was sent.
SentOncePerFailure ==
  \A e \in Events :
    /\ sends[e] <= failures + (IF Acknowledged(e) THEN 1 ELSE 0)
    /\ Acknowledged(e) => sends[e] > 0
================================================================================
