------------------------------- MODULE Incidents -------------------------------
(***************************************************************************)
(* Incidents of the SOS service: rows whose status requests change along   *)
(* IncidentStateTransitionValidator, their timeline, and the emergencies   *)
(* in which EmergencyExecutionService opens an incident and raises the     *)
(* alarm of the session, all in one transaction.                           *)
(*                                                                         *)
(* updateStatus is a transaction, too: it reads the row, checks the move,  *)
(* and writes the whole row when it commits, together with the timeline    *)
(* entry. An incident has no @Version, so that the last writer wins. The   *)
(* session has one: a transaction that changes it from a copy that is no   *)
(* longer current is rolled back. What other requests do to the session is *)
(* in SafetySession; here they may leave it in any state.                  *)
(*                                                                         *)
(* The time stamps of a row are the sequence of statuses in the order of   *)
(* their times. Of the emergency's entries in the timeline one stands for  *)
(* all that tell that the contacts were informed. Recorded locations,      *)
(* which an emergency links to its incident, are left out: no decision     *)
(* reads them, and a link the database refuses is one of the reasons for a *)
(* rollback.                                                               *)
(***************************************************************************)
EXTENDS SessionStates, Naturals, Sequences

CONSTANTS
  Threads,        \* requests at a time
  Others,         \* the states other requests leave the session in
  MaxIncidents    \* a bound

Session == [status : Status, flag : BOOLEAN]

ASSUME IncidentsAssumption == Others \subseteq Session /\ MaxIncidents \in Nat

VARIABLES
  incident,  \* the rows of incidents, by their order of creation
  timeline,  \* the statuses reported in incident_events, for each incident
  session,   \* the user's session: its status and emergencyTriggered
  outbox,    \* the incidents whose emergency inserted a row in sos_outbox
  thread     \* the requests

vars == <<incident, timeline, session, outbox, thread>>

IncidentStatus == {"CREATED", "WARNING", "IN_DANGER", "TRACKING", "RESOLVED", "CLOSED"}

\* ALLOWED_TRANSITIONS.
IncidentTransitions ==
  [CREATED   |-> {"WARNING", "TRACKING", "CLOSED"},
   WARNING   |-> {"IN_DANGER", "RESOLVED"},
   IN_DANGER |-> {"TRACKING", "RESOLVED"},
   TRACKING  |-> {"RESOLVED"},
   RESOLVED  |-> {"CLOSED"},
   CLOSED    |-> {}]

Reports == IncidentStatus \cup {"NOTIFIED"}

Row == [status : IncidentStatus, stamps : Seq(IncidentStatus \ {"CREATED"})]

Idle == [pc |-> "idle"]

Request ==
  {Idle} \cup [pc : {"update"}, id : DOMAIN incident, row : Row, new : IncidentStatus]
         \cup [pc : {"emergency"}, read : Session, fresh : BOOLEAN]

IncidentsTypeOK ==
  /\ incident \in Seq(Row)
  /\ timeline \in Seq(SUBSET Reports)
  /\ Len(timeline) = Len(incident)
  /\ session \in Session
  /\ outbox \subseteq DOMAIN incident
  /\ thread \in [Threads -> Request]

IncidentsInit ==
  /\ incident = <<>>
  /\ timeline = <<>>
  /\ session \in {s \in Others : ~s.flag}
  /\ outbox = {}
  /\ thread = [t \in Threads |-> Idle]

Finish(t) == thread' = [thread EXCEPT ![t] = Idle]

\* A transaction ends without effect: refused, failed or killed.
RolledBack(t) ==
  /\ thread[t] # Idle
  /\ Finish(t)
  /\ UNCHANGED <<incident, timeline, session, outbox>>

--------------------------------------------------------------------------------
(* IncidentController.                                                      *)

\* Mutant: an emergency's incident leaves no entries in the timeline.
OpenedSilently(row, reports) ==
  /\ Len(incident) < MaxIncidents
  /\ incident' = Append(incident, row)
  /\ timeline' = IF "NOTIFIED" \in reports THEN timeline ELSE Append(timeline, reports)

\* The new row and its first timeline entries.
Opened(row, reports) ==
  /\ Len(incident) < MaxIncidents
  /\ incident' = Append(incident, row)
  /\ timeline' = Append(timeline, reports)

CreateIncident ==
  /\ Opened([status |-> "CREATED", stamps |-> <<>>], {"CREATED"})
  /\ UNCHANGED <<session, outbox, thread>>

\* validate: a move of the table, or none.
ValidMove(from, to) == from = to \/ to \in IncidentTransitions[from]

\* Mutant: the row is built anew, with the last stamp only.
StampedAnew(row, new) ==
  [status |-> new, stamps |-> IF new = "CREATED" THEN <<>> ELSE <<new>>]

\* updateTimestamp, after a valid move: a status that is set again has the
\* latest stamp already.
Stamped(row, new) ==
  [status |-> new, stamps |-> IF new = row.status THEN row.stamps ELSE Append(row.stamps, new)]

UpdateRead(t) ==
  \E i \in DOMAIN incident, new \in IncidentStatus :
    /\ thread[t] = Idle
    /\ ValidMove(incident[i].status, new)
    /\ thread' = [thread EXCEPT ![t] = [pc |-> "update", id |-> i, row |-> incident[i], new |-> new]]
    /\ UNCHANGED <<incident, timeline, session, outbox>>

\* Mutant: only the columns that change are written.
WrittenPartly(now, read, new) ==
  IF new = "CREATED" THEN now
  ELSE [status |-> new,
        stamps |-> Append(SelectSeq(now.stamps, LAMBDA s : s # new), new)]

\* The row that is in the table afterwards. A move from CREATED to CREATED
\* changes nothing in the copy, so that it is not written.
Written(now, read, new) == IF new = "CREATED" THEN now ELSE Stamped(read, new)

\* Mutant: the timeline gets the status before the move.
ReportedBefore(row, new) == row.status

Reported(row, new) == new

UpdateCommit(t) ==
  LET i == thread[t].id
      read == thread[t].row
      new == thread[t].new
  IN
    /\ thread[t].pc = "update"
    /\ incident' = [incident EXCEPT ![i] = Written(@, read, new)]
    /\ timeline' = [timeline EXCEPT ![i] = @ \cup {Reported(read, new)}]
    /\ Finish(t)
    /\ UNCHANGED <<session, outbox>>

--------------------------------------------------------------------------------
(* EmergencyExecutionService.                                               *)

\* The requests other than t find their copy of the session outdated.
Overtaken(t) ==
  [u \in Threads |-> IF u = t THEN Idle
                     ELSE IF thread[u].pc = "emergency" THEN [thread[u] EXCEPT !.fresh = FALSE]
                     ELSE thread[u]]

EmergencyRead(t) ==
  /\ thread[t] = Idle
  /\ thread' = [thread EXCEPT ![t] = [pc |-> "emergency", read |-> session, fresh |-> TRUE]]
  /\ UNCHANGED <<incident, timeline, session, outbox>>

\* The incident of an emergency is moved to TRACKING before it is committed.
EmergencyOpened ==
  Opened([status |-> "TRACKING", stamps |-> <<"TRACKING">>], {"CREATED", "TRACKING", "NOTIFIED"})

\* Mutant: the session has no version.
Unversioned(t) == TRUE

\* The version that was read is still that of the row.
Current(t) == thread[t].fresh

\* triggerSosViaOutbox inserts the alarm; a transition the session's validator
\* refuses would undo the incident.
EmergencyRaises(t) ==
  /\ thread[t].pc = "emergency"
  /\ ~thread[t].read.flag
  /\ Current(t)
  /\ CanMove(thread[t].read.status, "IN_DANGER")
  /\ EmergencyOpened
  /\ outbox' = outbox \cup {Len(incident')}
  /\ session' = [status |-> "IN_DANGER", flag |-> TRUE]
  /\ thread' = Overtaken(t)

\* DUPLICATE_SOS_PREVENTED: an incident without an alarm of its own. The
\* session is written if its risk score changes.
EmergencyRepeats(t) ==
  /\ thread[t].pc = "emergency"
  /\ thread[t].read.flag
  /\ EmergencyOpened
  /\ \/ Finish(t)
     \/ Current(t) /\ thread' = Overtaken(t)
  /\ UNCHANGED <<session, outbox>>

\* Any other request or the sweep writes the session.
SessionWritten ==
  /\ session' \in Others
  /\ thread' = [u \in Threads |-> IF thread[u].pc = "emergency"
                                    THEN [thread[u] EXCEPT !.fresh = FALSE] ELSE thread[u]]
  /\ UNCHANGED <<incident, timeline, outbox>>

--------------------------------------------------------------------------------
RequestStep(t) ==
  \/ UpdateRead(t) \/ UpdateCommit(t) \/ RolledBack(t)
  \/ EmergencyRead(t) \/ EmergencyRaises(t) \/ EmergencyRepeats(t)

IncidentsNext == CreateIncident \/ SessionWritten \/ \E t \in Threads : RequestStep(t)

IncidentsSpec == IncidentsInit /\ [][IncidentsNext]_vars

--------------------------------------------------------------------------------
(* Properties.                                                              *)

\* The status a row had before its k-th stamp.
Before(stamps, k) == IF k = 1 THEN "CREATED" ELSE stamps[k - 1]

Coherent(row) ==
  /\ row.status = Before(row.stamps, Len(row.stamps) + 1)
  /\ \A k \in DOMAIN row.stamps : row.stamps[k] \in IncidentTransitions[Before(row.stamps, k)]

\* The stamps of an incident always tell a way from CREATED to its status on
\* which every move is one of the validator's, although requests write rows
\* they have read before others wrote them.
HistoryIsLegal == \A i \in DOMAIN incident : Coherent(incident[i])

\* What is stamped in a row was reported in the timeline of the incident.
StampsReported ==
  \A i \in DOMAIN incident : \A k \in DOMAIN incident[i].stamps :
    incident[i].stamps[k] \in timeline[i]

Extends(longer, shorter) ==
  Len(shorter) <= Len(longer) /\ \A k \in DOMAIN shorter : longer[k] = shorter[k]

\* An incident loses a stamp (and so leaves CLOSED) only by a request that read
\* the row before another request wrote it.
HistoryLostToOverlap ==
  [][\A i \in DOMAIN incident :
       ~Extends(incident'[i].stamps, incident[i].stamps) =>
         \E t \in Threads : /\ thread[t].pc = "update" /\ thread'[t] = Idle
                            /\ thread[t].id = i /\ thread[t].row # incident[i]]_vars

\* An emergency raises its alarm only in a session whose flag is clear, which it
\* sets in the same step together with IN_DANGER. An incident that tells that
\* the contacts were informed has an alarm of its own, unless its request had
\* found the flag set.
EmergencyRaisesOrRepeats ==
  [][/\ outbox' # outbox => ~session.flag /\ session'.flag /\ session'.status = "IN_DANGER"
     /\ \A i \in DOMAIN incident' \ DOMAIN incident :
          "NOTIFIED" \in timeline'[i] =>
            \/ i \in outbox'
            \/ \E t \in Threads : thread[t].pc = "emergency" /\ thread'[t] = Idle
                                    /\ thread[t].read.flag]_vars
================================================================================
