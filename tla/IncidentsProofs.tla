---------------------------- MODULE IncidentsProofs ----------------------------
(***************************************************************************)
(* Proofs about Incidents. A row that a request has read is written back   *)
(* later whatever became of it, so that the invariant says of copies in    *)
(* memory what it says of rows, and that a current copy of the session is  *)
(* the session.                                                            *)
(***************************************************************************)
EXTENDS Incidents, TLAPS

\* What a request knows of what it has read.
RequestsConsistent ==
  \A t \in Threads :
    /\ thread[t].pc = "update" =>
         /\ Coherent(thread[t].row)
         /\ ValidMove(thread[t].row.status, thread[t].new)
         /\ \A k \in DOMAIN thread[t].row.stamps : thread[t].row.stamps[k] \in timeline[thread[t].id]
    /\ thread[t].pc = "emergency" /\ thread[t].fresh => thread[t].read = session

IInv == IncidentsTypeOK /\ HistoryIsLegal /\ StampsReported /\ RequestsConsistent

--------------------------------------------------------------------------------
(* Rows.                                                                    *)

LEMMA MovesTyped ==
  \A from \in IncidentStatus : IncidentTransitions[from] \subseteq IncidentStatus \ {"CREATED"}
  BY DEF IncidentTransitions, IncidentStatus

\* A valid move of a coherent row is stamped as its last move.
LEMMA StampedRow ==
  ASSUME NEW row \in Row, Coherent(row),
         NEW new \in IncidentStatus, ValidMove(row.status, new)
  PROVE  /\ Stamped(row, new) \in Row
         /\ Coherent(Stamped(row, new))
         /\ Extends(Stamped(row, new).stamps, row.stamps)
         /\ \A k \in DOMAIN Stamped(row, new).stamps :
              \/ Stamped(row, new).stamps[k] = new
              \/ k \in DOMAIN row.stamps /\ Stamped(row, new).stamps[k] = row.stamps[k]
<1> DEFINE after == Stamped(row, new)
<1>1. row.status \in IncidentStatus /\ row.stamps \in Seq(IncidentStatus \ {"CREATED"})
  BY DEF Row
<1>2. CASE new = row.status
  <2>1. after = [status |-> row.status, stamps |-> row.stamps]
    BY <1>2 DEF Stamped
  <2>2. after \in Row /\ after.status = row.status /\ after.stamps = row.stamps
    BY <1>1, <2>1 DEF Row
  <2>3. Coherent(after)
    BY <2>2 DEF Coherent, Before
  <2> QED
    BY <1>1, <2>2, <2>3 DEF Extends
<1>3. CASE new # row.status
  <2>1. after = [status |-> new, stamps |-> Append(row.stamps, new)]
    BY <1>3 DEF Stamped
  <2>2. new \in IncidentTransitions[row.status] /\ new \in IncidentStatus \ {"CREATED"}
    BY <1>1, <1>3, MovesTyped DEF ValidMove
  <2>3. after \in Row
    BY <1>1, <2>1, <2>2 DEF Row
  <2> DEFINE n == Len(row.stamps)
  <2>4. /\ n \in Nat /\ Len(after.stamps) = n + 1 /\ DOMAIN row.stamps = 1 .. n
        /\ DOMAIN after.stamps = 1 .. n + 1 /\ after.stamps[n + 1] = new
        /\ \A k \in 1 .. n : after.stamps[k] = row.stamps[k]
        /\ after.status = new
    BY <1>1, <2>1, <2>2
  <2> HIDE DEF after, n
  <2>5. Before(after.stamps, n + 1 + 1) = new
    BY <2>4 DEF Before
  <2>6. \A k \in 1 .. n + 1 : Before(after.stamps, k) = Before(row.stamps, k)
    BY <2>4 DEF Before
  <2>7. Before(row.stamps, n + 1) = row.status
    BY DEF Coherent, n
  <2>8. Coherent(after)
    <3>1. \A k \in 1 .. n : after.stamps[k] \in IncidentTransitions[Before(after.stamps, k)]
      BY <2>4, <2>6 DEF Coherent
    <3>2. after.stamps[n + 1] \in IncidentTransitions[Before(after.stamps, n + 1)]
      BY <2>2, <2>4, <2>6, <2>7
    <3> QED
      BY <2>4, <2>5, <3>1, <3>2 DEF Coherent
  <2>9. Extends(after.stamps, row.stamps)
    BY <2>4 DEF Extends, n
  <2> QED
    BY <2>3, <2>4, <2>8, <2>9 DEF after
<1> QED
  BY <1>2, <1>3

\* The new row of an emergency.
LEMMA EmergencyRow ==
  LET row == [status |-> "TRACKING", stamps |-> <<"TRACKING">>]
  IN  row \in Row /\ Coherent(row)
<1> DEFINE row == [status |-> "TRACKING", stamps |-> <<"TRACKING">>]
<1>1. row \in Row
  BY DEF Row, IncidentStatus
<1>2. DOMAIN row.stamps = {1} /\ Len(row.stamps) = 1 /\ row.stamps[1] = "TRACKING"
  OBVIOUS
<1>3. Coherent(row)
  BY <1>2 DEF Coherent, Before, IncidentTransitions
<1> QED
  BY <1>1, <1>3

--------------------------------------------------------------------------------
(* Steps.                                                                   *)

LEMMA Fields ==
  ASSUME IncidentsTypeOK, NEW t \in Threads
  PROVE  /\ thread[t].pc \in {"idle", "update", "emergency"}
         /\ thread[t].pc = "update" =>
              /\ thread[t].id \in DOMAIN incident /\ thread[t].row \in Row
              /\ thread[t].new \in IncidentStatus
         /\ thread[t].pc = "emergency" => thread[t].read \in Session /\ thread[t].fresh \in BOOLEAN
  BY DEF IncidentsTypeOK, Request, Idle

LEMMA RequestGrows ==
  ASSUME DOMAIN incident \subseteq DOMAIN incident'
  PROVE  Request \subseteq Request'
<1>1. ASSUME NEW r \in Request
      PROVE  r \in Request'
  <2>1. CASE r = Idle
    BY <2>1 DEF Request, Idle
  <2>2. CASE r \in [pc : {"update"}, id : DOMAIN incident, row : Row, new : IncidentStatus]
    BY <2>2 DEF Request
  <2>3. CASE r \in [pc : {"emergency"}, read : Session, fresh : BOOLEAN]
    BY <2>3 DEF Request
  <2> QED
    BY <1>1, <2>1, <2>2, <2>3 DEF Request
<1> QED
  BY <1>1

\* Requests stop, or keep what they hold, a copy of the session at most becoming
\* outdated.
Kept ==
  \A u \in Threads :
    \/ thread'[u] = Idle
    \/ thread'[u] = thread[u]
    \/ thread[u].pc = "emergency" /\ thread'[u] = [thread[u] EXCEPT !.fresh = FALSE]

NoneFresh == \A u \in Threads : thread[u].pc = "emergency" => ~thread[u].fresh

LEMMA FinishKeeps ==
  ASSUME IncidentsTypeOK, NEW t \in Threads, Finish(t)
  PROVE  thread' \in [Threads -> Request] /\ thread'[t] = Idle /\ Kept
<1>1. Idle \in Request
  BY DEF Request
<1> QED
  BY <1>1 DEF IncidentsTypeOK, Finish, Kept

\* The copies that requests hold are outdated, except for the request that
\* stops, if there is one.
LEMMA StaleKeeps ==
  ASSUME IncidentsTypeOK, NEW T \in SUBSET Threads,
         thread' = [u \in Threads |->
                      IF u \in T THEN Idle
                      ELSE IF thread[u].pc = "emergency" THEN [thread[u] EXCEPT !.fresh = FALSE]
                      ELSE thread[u]]
  PROVE  thread' \in [Threads -> Request] /\ Kept /\ NoneFresh' /\ \A t \in T : thread'[t] = Idle
<1> DEFINE E == [pc : {"emergency"}, read : Session, fresh : BOOLEAN]
<1>1. \A u \in Threads :
        /\ u \in T => thread'[u] = Idle
        /\ u \notin T /\ thread[u].pc = "emergency" => thread'[u] = [thread[u] EXCEPT !.fresh = FALSE]
        /\ u \notin T /\ thread[u].pc # "emergency" => thread'[u] = thread[u]
  OBVIOUS
<1>2. \A u \in Threads : thread[u] \in Request
  BY DEF IncidentsTypeOK
<1>3. \A u \in Threads : thread[u].pc = "emergency" => thread[u] \in E
  BY <1>2 DEF Request, Idle
<1>4. \A u \in Threads : thread[u].pc = "emergency" =>
        /\ [thread[u] EXCEPT !.fresh = FALSE] \in E
        /\ ~[thread[u] EXCEPT !.fresh = FALSE].fresh
  BY <1>3
<1>5. Idle \in Request /\ E \subseteq Request /\ Idle.pc = "idle"
  BY DEF Request, Idle
<1> HIDE DEF E
<1>6. \A u \in Threads : thread'[u] \in Request
  BY <1>1, <1>2, <1>4, <1>5
<1>7. thread' \in [Threads -> Request]
  <2>1. DOMAIN thread' = Threads /\ thread' = [u \in Threads |-> thread'[u]]
    OBVIOUS
  <2> QED
    BY <1>6, <2>1
<1>8. NoneFresh'
  <2> SUFFICES ASSUME NEW u \in Threads, thread'[u].pc = "emergency"
               PROVE  ~thread'[u].fresh
    BY DEF NoneFresh
  <2>1. u \notin T
    BY <1>1, <1>5
  <2>2. thread[u].pc = "emergency"
    BY <1>1, <2>1
  <2> QED
    BY <1>1, <1>4, <2>1, <2>2
<1> QED
  BY <1>1, <1>7, <1>8 DEF Kept

LEMMA OvertakenKeeps ==
  ASSUME IncidentsTypeOK, NEW t \in Threads, thread' = Overtaken(t)
  PROVE  thread' \in [Threads -> Request] /\ Kept /\ NoneFresh' /\ thread'[t] = Idle
<1>1. thread' = [u \in Threads |->
                   IF u \in {t} THEN Idle
                   ELSE IF thread[u].pc = "emergency" THEN [thread[u] EXCEPT !.fresh = FALSE]
                   ELSE thread[u]]
  BY DEF Overtaken
<1> QED
  BY <1>1, StaleKeeps

\* Timelines grow, and the session changes only when no copy of it is current.
LEMMA ConsistentWhenKept ==
  ASSUME IInv, Kept, thread' \in [Threads -> Request],
         \A i \in DOMAIN incident : timeline[i] \subseteq timeline'[i],
         session' = session \/ NoneFresh'
  PROVE  RequestsConsistent'
<1> SUFFICES ASSUME NEW u \in Threads
             PROVE  /\ thread'[u].pc = "update" =>
                         /\ Coherent(thread'[u].row)
                         /\ ValidMove(thread'[u].row.status, thread'[u].new)
                         /\ \A k \in DOMAIN thread'[u].row.stamps :
                              thread'[u].row.stamps[k] \in timeline'[thread'[u].id]
                    /\ thread'[u].pc = "emergency" /\ thread'[u].fresh => thread'[u].read = session'
  BY DEF RequestsConsistent, Coherent, Before, ValidMove
<1>1. CASE thread'[u] = Idle
  BY <1>1 DEF Idle
<1>2. CASE thread'[u] = thread[u]
  <2>1. thread[u].pc = "update" => thread[u].id \in DOMAIN incident
    BY Fields DEF IInv
  <2>2. thread[u].pc = "emergency" /\ thread[u].fresh => thread[u].read = session'
    BY <1>2 DEF IInv, RequestsConsistent, NoneFresh
  <2> QED
    BY <1>2, <2>1, <2>2 DEF IInv, RequestsConsistent
<1>3. CASE thread[u].pc = "emergency" /\ thread'[u] = [thread[u] EXCEPT !.fresh = FALSE]
  <2>1. thread[u] \in [pc : {"emergency"}, read : Session, fresh : BOOLEAN]
    BY <1>3 DEF IInv, IncidentsTypeOK, Request, Idle
  <2>2. thread'[u].pc = "emergency" /\ ~thread'[u].fresh
    BY <1>3, <2>1
  <2> QED
    BY <2>2
<1> QED
  BY <1>1, <1>2, <1>3 DEF Kept

\* A new incident.
LEMMA OpenedPreserves ==
  ASSUME IInv, NEW row \in Row, Coherent(row), NEW reports \in SUBSET Reports,
         \A k \in DOMAIN row.stamps : row.stamps[k] \in reports, Opened(row, reports)
  PROVE  /\ incident' \in Seq(Row) /\ timeline' \in Seq(SUBSET Reports)
         /\ Len(timeline') = Len(incident')
         /\ HistoryIsLegal' /\ StampsReported'
         /\ DOMAIN incident' = DOMAIN incident \cup {Len(incident')}
         /\ Len(incident') \notin DOMAIN incident
         /\ timeline'[Len(incident')] = reports
         /\ \A i \in DOMAIN incident : incident'[i] = incident[i] /\ timeline'[i] = timeline[i]
<1> DEFINE n == Len(incident)
<1>1. incident \in Seq(Row) /\ timeline \in Seq(SUBSET Reports) /\ Len(timeline) = n
  BY DEF IInv, IncidentsTypeOK
<1>2. incident' = Append(incident, row) /\ timeline' = Append(timeline, reports)
  BY DEF Opened
<1>3. /\ n \in Nat /\ DOMAIN incident = 1 .. n /\ DOMAIN incident' = 1 .. n + 1
      /\ Len(incident') = n + 1 /\ Len(timeline') = n + 1
      /\ incident'[n + 1] = row /\ timeline'[n + 1] = reports
      /\ incident' \in Seq(Row) /\ timeline' \in Seq(SUBSET Reports)
      /\ \A i \in 1 .. n : incident'[i] = incident[i] /\ timeline'[i] = timeline[i]
  BY <1>1, <1>2
<1> HIDE DEF n
<1>4. \A i \in 1 .. n + 1 : i \in 1 .. n \/ i = n + 1
  BY <1>3
<1>5. HistoryIsLegal'
  <2>1. \A i \in DOMAIN incident' : Coherent(incident'[i])
    BY <1>3, <1>4 DEF IInv, HistoryIsLegal
  <2> QED
    BY <2>1 DEF HistoryIsLegal, Coherent, Before
<1>6. StampsReported'
  BY <1>3, <1>4 DEF IInv, StampsReported
<1> QED
  BY <1>3, <1>4, <1>5, <1>6

LEMMA CreatePreserves ==
  ASSUME IInv, CreateIncident
  PROVE  IInv'
<1> DEFINE row == [status |-> "CREATED", stamps |-> <<>>]
<1>1. row \in Row /\ DOMAIN row.stamps = {} /\ Coherent(row) /\ {"CREATED"} \in SUBSET Reports
  <2>1. row.stamps = <<>> /\ row.status = "CREATED" /\ Len(<<>>) = 0 /\ DOMAIN <<>> = {}
    OBVIOUS
  <2>2. <<>> \in Seq(IncidentStatus \ {"CREATED"})
    OBVIOUS
  <2> QED
    BY <2>1, <2>2 DEF Row, IncidentStatus, Reports, Coherent, Before
<1>2. Opened(row, {"CREATED"}) /\ UNCHANGED <<session, outbox, thread>>
  BY DEF CreateIncident
<1> HIDE DEF row
<1>3. /\ incident' \in Seq(Row) /\ timeline' \in Seq(SUBSET Reports)
      /\ Len(timeline') = Len(incident')
      /\ HistoryIsLegal' /\ StampsReported'
      /\ DOMAIN incident \subseteq DOMAIN incident'
      /\ \A i \in DOMAIN incident : timeline'[i] = timeline[i]
  BY <1>1, <1>2, OpenedPreserves
<1>4. thread' \in [Threads -> Request] /\ Kept
  BY <1>2 DEF IInv, IncidentsTypeOK, Kept
<1>5. RequestsConsistent'
  BY <1>2, <1>3, <1>4, ConsistentWhenKept
<1>6. IncidentsTypeOK'
  BY <1>2, <1>3, <1>4, RequestGrows DEF IInv, IncidentsTypeOK
<1> QED
  BY <1>3, <1>5, <1>6 DEF IInv

LEMMA RolledBackPreserves ==
  ASSUME IInv, NEW t \in Threads, RolledBack(t)
  PROVE  IInv'
<1>1. UNCHANGED <<incident, timeline, session, outbox>> /\ Finish(t)
  BY DEF RolledBack
<1>2. thread' \in [Threads -> Request] /\ Kept
  BY <1>1, FinishKeeps DEF IInv
<1>3. RequestsConsistent'
  BY <1>1, <1>2, ConsistentWhenKept
<1> QED
  BY <1>1, <1>2, <1>3 DEF IInv, IncidentsTypeOK, HistoryIsLegal, StampsReported, Coherent, Before, Request

\* A request that has read holds r; the tables are as before.
LEMMA ReadPreserves ==
  ASSUME IInv, NEW t \in Threads, NEW r \in Request,
         thread' = [thread EXCEPT ![t] = r],
         UNCHANGED <<incident, timeline, session, outbox>>,
         r.pc = "update" =>
           /\ Coherent(r.row) /\ ValidMove(r.row.status, r.new)
           /\ \A k \in DOMAIN r.row.stamps : r.row.stamps[k] \in timeline[r.id],
         r.pc = "emergency" => r.read = session
  PROVE  IInv'
<1>1. \A u \in Threads : thread'[u] = IF u = t THEN r ELSE thread[u]
  BY DEF IInv, IncidentsTypeOK
<1>2. ASSUME NEW u \in Threads
      PROVE  /\ thread'[u].pc = "update" =>
                  /\ Coherent(thread'[u].row)
                  /\ ValidMove(thread'[u].row.status, thread'[u].new)
                  /\ \A k \in DOMAIN thread'[u].row.stamps :
                       thread'[u].row.stamps[k] \in timeline[thread'[u].id]
             /\ thread'[u].pc = "emergency" /\ thread'[u].fresh => thread'[u].read = session
  <2>1. CASE u = t
    BY <1>1, <2>1
  <2>2. CASE u # t
    BY <1>1, <2>2 DEF IInv, RequestsConsistent
  <2> QED
    BY <2>1, <2>2
<1>3. RequestsConsistent'
  BY <1>2 DEF RequestsConsistent, Coherent, Before, ValidMove
<1> QED
  BY <1>3 DEF IInv, IncidentsTypeOK, HistoryIsLegal, StampsReported, Coherent, Before, Request

LEMMA UpdateReadPreserves ==
  ASSUME IInv, NEW t \in Threads, UpdateRead(t)
  PROVE  IInv'
<1>1. PICK i \in DOMAIN incident, new \in IncidentStatus :
        /\ ValidMove(incident[i].status, new)
        /\ thread' = [thread EXCEPT ![t] = [pc |-> "update", id |-> i, row |-> incident[i], new |-> new]]
        /\ UNCHANGED <<incident, timeline, session, outbox>>
  BY DEF UpdateRead
<1> DEFINE r == [pc |-> "update", id |-> i, row |-> incident[i], new |-> new]
<1>2. r \in Request
  BY DEF Request, IInv, IncidentsTypeOK
<1>3. /\ r.pc = "update" /\ r.row = incident[i] /\ r.id = i /\ r.new = new
  OBVIOUS
<1>4. Coherent(r.row) /\ \A k \in DOMAIN r.row.stamps : r.row.stamps[k] \in timeline[r.id]
  BY <1>3 DEF IInv, HistoryIsLegal, StampsReported
<1> HIDE DEF r
<1> QED
  BY <1>1, <1>2, <1>3, <1>4, ReadPreserves DEF r

LEMMA EmergencyReadPreserves ==
  ASSUME IInv, NEW t \in Threads, EmergencyRead(t)
  PROVE  IInv'
<1> DEFINE r == [pc |-> "emergency", read |-> session, fresh |-> TRUE]
<1>1. r \in Request /\ r.pc = "emergency" /\ r.read = session
  BY DEF Request, IInv, IncidentsTypeOK
<1>2. thread' = [thread EXCEPT ![t] = r] /\ UNCHANGED <<incident, timeline, session, outbox>>
  BY DEF EmergencyRead
<1> HIDE DEF r
<1> QED
  BY <1>1, <1>2, ReadPreserves

\* What a commit makes of its row.
LEMMA UpdateCommitEffect ==
  ASSUME IInv, NEW t \in Threads, UpdateCommit(t)
  PROVE  LET i == thread[t].id
             new == thread[t].new
             after == Written(incident[i], thread[t].row, new)
         IN /\ i \in DOMAIN incident
            /\ after \in Row /\ Coherent(after)
            /\ incident' = [incident EXCEPT ![i] = after]
            /\ timeline' = [timeline EXCEPT ![i] = @ \cup {new}]
            /\ \A k \in DOMAIN after.stamps : after.stamps[k] \in timeline[i] \cup {new}
            /\ thread[t].row = incident[i] => Extends(after.stamps, incident[i].stamps)
<1> DEFINE i == thread[t].id
           new == thread[t].new
           row == thread[t].row
           after == Written(incident[i], row, new)
<1>1. i \in DOMAIN incident /\ row \in Row /\ new \in IncidentStatus
  BY Fields DEF UpdateCommit, IInv
<1>2. /\ Coherent(row) /\ ValidMove(row.status, new)
      /\ \A k \in DOMAIN row.stamps : row.stamps[k] \in timeline[i]
  BY DEF UpdateCommit, IInv, RequestsConsistent
<1>3. incident[i] \in Row /\ Coherent(incident[i])
  BY <1>1 DEF IInv, IncidentsTypeOK, HistoryIsLegal
<1>4. /\ incident' = [incident EXCEPT ![i] = after]
      /\ timeline' = [timeline EXCEPT ![i] = @ \cup {new}]
  BY DEF UpdateCommit, Reported
<1>5. CASE new = "CREATED"
  <2>1. after = incident[i]
    BY <1>5 DEF Written
  <2>2. Extends(after.stamps, incident[i].stamps)
    BY <1>3, <2>1 DEF Extends, Row
  <2>3. \A k \in DOMAIN after.stamps : after.stamps[k] \in timeline[i]
    BY <1>1, <2>1 DEF IInv, StampsReported
  <2> QED
    BY <1>1, <1>3, <1>4, <2>1, <2>2, <2>3
<1>6. CASE new # "CREATED"
  <2>1. after = Stamped(row, new)
    BY <1>6 DEF Written
  <2> HIDE DEF after, row, new, i
  <2>2. /\ Stamped(row, new) \in Row /\ Coherent(Stamped(row, new))
        /\ Extends(Stamped(row, new).stamps, row.stamps)
        /\ \A k \in DOMAIN Stamped(row, new).stamps :
             \/ Stamped(row, new).stamps[k] = new
             \/ k \in DOMAIN row.stamps /\ Stamped(row, new).stamps[k] = row.stamps[k]
    BY <1>1, <1>2, StampedRow
  <2>3. \A k \in DOMAIN after.stamps : after.stamps[k] \in timeline[i] \cup {new}
    BY <1>2, <2>1, <2>2
  <2>4. row = incident[i] => Extends(after.stamps, incident[i].stamps)
    BY <2>1, <2>2
  <2> QED
    BY <1>1, <1>4, <2>1, <2>2, <2>3, <2>4 DEF after, row, new, i
<1> QED
  BY <1>5, <1>6

LEMMA UpdateCommitPreserves ==
  ASSUME IInv, NEW t \in Threads, UpdateCommit(t)
  PROVE  IInv'
<1> DEFINE i == thread[t].id
           new == thread[t].new
           after == Written(incident[i], thread[t].row, new)
<1>1. /\ i \in DOMAIN incident
      /\ after \in Row /\ Coherent(after)
      /\ incident' = [incident EXCEPT ![i] = after]
      /\ timeline' = [timeline EXCEPT ![i] = @ \cup {new}]
      /\ \A k \in DOMAIN after.stamps : after.stamps[k] \in timeline[i] \cup {new}
  BY UpdateCommitEffect
<1>2. new \in Reports
  BY Fields DEF UpdateCommit, IInv, Reports
<1>3. UNCHANGED <<session, outbox>> /\ Finish(t)
  BY DEF UpdateCommit
<1>4. thread' \in [Threads -> Request] /\ Kept
  BY <1>3, FinishKeeps DEF IInv
<1> HIDE DEF i, new, after
<1>5. incident \in Seq(Row) /\ timeline \in Seq(SUBSET Reports) /\ Len(timeline) = Len(incident)
  BY DEF IInv, IncidentsTypeOK
<1>6. /\ incident' \in Seq(Row) /\ Len(incident') = Len(incident)
      /\ DOMAIN incident' = DOMAIN incident
      /\ \A j \in DOMAIN incident : incident'[j] = IF j = i THEN after ELSE incident[j]
  BY <1>1, <1>5
<1>7. i \in DOMAIN timeline /\ timeline[i] \cup {new} \in SUBSET Reports
  BY <1>1, <1>2, <1>5
<1>8. /\ timeline' \in Seq(SUBSET Reports) /\ Len(timeline') = Len(timeline)
      /\ \A j \in DOMAIN incident : timeline'[j] = IF j = i THEN timeline[i] \cup {new} ELSE timeline[j]
  BY <1>1, <1>5, <1>7
<1>9. RequestsConsistent'
  <2>1. \A j \in DOMAIN incident : timeline[j] \subseteq timeline'[j]
    BY <1>8
  <2> QED
    BY <1>3, <1>4, <2>1, ConsistentWhenKept
<1>10. HistoryIsLegal'
  <2>1. \A j \in DOMAIN incident' : Coherent(incident'[j])
    BY <1>1, <1>6 DEF IInv, HistoryIsLegal
  <2> QED
    BY <2>1 DEF HistoryIsLegal, Coherent, Before
<1>11. StampsReported'
  BY <1>1, <1>6, <1>8 DEF IInv, StampsReported
<1>12. IncidentsTypeOK'
  BY <1>3, <1>4, <1>5, <1>6, <1>8, RequestGrows DEF IInv, IncidentsTypeOK
<1> QED
  BY <1>9, <1>10, <1>11, <1>12 DEF IInv

LEMMA EmergencyOpenedPreserves ==
  ASSUME IInv, EmergencyOpened, thread' \in [Threads -> Request], Kept,
         session' \in Session, session' = session \/ NoneFresh',
         outbox' \subseteq outbox \cup {Len(incident')}
  PROVE  IInv' /\ DOMAIN incident' \ DOMAIN incident = {Len(incident')}
<1> DEFINE row == [status |-> "TRACKING", stamps |-> <<"TRACKING">>]
           reports == {"CREATED", "TRACKING", "NOTIFIED"}
<1>1. row \in Row /\ Coherent(row)
  BY EmergencyRow
<1>2. reports \in SUBSET Reports /\ \A k \in DOMAIN row.stamps : row.stamps[k] \in reports
  BY DEF Reports, IncidentStatus
<1>3. Opened(row, reports)
  BY DEF EmergencyOpened
<1> HIDE DEF row, reports
<1>4. /\ incident' \in Seq(Row) /\ timeline' \in Seq(SUBSET Reports)
      /\ Len(timeline') = Len(incident')
      /\ HistoryIsLegal' /\ StampsReported'
      /\ DOMAIN incident' = DOMAIN incident \cup {Len(incident')}
      /\ Len(incident') \notin DOMAIN incident
      /\ \A i \in DOMAIN incident : timeline'[i] = timeline[i]
  BY <1>1, <1>2, <1>3, OpenedPreserves
<1>5. RequestsConsistent'
  BY <1>4, ConsistentWhenKept
<1>6. IncidentsTypeOK'
  BY <1>4, RequestGrows DEF IInv, IncidentsTypeOK, Session
<1> QED
  BY <1>4, <1>5, <1>6 DEF IInv

LEMMA EmergencyRaisesPreserves ==
  ASSUME IInv, NEW t \in Threads, EmergencyRaises(t)
  PROVE  IInv' /\ DOMAIN incident' \ DOMAIN incident = {Len(incident')}
<1>1. thread' \in [Threads -> Request] /\ Kept /\ NoneFresh'
  BY OvertakenKeeps DEF EmergencyRaises, IInv
<1>2. session' \in Session
  BY DEF EmergencyRaises, Session, Status
<1> QED
  BY <1>1, <1>2, EmergencyOpenedPreserves DEF EmergencyRaises

LEMMA EmergencyRepeatsPreserves ==
  ASSUME IInv, NEW t \in Threads, EmergencyRepeats(t)
  PROVE  IInv' /\ DOMAIN incident' \ DOMAIN incident = {Len(incident')} /\ thread'[t] = Idle
<1>1. thread' \in [Threads -> Request] /\ Kept /\ thread'[t] = Idle
  BY FinishKeeps, OvertakenKeeps DEF EmergencyRepeats, IInv
<1>2. session' \in Session
  BY DEF EmergencyRepeats, IInv, IncidentsTypeOK
<1> QED
  BY <1>1, <1>2, EmergencyOpenedPreserves DEF EmergencyRepeats

LEMMA SessionWrittenPreserves ==
  ASSUME IInv, SessionWritten
  PROVE  IInv'
<1>1. session' \in Session /\ UNCHANGED <<incident, timeline, outbox>>
  BY IncidentsAssumption DEF SessionWritten
<1>2. PICK T \in SUBSET Threads :
        thread' = [u \in Threads |->
                     IF u \in T THEN Idle
                     ELSE IF thread[u].pc = "emergency" THEN [thread[u] EXCEPT !.fresh = FALSE]
                     ELSE thread[u]]
  <2>1. thread' = [u \in Threads |->
                     IF u \in {} THEN Idle
                     ELSE IF thread[u].pc = "emergency" THEN [thread[u] EXCEPT !.fresh = FALSE]
                     ELSE thread[u]]
    BY DEF SessionWritten
  <2>2. {} \in SUBSET Threads
    OBVIOUS
  <2> QED
    BY <2>1, <2>2, Zenon
<1>3. thread' \in [Threads -> Request] /\ Kept /\ NoneFresh'
  BY <1>2, StaleKeeps DEF IInv
<1>4. RequestsConsistent'
  BY <1>1, <1>3, ConsistentWhenKept
<1> QED
  BY <1>1, <1>3, <1>4 DEF IInv, IncidentsTypeOK, HistoryIsLegal, StampsReported, Coherent, Before, Request, Session

THEOREM IncidentsInductive == IncidentsSpec => []IInv
<1>1. IncidentsInit => IInv
  <2> SUFFICES ASSUME IncidentsInit
               PROVE  IInv
    OBVIOUS
  <2>1. incident = <<>> /\ timeline = <<>> /\ DOMAIN incident = {} /\ session \in Session /\ outbox = {}
    BY IncidentsAssumption DEF IncidentsInit
  <2>2. \A t \in Threads : thread[t].pc = "idle"
    BY DEF IncidentsInit, Idle
  <2>3. thread \in [Threads -> Request]
    BY DEF IncidentsInit, Request
  <2> QED
    BY <2>1, <2>2, <2>3 DEF IInv, IncidentsTypeOK, HistoryIsLegal, StampsReported, RequestsConsistent
<1>2. IInv /\ [IncidentsNext]_vars => IInv'
  <2> SUFFICES ASSUME IInv, [IncidentsNext]_vars
               PROVE  IInv'
    OBVIOUS
  <2>1. CASE CreateIncident
    BY <2>1, CreatePreserves
  <2>2. CASE SessionWritten
    BY <2>2, SessionWrittenPreserves
  <2>3. ASSUME NEW t \in Threads, RequestStep(t)
        PROVE  IInv'
    BY <2>3, UpdateReadPreserves, UpdateCommitPreserves, RolledBackPreserves,
       EmergencyReadPreserves, EmergencyRaisesPreserves, EmergencyRepeatsPreserves DEF RequestStep
  <2>4. CASE UNCHANGED vars
    BY <2>4 DEF vars, IInv, IncidentsTypeOK, HistoryIsLegal, StampsReported, RequestsConsistent,
                Coherent, Before, ValidMove, Request
  <2> QED
    BY <2>1, <2>2, <2>3, <2>4 DEF IncidentsNext
<1> QED
  BY <1>1, <1>2, PTL DEF IncidentsSpec

\* Incidents, timelines, session and requests keep their types.
THEOREM IncidentsTypeCorrect == IncidentsSpec => []IncidentsTypeOK
<1>1. IInv => IncidentsTypeOK
  BY DEF IInv
<1> QED
  BY <1>1, IncidentsInductive, PTL

\* The stamps of an incident always tell a way the validator allows, however
\* many requests overlap.
THEOREM LegalHistories == IncidentsSpec => []HistoryIsLegal
<1>1. IInv => HistoryIsLegal
  BY DEF IInv
<1> QED
  BY <1>1, IncidentsInductive, PTL

\* Nothing is stamped that the timeline does not report.
THEOREM ReportedStamps == IncidentsSpec => []StampsReported
<1>1. IInv => StampsReported
  BY DEF IInv
<1> QED
  BY <1>1, IncidentsInductive, PTL

--------------------------------------------------------------------------------
(* Steps that lose a stamp or raise an alarm.                               *)

LEMMA SameExtends ==
  ASSUME NEW row \in Row
  PROVE  Extends(row.stamps, row.stamps)
  BY DEF Row, Extends

\* Only the commit of a status change writes a row that exists.
LEMMA RowWritten ==
  ASSUME IInv, [IncidentsNext]_vars, NEW i \in DOMAIN incident, incident'[i] # incident[i]
  PROVE  \E t \in Threads :
           /\ UpdateCommit(t) /\ thread[t].pc = "update" /\ thread[t].id = i /\ thread'[t] = Idle
           /\ incident'[i] = Written(incident[i], thread[t].row, thread[t].new)
<1>1. ASSUME NEW row, NEW reports, Opened(row, reports)
      PROVE  FALSE
  <2>1. incident' = Append(incident, row) /\ incident \in Seq(Row)
    BY <1>1 DEF Opened, IInv, IncidentsTypeOK
  <2>2. incident'[i] = incident[i]
    BY <2>1
  <2> QED
    BY <2>2
<1>2. PICK t \in Threads : UpdateCommit(t)
  <2>1. incident' # incident
    OBVIOUS
  <2>2. ~CreateIncident /\ \A t \in Threads : ~EmergencyRaises(t) /\ ~EmergencyRepeats(t)
    BY <1>1 DEF CreateIncident, EmergencyRaises, EmergencyRepeats, EmergencyOpened
  <2> QED
    BY <2>1, <2>2 DEF IncidentsNext, RequestStep, SessionWritten, UpdateRead, RolledBack, EmergencyRead, vars
<1>3. thread[t].pc = "update" /\ thread'[t] = Idle
  BY <1>2, FinishKeeps DEF UpdateCommit, IInv
<1> DEFINE after == Written(incident[thread[t].id], thread[t].row, thread[t].new)
<1>4. incident' = [incident EXCEPT ![thread[t].id] = after]
  BY <1>2, UpdateCommitEffect
<1> HIDE DEF after
<1>5. thread[t].id = i /\ incident'[i] = after
  BY <1>4 DEF IInv, IncidentsTypeOK
<1> QED
  BY <1>2, <1>3, <1>5 DEF after

LEMMA HistoryStep ==
  ASSUME IInv, [IncidentsNext]_vars, NEW i \in DOMAIN incident,
         ~Extends(incident'[i].stamps, incident[i].stamps)
  PROVE  \E t \in Threads : /\ thread[t].pc = "update" /\ thread'[t] = Idle
                            /\ thread[t].id = i /\ thread[t].row # incident[i]
<1>1. incident[i] \in Row
  BY DEF IInv, IncidentsTypeOK
<1>2. incident'[i] # incident[i]
  BY <1>1, SameExtends
<1>3. PICK t \in Threads :
        /\ UpdateCommit(t) /\ thread[t].pc = "update" /\ thread[t].id = i /\ thread'[t] = Idle
        /\ incident'[i] = Written(incident[i], thread[t].row, thread[t].new)
  BY <1>2, RowWritten
<1>4. thread[t].row = incident[i] => Extends(incident'[i].stamps, incident[i].stamps)
  BY <1>3, UpdateCommitEffect
<1> QED
  BY <1>3, <1>4

\* An incident loses a stamp only to a request that read an earlier row.
THEOREM HistoryLoss == IncidentsSpec => HistoryLostToOverlap
<1>1. IInv /\ [IncidentsNext]_vars =>
        [\A i \in DOMAIN incident :
           ~Extends(incident'[i].stamps, incident[i].stamps) =>
             \E t \in Threads : /\ thread[t].pc = "update" /\ thread'[t] = Idle
                                /\ thread[t].id = i /\ thread[t].row # incident[i]]_vars
  BY HistoryStep
<1> QED
  BY <1>1, IncidentsInductive, PTL DEF IncidentsSpec, HistoryLostToOverlap

EmergencyOK ==
  /\ outbox' # outbox => ~session.flag /\ session'.flag /\ session'.status = "IN_DANGER"
  /\ \A i \in DOMAIN incident' \ DOMAIN incident :
       "NOTIFIED" \in timeline'[i] =>
         \/ i \in outbox'
         \/ \E t \in Threads : thread[t].pc = "emergency" /\ thread'[t] = Idle /\ thread[t].read.flag

LEMMA EmergencyStep ==
  ASSUME IInv, [IncidentsNext]_vars
  PROVE  EmergencyOK
<1>1. CASE CreateIncident
  <2> DEFINE row == [status |-> "CREATED", stamps |-> <<>>]
  <2>1. incident' = Append(incident, row) /\ timeline' = Append(timeline, {"CREATED"}) /\ outbox' = outbox
    BY <1>1 DEF CreateIncident, Opened
  <2>2. incident \in Seq(Row) /\ timeline \in Seq(SUBSET Reports) /\ Len(timeline) = Len(incident)
    BY DEF IInv, IncidentsTypeOK
  <2> HIDE DEF row
  <2>3. \A i \in DOMAIN incident' \ DOMAIN incident : timeline'[i] = {"CREATED"}
    <3>1. row \in Row
      BY DEF row, Row, IncidentStatus
    <3>2. DOMAIN incident' = 1 .. Len(incident) + 1 /\ DOMAIN incident = 1 .. Len(incident)
      BY <2>1, <2>2, <3>1
    <3>3. \A i \in DOMAIN incident' \ DOMAIN incident : i = Len(timeline) + 1
      BY <2>2, <3>2
    <3>4. {"CREATED"} \in SUBSET Reports
      BY DEF Reports, IncidentStatus
    <3>5. timeline'[Len(timeline) + 1] = {"CREATED"}
      BY <2>1, <2>2, <3>4
    <3> QED
      BY <3>3, <3>5
  <2>4. \A i \in DOMAIN incident' \ DOMAIN incident : ~("NOTIFIED" \in timeline'[i])
    BY <2>3
  <2>5. outbox' = outbox
    BY <2>1
  <2> QED
    BY <2>4, <2>5, Zenon DEF EmergencyOK
<1>2. ASSUME NEW t \in Threads, EmergencyRaises(t)
      PROVE  EmergencyOK
  <2>1. thread[t].read = session
    BY <1>2 DEF EmergencyRaises, Current, IInv, RequestsConsistent
  <2>2. ~session.flag /\ session'.flag /\ session'.status = "IN_DANGER"
    BY <1>2, <2>1 DEF EmergencyRaises
  <2>3. \A i \in DOMAIN incident' \ DOMAIN incident : i \in outbox'
    BY <1>2, EmergencyRaisesPreserves DEF EmergencyRaises
  <2> QED
    BY <2>2, <2>3 DEF EmergencyOK
<1>3. ASSUME NEW t \in Threads, EmergencyRepeats(t)
      PROVE  EmergencyOK
  <2>1. thread[t].pc = "emergency" /\ thread'[t] = Idle /\ thread[t].read.flag /\ outbox' = outbox
    BY <1>3, EmergencyRepeatsPreserves DEF EmergencyRepeats
  <2> QED
    BY <2>1 DEF EmergencyOK
<1>4. ASSUME NEW t \in Threads, UpdateCommit(t)
      PROVE  EmergencyOK
  <2>1. DOMAIN incident' = DOMAIN incident /\ outbox' = outbox
    BY <1>4 DEF UpdateCommit, IInv, IncidentsTypeOK
  <2> QED
    BY <2>1 DEF EmergencyOK
<1>5. CASE UNCHANGED <<incident, outbox>>
  BY <1>5 DEF EmergencyOK
<1>6. \/ CreateIncident
      \/ \E t \in Threads : EmergencyRaises(t) \/ EmergencyRepeats(t) \/ UpdateCommit(t)
      \/ UNCHANGED <<incident, outbox>>
  BY DEF IncidentsNext, RequestStep, SessionWritten, UpdateRead, RolledBack, EmergencyRead, vars
<1> QED
  BY <1>1, <1>2, <1>3, <1>4, <1>5, <1>6

\* An emergency raises its alarm only where none stands, and its incident is
\* without one only if it found the flag set.
THEOREM EmergencyAlarm == IncidentsSpec => EmergencyRaisesOrRepeats
<1>1. IInv /\ [IncidentsNext]_vars => [EmergencyOK]_vars
  BY EmergencyStep
<1> QED
  BY <1>1, IncidentsInductive, PTL DEF IncidentsSpec, EmergencyRaisesOrRepeats, EmergencyOK

--------------------------------------------------------------------------------
(* What a legal history looks like.                                         *)

IncidentRank ==
  [CREATED |-> 0, WARNING |-> 1, IN_DANGER |-> 2, TRACKING |-> 3, RESOLVED |-> 4, CLOSED |-> 5]

LEMMA MovesRise ==
  /\ \A s \in IncidentStatus : IncidentRank[s] \in 0 .. 5
  /\ \A from \in IncidentStatus : \A to \in IncidentTransitions[from] :
       IncidentRank[from] < IncidentRank[to]
  BY DEF IncidentStatus, IncidentTransitions, IncidentRank

\* A stamp stands on the table at least as far from CREATED as in its sequence.
LEMMA StampsRise ==
  ASSUME NEW row \in Row, Coherent(row), NEW k \in DOMAIN row.stamps
  PROVE  /\ row.stamps[k] \in IncidentStatus /\ IncidentRank[row.stamps[k]] \in 0 .. 5
         /\ k = 1 => IncidentRank[row.stamps[k]] >= 1
         /\ k > 1 => IncidentRank[row.stamps[k - 1]] < IncidentRank[row.stamps[k]]
<1>1. row.stamps \in Seq(IncidentStatus \ {"CREATED"}) /\ k \in 1 .. Len(row.stamps)
  BY DEF Row
<1>2. row.stamps[k] \in IncidentStatus /\ row.stamps[k] \in IncidentTransitions[Before(row.stamps, k)]
  BY <1>1 DEF Coherent
<1>3. IncidentRank[row.stamps[k]] \in 0 .. 5
  BY <1>2, MovesRise
<1>4. CASE k = 1
  <2>1. "CREATED" \in IncidentStatus /\ IncidentRank["CREATED"] = 0
    BY DEF IncidentStatus, IncidentRank
  <2>2. row.stamps[k] \in IncidentTransitions["CREATED"]
    BY <1>2, <1>4 DEF Before
  <2>3. IncidentRank["CREATED"] < IncidentRank[row.stamps[k]]
    BY <2>1, <2>2, MovesRise
  <2> QED
    BY <1>2, <1>3, <1>4, <2>1, <2>3
<1>5. CASE k # 1
  <2>1. k > 1 /\ k - 1 \in 1 .. Len(row.stamps)
    BY <1>1, <1>5
  <2>2. row.stamps[k - 1] \in IncidentStatus
    BY <1>1, <2>1
  <2>3. row.stamps[k] \in IncidentTransitions[row.stamps[k - 1]]
    BY <1>2, <1>5 DEF Before
  <2> QED
    BY <1>2, <1>3, <1>5, <2>2, <2>3, MovesRise
<1> QED
  BY <1>4, <1>5

\* At most five stamps, no status twice.
StampedOnce(row) ==
  /\ Len(row.stamps) <= 5
  /\ \A j, k \in DOMAIN row.stamps : row.stamps[j] = row.stamps[k] => j = k

LEMMA CoherentStampedOnce ==
  ASSUME NEW row \in Row, Coherent(row)
  PROVE  StampedOnce(row)
<1> DEFINE n == Len(row.stamps)
           rank(k) == IncidentRank[row.stamps[k]]
<1>1. n \in Nat /\ DOMAIN row.stamps = 1 .. n
  BY DEF Row
<1>2. /\ \A k \in 1 .. n : rank(k) \in 0 .. 5
      /\ \A k \in 1 .. n : k > 1 => rank(k - 1) < rank(k)
      /\ 1 \in 1 .. n => rank(1) >= 1
  BY <1>1, StampsRise
<1> HIDE DEF n, rank
<1>3. n <= 5
  <2> SUFFICES ASSUME n >= 6
               PROVE  FALSE
    BY <1>1
  <2>1. 1 \in 1 .. n /\ 2 \in 1 .. n /\ 3 \in 1 .. n /\ 4 \in 1 .. n /\ 5 \in 1 .. n /\ 6 \in 1 .. n
    BY <1>1
  <2>2. rank(1) < rank(2) /\ rank(2) < rank(3) /\ rank(3) < rank(4) /\ rank(4) < rank(5) /\ rank(5) < rank(6)
    <3>1. 2 - 1 = 1 /\ 3 - 1 = 2 /\ 4 - 1 = 3 /\ 5 - 1 = 4 /\ 6 - 1 = 5
      OBVIOUS
    <3> QED
      BY <1>2, <2>1, <3>1
  <2> QED
    BY <1>2, <2>1, <2>2
<1>4. ASSUME NEW j \in 1 .. n, NEW k \in 1 .. n, j < k
      PROVE  rank(j) < rank(k)
  <2>1. j \in 1 .. 5 /\ k \in 1 .. 5
    BY <1>1, <1>3
  <2>2. \A m \in 2 .. 5 : m <= k => rank(m - 1) \in 0 .. 5 /\ rank(m) \in 0 .. 5 /\ rank(m - 1) < rank(m)
    BY <1>1, <1>2
  <2>3. /\ 2 <= k => rank(1) \in 0 .. 5 /\ rank(2) \in 0 .. 5 /\ rank(1) < rank(2)
        /\ 3 <= k => rank(2) \in 0 .. 5 /\ rank(3) \in 0 .. 5 /\ rank(2) < rank(3)
        /\ 4 <= k => rank(3) \in 0 .. 5 /\ rank(4) \in 0 .. 5 /\ rank(3) < rank(4)
        /\ 5 <= k => rank(4) \in 0 .. 5 /\ rank(5) \in 0 .. 5 /\ rank(4) < rank(5)
    BY <2>1, <2>2
  <2> QED
    BY <1>4, <2>1, <2>3
<1>5. ASSUME NEW j \in 1 .. n, NEW k \in 1 .. n, row.stamps[j] = row.stamps[k]
      PROVE  j = k
  <2>1. rank(j) = rank(k) /\ rank(j) \in 0 .. 5
    BY <1>2, <1>5 DEF rank
  <2>2. ~(j < k) /\ ~(k < j)
    BY <1>4, <2>1
  <2> QED
    BY <1>1, <2>2
<1> QED
  BY <1>1, <1>3, <1>5 DEF StampedOnce, n

\* No status is ever stamped twice, so that one column for each status, which
\* is what updateTimestamp writes to, holds a whole history.
THEOREM OneStampPerStatus == IncidentsSpec => [](\A i \in DOMAIN incident : StampedOnce(incident[i]))
<1>1. IInv => \A i \in DOMAIN incident : StampedOnce(incident[i])
  BY CoherentStampedOnce DEF IInv, IncidentsTypeOK, HistoryIsLegal
<1> QED
  BY <1>1, IncidentsInductive, PTL

--------------------------------------------------------------------------------
(* The history, when requests take turns. Nothing in the code makes them do *)
(* so: the theorem says what a version or a lock on the row would do.       *)

\* Status changes of an incident follow one another.
TakeTurns ==
  \A s, t \in Threads :
    thread[s].pc = "update" /\ thread[t].pc = "update" /\ thread[s].id = thread[t].id => s = t

RowsCurrent == \A t \in Threads : thread[t].pc = "update" => thread[t].row = incident[thread[t].id]

\* No stamp is lost, and what is closed stays as it is.
HistoryKept ==
  \A i \in DOMAIN incident :
    /\ Extends(incident'[i].stamps, incident[i].stamps)
    /\ incident[i].status = "CLOSED" => incident'[i] = incident[i]

LEMMA RowsCurrentStep ==
  ASSUME IInv, TakeTurns, RowsCurrent, [IncidentsNext]_vars
  PROVE  RowsCurrent'
<1> SUFFICES ASSUME NEW t \in Threads, thread'[t].pc = "update"
             PROVE  thread'[t].row = incident'[thread'[t].id]
  BY DEF RowsCurrent
<1>0. thread \in [Threads -> Request]
  BY DEF IInv, IncidentsTypeOK
<1>1. CASE thread'[t] = thread[t]
  <2>1. PICK i \in DOMAIN incident : i = thread[t].id
    BY <1>1, Fields DEF IInv
  <2>2. incident'[i] = incident[i]
    <3> SUFFICES ASSUME incident'[i] # incident[i]
                 PROVE  FALSE
      OBVIOUS
    <3>1. PICK s \in Threads : thread[s].pc = "update" /\ thread[s].id = i /\ thread'[s] = Idle
      BY RowWritten
    <3>2. s = t
      BY <1>1, <2>1, <3>1 DEF TakeTurns
    <3> QED
      BY <3>1, <3>2 DEF Idle
  <2> QED
    BY <1>1, <2>1, <2>2 DEF RowsCurrent
<1>2. CASE thread'[t] # thread[t]
  <2>1. \A u \in Threads : thread[u].pc = "emergency" => [thread[u] EXCEPT !.fresh = FALSE].pc = "emergency"
    BY <1>0 DEF Request, Idle
  <2>2. PICK s \in Threads : UpdateRead(s) \/ EmergencyRead(s) \/ Finish(s) \/ thread' = Overtaken(s)
    BY <1>2, <2>1
    DEF IncidentsNext, RequestStep, CreateIncident, SessionWritten, UpdateCommit, RolledBack,
        EmergencyRaises, EmergencyRepeats, vars
  <2>3. ~Finish(s) /\ ~EmergencyRead(s) /\ thread' # Overtaken(s)
    <3>1. ~Finish(s)
      BY <1>0, <1>2 DEF Finish, Idle
    <3>2. ~EmergencyRead(s)
      BY <1>0, <1>2 DEF EmergencyRead
    <3>3. ASSUME thread' = Overtaken(s)
          PROVE  FALSE
      <4>1. thread'[t] = IF t = s THEN Idle
                         ELSE IF thread[t].pc = "emergency" THEN [thread[t] EXCEPT !.fresh = FALSE]
                         ELSE thread[t]
        BY <3>3 DEF Overtaken
      <4> QED
        BY <1>2, <2>1, <4>1 DEF Idle
    <3> QED
      BY <3>1, <3>2, <3>3
  <2>4. s = t /\ UpdateRead(t)
    BY <1>0, <1>2, <2>2, <2>3 DEF UpdateRead
  <2>5. PICK i \in DOMAIN incident, new \in IncidentStatus :
          /\ thread' = [thread EXCEPT ![t] = [pc |-> "update", id |-> i, row |-> incident[i], new |-> new]]
          /\ incident' = incident
    BY <2>4 DEF UpdateRead
  <2>6. thread'[t] = [pc |-> "update", id |-> i, row |-> incident[i], new |-> new]
    BY <1>0, <2>5
  <2> QED
    BY <2>5, <2>6
<1> QED
  BY <1>1, <1>2

LEMMA HistoryKeptStep ==
  ASSUME IInv, RowsCurrent, [IncidentsNext]_vars
  PROVE  HistoryKept
<1> SUFFICES ASSUME NEW i \in DOMAIN incident
             PROVE  /\ Extends(incident'[i].stamps, incident[i].stamps)
                    /\ incident[i].status = "CLOSED" => incident'[i] = incident[i]
  BY DEF HistoryKept
<1>1. Extends(incident'[i].stamps, incident[i].stamps)
  BY HistoryStep DEF RowsCurrent
<1>2. ASSUME incident[i].status = "CLOSED", incident'[i] # incident[i]
      PROVE  FALSE
  <2>1. PICK t \in Threads :
          /\ thread[t].pc = "update" /\ thread[t].id = i
          /\ incident'[i] = Written(incident[i], thread[t].row, thread[t].new)
    BY <1>2, RowWritten
  <2>2. thread[t].row = incident[i] /\ ValidMove("CLOSED", thread[t].new) /\ incident[i] \in Row
    BY <1>2, <2>1 DEF RowsCurrent, IInv, IncidentsTypeOK, RequestsConsistent
  <2>3. thread[t].new = "CLOSED"
    BY <2>2 DEF ValidMove, IncidentTransitions
  <2>4. incident'[i] = [status |-> "CLOSED", stamps |-> incident[i].stamps]
    BY <1>2, <2>1, <2>2, <2>3 DEF Written, Stamped
  <2> QED
    BY <1>2, <2>2, <2>4 DEF Row
<1> QED
  BY <1>1, <1>2

\* If the status changes of each incident take turns, no stamp is ever lost and
\* no closed incident is opened again, whatever emergencies overlap with them:
\* histories are lost to such overlaps only.
THEOREM HistoryKeptInTurns == IncidentsSpec /\ []TakeTurns => [][HistoryKept]_vars
<1>1. IncidentsInit => RowsCurrent
  BY DEF IncidentsInit, RowsCurrent, Idle
<1>2. IInv /\ TakeTurns /\ RowsCurrent /\ [IncidentsNext]_vars => RowsCurrent' /\ [HistoryKept]_vars
  BY RowsCurrentStep, HistoryKeptStep
<1> QED
  BY <1>1, <1>2, IncidentsInductive, PTL DEF IncidentsSpec
================================================================================
