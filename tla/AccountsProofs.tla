----------------------------- MODULE AccountsProofs -----------------------------
(***************************************************************************)
(* Proofs about EventOutbox and Accounts. Three invariants go together: of *)
(* the outbox (what an instance has sent lies in the rows it has locked,   *)
(* and these exclude those of the others), of registrations, and of        *)
(* confirmations (those announced are numbered without a gap, and a        *)
(* challenge that may still be confirmed has none).                        *)
(***************************************************************************)
EXTENDS Accounts, TLAPS, FiniteSetTheorems

OutboxInv ==
  /\ OutboxTypeOK
  /\ \A p \in Publishers : todo[p] \cup done[p] \subseteq locked[p] /\ todo[p] \cap done[p] = {}
  /\ ExclusiveRows
  /\ SentOncePerFailure

RequestsTyped ==
  /\ account \in Account
  /\ challenge \in [Challenges -> Status]
  /\ thread \in [Threads -> ThreadState]
  /\ created \in Created
  /\ kills \in 0 .. MaxKills

\* What a thread has read at the points where it matters.
ThreadsConsistent ==
  \A t \in Threads :
    /\ thread[t].new => thread[t].pc \in {"otp", "expire", "publish"}
    /\ thread[t].pc = "publish" => thread[t].new
    /\ thread[t].pc = "confirm" => thread[t].id \in Challenges
    /\ thread[t].pc \in {"confirm", "reset"} => thread[t].saw # "absent"
    /\ thread[t].saw # "absent" => account # "absent"
    /\ thread[t].pc \in {"otp", "expire", "resend"} => account # "absent"

ChallengesOwned == \A c \in Challenges : challenge[c] # "NONE" => account # "absent"

RequestInv == RequestsTyped /\ ThreadsConsistent /\ ChallengesOwned /\ CreatedAccounting

ConfirmationInv ==
  /\ \A c \in Challenges : \E k \in 0 .. Cardinality(Threads) : Confirmations(c) = 1 .. k
  /\ \A c \in Challenges :
       challenge[c] \in {"NONE", "PENDING", "LAPSED"} => Confirmations(c) = {}
  /\ ConfirmedOncePerOverlap

AInv == OutboxInv /\ RequestInv /\ ConfirmationInv

--------------------------------------------------------------------------------
(* The outbox.                                                              *)

\* The invariant of the outbox speaks of rows only in its types.
LEMMA InsertPreserves ==
  ASSUME OutboxInv, NEW new \in SUBSET Events, Insert(new)
  PROVE  OutboxInv'
  BY DEF OutboxInv, OutboxTypeOK, ExclusiveRows, SentOncePerFailure, Acknowledged, Insert

LEMMA OutboxUnchanged ==
  ASSUME OutboxInv, UNCHANGED outboxVars
  PROVE  OutboxInv'
  BY DEF OutboxInv, OutboxTypeOK, ExclusiveRows, SentOncePerFailure, Acknowledged, outboxVars

LEMMA FetchPreserves ==
  ASSUME OutboxInv, NEW p \in Publishers, Fetch(p)
  PROVE  OutboxInv'
<1>1. PICK b \in SUBSET Free :
        locked' = [locked EXCEPT ![p] = b] /\ todo' = [todo EXCEPT ![p] = b]
  BY DEF Fetch
<1>2. b \subseteq rows /\ b \cap marked = {} /\ \A q \in Publishers : b \cap locked[q] = {}
  BY DEF Free
<1>3. UNCHANGED <<rows, marked, done, sends, failures>> /\ done[p] = {}
  BY DEF Fetch, OutboxInv
<1>4. OutboxTypeOK'
  BY <1>1, <1>2, <1>3 DEF OutboxInv, OutboxTypeOK
<1>5. \A q \in Publishers :
        /\ locked'[q] = IF q = p THEN b ELSE locked[q]
        /\ todo'[q] = IF q = p THEN b ELSE todo[q]
  BY <1>1 DEF OutboxInv, OutboxTypeOK
<1>6. \A q \in Publishers : (todo[q] \cup done[q] \subseteq locked[q] /\ todo[q] \cap done[q] = {})'
  BY <1>3, <1>5 DEF OutboxInv
<1>7. ExclusiveRows'
  BY <1>2, <1>3, <1>5 DEF OutboxInv, ExclusiveRows
<1>8. SentOncePerFailure'
  BY <1>3 DEF OutboxInv, SentOncePerFailure, Acknowledged
<1> QED
  BY <1>4, <1>6, <1>7, <1>8 DEF OutboxInv

\* The row is locked by p alone and unmarked, so that nobody has sent it
\* since the last failure.
LEMMA SendOkPreserves ==
  ASSUME OutboxInv, NEW p \in Publishers, NEW e \in Events, SendOk(p, e)
  PROVE  OutboxInv'
<1>1. /\ UNCHANGED <<rows, marked, locked, failures>>
      /\ e \in todo[p]
  BY DEF SendOk
<1>2. \A q \in Publishers :
        /\ todo'[q] = IF q = p THEN todo[q] \ {e} ELSE todo[q]
        /\ done'[q] = IF q = p THEN done[q] \cup {e} ELSE done[q]
  BY DEF SendOk, OutboxInv, OutboxTypeOK
<1>3. \A f \in Events : sends'[f] = IF f = e THEN sends[f] + 1 ELSE sends[f]
  BY DEF SendOk, OutboxInv, OutboxTypeOK
<1>4. OutboxTypeOK'
  BY DEF SendOk, OutboxInv, OutboxTypeOK
<1>5. ~Acknowledged(e) /\ Acknowledged(e)'
  <2>1. e \in locked[p] /\ e \notin done[p] /\ e \notin marked
    BY <1>1 DEF OutboxInv, ExclusiveRows
  <2>2. ASSUME NEW q \in Publishers, q # p
        PROVE  e \notin done[q]
    BY <2>1, <2>2 DEF OutboxInv, ExclusiveRows
  <2>3. e \in done'[p]
    BY <1>2
  <2> QED
    BY <2>1, <2>2, <2>3 DEF Acknowledged
<1>6. \A f \in Events \ {e} : Acknowledged(f)' <=> Acknowledged(f)
  BY <1>1, <1>2 DEF Acknowledged
<1>7. SentOncePerFailure'
  <2> SUFFICES ASSUME NEW f \in Events
               PROVE  /\ sends'[f] <= failures' + (IF Acknowledged(f)' THEN 1 ELSE 0)
                      /\ Acknowledged(f)' => sends'[f] > 0
    BY DEF SentOncePerFailure
  <2>1. sends[f] \in Nat /\ failures \in Nat
    BY DEF OutboxInv, OutboxTypeOK
  <2> QED
    BY <1>1, <1>3, <1>5, <1>6, <2>1 DEF OutboxInv, SentOncePerFailure
<1>8. \A q \in Publishers : (todo[q] \cup done[q] \subseteq locked[q] /\ todo[q] \cap done[q] = {})'
  BY <1>1, <1>2 DEF OutboxInv
<1> QED
  BY <1>1, <1>4, <1>7, <1>8 DEF OutboxInv, ExclusiveRows

LEMMA SendFailedPreserves ==
  ASSUME OutboxInv, NEW p \in Publishers, NEW e \in Events, SendFailed(p, e)
  PROVE  OutboxInv'
<1>1. UNCHANGED <<rows, marked, locked, done>> /\ failures' = failures + 1
  BY DEF SendFailed
<1>2. \A q \in Publishers : todo'[q] \subseteq todo[q]
  BY DEF SendFailed, OutboxInv, OutboxTypeOK
<1>3. \A f \in Events : sends'[f] \in {sends[f], sends[f] + 1} /\ sends[f] \in Nat
  BY DEF SendFailed, OutboxInv, OutboxTypeOK
<1>4. OutboxTypeOK'
  BY DEF SendFailed, OutboxInv, OutboxTypeOK
<1>5. SentOncePerFailure'
  <2> SUFFICES ASSUME NEW f \in Events
               PROVE  /\ sends'[f] <= failures' + (IF Acknowledged(f)' THEN 1 ELSE 0)
                      /\ Acknowledged(f)' => sends'[f] > 0
    BY DEF SentOncePerFailure
  <2>1. failures \in Nat
    BY DEF OutboxInv, OutboxTypeOK
  <2>2. Acknowledged(f)' <=> Acknowledged(f)
    BY <1>1 DEF Acknowledged
  <2> QED
    BY <1>1, <1>3, <2>1, <2>2 DEF OutboxInv, SentOncePerFailure
<1> QED
  BY <1>1, <1>2, <1>4, <1>5 DEF OutboxInv, ExclusiveRows

LEMMA CommitPreserves ==
  ASSUME OutboxInv, NEW p \in Publishers, CommitMarks(p)
  PROVE  OutboxInv'
<1>1. UNCHANGED <<rows, sends, failures>> /\ marked' = marked \cup done[p]
  BY DEF CommitMarks, Marks
<1>2. \A q \in Publishers :
        /\ locked'[q] = IF q = p THEN {} ELSE locked[q]
        /\ todo'[q] = IF q = p THEN {} ELSE todo[q]
        /\ done'[q] = IF q = p THEN {} ELSE done[q]
  BY DEF CommitMarks, Released, OutboxInv, OutboxTypeOK
<1>3. OutboxTypeOK'
  BY <1>1 DEF CommitMarks, Released, OutboxInv, OutboxTypeOK
<1>4. ExclusiveRows'
  BY <1>1, <1>2 DEF OutboxInv, ExclusiveRows
<1>5. SentOncePerFailure'
  <2>1. \A f \in Events : Acknowledged(f)' <=> Acknowledged(f)
    BY <1>1, <1>2 DEF Acknowledged
  <2> QED
    BY <1>1, <2>1 DEF OutboxInv, SentOncePerFailure
<1> QED
  BY <1>2, <1>3, <1>4, <1>5 DEF OutboxInv

LEMMA BreakOffPreserves ==
  ASSUME OutboxInv, NEW p \in Publishers, BreakOff(p)
  PROVE  OutboxInv'
<1>1. UNCHANGED <<rows, marked, sends>> /\ failures' = failures + 1
  BY DEF BreakOff
<1>2. \A q \in Publishers :
        /\ locked'[q] = IF q = p THEN {} ELSE locked[q]
        /\ todo'[q] = IF q = p THEN {} ELSE todo[q]
        /\ done'[q] = IF q = p THEN {} ELSE done[q]
  BY DEF BreakOff, Released, OutboxInv, OutboxTypeOK
<1>3. OutboxTypeOK'
  BY <1>1 DEF BreakOff, Released, OutboxInv, OutboxTypeOK
<1>4. SentOncePerFailure'
  <2> SUFFICES ASSUME NEW f \in Events
               PROVE  /\ sends'[f] <= failures' + (IF Acknowledged(f)' THEN 1 ELSE 0)
                      /\ Acknowledged(f)' => sends'[f] > 0
    BY DEF SentOncePerFailure
  <2>1. sends[f] \in Nat /\ failures \in Nat
    BY DEF OutboxInv, OutboxTypeOK
  <2>2. Acknowledged(f)' => Acknowledged(f)
    BY <1>1, <1>2 DEF Acknowledged
  <2> QED
    BY <1>1, <2>1, <2>2 DEF OutboxInv, SentOncePerFailure
<1> QED
  BY <1>1, <1>2, <1>3, <1>4 DEF OutboxInv, ExclusiveRows

LEMMA PublisherPreserves ==
  ASSUME OutboxInv, PublisherStep
  PROVE  OutboxInv'
  BY FetchPreserves, SendOkPreserves, SendFailedPreserves, CommitPreserves, BreakOffPreserves
  DEF PublisherStep

--------------------------------------------------------------------------------
(* The requests.                                                            *)

\* One thread goes on, the others stay where they are.
LEMMA OneGoes ==
  ASSUME RequestInv, NEW t \in Threads, NEW s \in ThreadState, Goes(t, s)
  PROVE  /\ thread' \in [Threads -> ThreadState]
         /\ \A u \in Threads : thread'[u] = IF u = t THEN s ELSE thread[u]
  BY DEF RequestInv, RequestsTyped, Goes

LEMMA IdleTyped == Idle \in ThreadState /\ Idle.pc = "idle" /\ Idle.new = FALSE
  BY DEF Idle, ThreadState, Account

Consistent(s) ==
  /\ s.new => s.pc \in {"otp", "expire", "publish"}
  /\ s.pc = "publish" => s.new
  /\ s.pc = "confirm" => s.id \in Challenges
  /\ s.pc \in {"confirm", "reset"} => s.saw # "absent"
  /\ s.saw # "absent" => account # "absent"
  /\ s.pc \in {"otp", "expire", "resend"} => account # "absent"

\* A step that neither inserts nor announces the account.
LEMMA OrdinaryStep ==
  ASSUME RequestInv, NEW t \in Threads, NEW s \in ThreadState, Goes(t, s), Consistent(s),
         s.new = thread[t].new,
         account' \in Account, account' = "absent" <=> account = "absent",
         challenge' \in [Challenges -> Status], account # "absent" \/ challenge' = challenge,
         created' = created, kills' = kills
  PROVE  RequestInv'
<1>1. /\ thread' \in [Threads -> ThreadState]
      /\ \A u \in Threads : thread'[u] = IF u = t THEN s ELSE thread[u]
  BY OneGoes
<1>2. RequestsTyped'
  BY <1>1 DEF RequestInv, RequestsTyped
<1>3. ThreadsConsistent'
  BY <1>1 DEF RequestInv, ThreadsConsistent, Consistent
<1>4. \A u \in Threads : thread'[u].new = thread[u].new
  BY <1>1
<1>5. CreatedAccounting'
  BY <1>4 DEF RequestInv, CreatedAccounting
<1>6. ChallengesOwned'
  BY DEF RequestInv, ChallengesOwned
<1> QED
  BY <1>2, <1>3, <1>5, <1>6 DEF RequestInv

LEMMA RegisterReadPreserves ==
  ASSUME RequestInv, NEW t \in Threads, RegisterRead(t)
  PROVE  RequestInv'
<1> DEFINE s == [Idle EXCEPT !.pc = "save", !.saw = account]
<1>1. s \in ThreadState /\ s.new = thread[t].new /\ Consistent(s) /\ Goes(t, s)
  BY DEF RegisterRead, RequestInv, RequestsTyped, Idle, ThreadState, Account, Consistent
<1> QED
  BY <1>1, OrdinaryStep DEF RegisterRead, RequestInv, RequestsTyped

LEMMA SaveExistingPreserves ==
  ASSUME RequestInv, NEW t \in Threads, SaveExisting(t)
  PROVE  RequestInv'
<1> DEFINE s == [Idle EXCEPT !.pc = "otp"]
<1>1. s \in ThreadState /\ s.new = FALSE /\ Consistent(s) /\ Goes(t, s)
  BY DEF SaveExisting, RequestInv, ThreadsConsistent, Idle, ThreadState, Account, Consistent
<1>2. thread[t].new = FALSE /\ account # "absent" /\ account' = "unverified"
  BY DEF SaveExisting, RequestInv, RequestsTyped, ThreadState, ThreadsConsistent
<1> QED
  BY <1>1, <1>2, OrdinaryStep DEF SaveExisting, RequestInv, RequestsTyped, Account

LEMMA SaveNewPreserves ==
  ASSUME RequestInv, NEW t \in Threads, SaveNew(t)
  PROVE  RequestInv'
<1>1. thread[t].pc = "save" /\ thread[t].new = FALSE
  BY DEF SaveNew, RequestInv, RequestsTyped, ThreadState, ThreadsConsistent
<1>2. UNCHANGED <<challenge, created, kills>>
  BY DEF SaveNew
<1>3. CASE Inserted /\ account' = "unverified"
             /\ Goes(t, [Idle EXCEPT !.pc = "otp", !.new = TRUE])
  <2> DEFINE s == [Idle EXCEPT !.pc = "otp", !.new = TRUE]
  <2>1. s \in ThreadState /\ s.pc = "otp" /\ s.new = TRUE /\ s.saw = "absent"
    BY DEF Idle, ThreadState, Account
  <2>2. /\ thread' \in [Threads -> ThreadState]
        /\ \A u \in Threads : thread'[u] = IF u = t THEN s ELSE thread[u]
    BY <1>3, <2>1, OneGoes
  <2>3. account = "absent" /\ created = "none" /\ \A u \in Threads : ~thread[u].new
    BY <1>3 DEF Inserted, RequestInv, CreatedAccounting
  <2> HIDE DEF s
  <2>4. RequestsTyped'
    BY <1>2, <1>3, <2>2 DEF RequestInv, RequestsTyped, Account
  <2>5. ThreadsConsistent'
    BY <1>3, <2>1, <2>2 DEF RequestInv, ThreadsConsistent
  <2>6. CreatedAccounting'
    BY <1>2, <1>3, <2>1, <2>2, <2>3 DEF CreatedAccounting
  <2>7. ChallengesOwned'
    BY <1>3 DEF ChallengesOwned
  <2> QED
    BY <2>4, <2>5, <2>6, <2>7 DEF RequestInv
<1>4. CASE account' = account /\ Goes(t, Idle)
  <2>1. Idle \in ThreadState /\ Idle.new = FALSE /\ Consistent(Idle)
    BY DEF Idle, ThreadState, Account, Consistent
  <2> QED
    BY <1>1, <1>2, <1>4, <2>1, OrdinaryStep DEF RequestInv, RequestsTyped
<1> QED
  BY <1>3, <1>4 DEF SaveNew

\* The thread that was to announce the account no longer is.
LEMMA AnnouncementEnds ==
  ASSUME RequestInv, NEW t \in Threads, thread[t].new, Goes(t, Idle),
         created' \in Created \ {"none"}, kills' \in 0 .. MaxKills, UNCHANGED <<account, challenge>>
  PROVE  RequestInv'
<1>1. /\ thread' \in [Threads -> ThreadState]
      /\ \A u \in Threads : thread'[u] = IF u = t THEN Idle ELSE thread[u]
  BY IdleTyped, OneGoes
<1>2. \A u \in Threads : ~thread'[u].new
  BY <1>1, IdleTyped DEF RequestInv, CreatedAccounting
<1>3. account # "absent"
  BY DEF RequestInv, CreatedAccounting
<1>4. ThreadsConsistent'
  BY <1>1 DEF RequestInv, ThreadsConsistent, Idle
<1> QED
  BY <1>1, <1>2, <1>3, <1>4 DEF RequestInv, RequestsTyped, ChallengesOwned, CreatedAccounting

LEMMA PublishCreatedPreserves ==
  ASSUME RequestInv, NEW t \in Threads, PublishCreated(t)
  PROVE  RequestInv'
<1>1. thread[t].new
  BY DEF PublishCreated, RequestInv, ThreadsConsistent
<1>2. created' \in Created \ {"none"} /\ kills' \in 0 .. MaxKills
  BY AccountsAssumption DEF PublishCreated, RequestInv, RequestsTyped, Created
<1> QED
  BY <1>1, <1>2, AnnouncementEnds DEF PublishCreated

LEMMA KillPreserves ==
  ASSUME RequestInv, NEW t \in Threads, Kill(t)
  PROVE  RequestInv'
<1>1. kills' \in 0 .. MaxKills
  BY AccountsAssumption DEF Kill, RequestInv, RequestsTyped
<1>2. CASE thread[t].new
  BY <1>1, <1>2, AnnouncementEnds DEF Kill, Created
<1>3. CASE ~thread[t].new
  <2>1. /\ thread' \in [Threads -> ThreadState]
        /\ \A u \in Threads : thread'[u] = IF u = t THEN Idle ELSE thread[u]
    BY IdleTyped, OneGoes DEF Kill
  <2>2. \A u \in Threads : thread'[u].new <=> thread[u].new
    BY <1>3, <2>1, IdleTyped
  <2>3. UNCHANGED <<account, challenge, created>>
    BY <1>3 DEF Kill
  <2>4. ThreadsConsistent'
    BY <2>1, <2>3 DEF RequestInv, ThreadsConsistent, Idle
  <2> QED
    BY <1>1, <2>1, <2>2, <2>3, <2>4 DEF RequestInv, RequestsTyped, ChallengesOwned, CreatedAccounting
<1> QED
  BY <1>2, <1>3

LEMMA CreateOtpReadPreserves ==
  ASSUME RequestInv, NEW t \in Threads, CreateOtpRead(t)
  PROVE  RequestInv'
<1> DEFINE s == [Idle EXCEPT !.pc = "expire", !.id = ToExpire, !.new = thread[t].new]
<1>1. ToExpire \in Challenges \cup {0}
  BY DEF ToExpire, Top
<1>2. thread[t].new \in BOOLEAN
  BY DEF RequestInv, RequestsTyped, ThreadState
<1>3. s \in ThreadState /\ s.new = thread[t].new /\ Consistent(s) /\ Goes(t, s)
  BY <1>1, <1>2 DEF CreateOtpRead, RequestInv, ThreadsConsistent, Idle, ThreadState, Account,
                    Consistent
<1> QED
  BY <1>3, OrdinaryStep DEF CreateOtpRead, RequestInv, RequestsTyped

LEMMA CreateOtpCommitPreserves ==
  ASSUME RequestInv, NEW t \in Threads, CreateOtpCommit(t)
  PROVE  RequestInv'
<1> DEFINE s == IF thread[t].new THEN [Idle EXCEPT !.pc = "publish", !.new = TRUE] ELSE Idle
<1>1. thread[t].new \in BOOLEAN
  BY DEF RequestInv, RequestsTyped, ThreadState
<1>2. s \in ThreadState /\ s.new = thread[t].new /\ Consistent(s) /\ Goes(t, s)
  BY <1>1 DEF CreateOtpCommit, Idle, ThreadState, Account, Consistent
<1>3. challenge' \in [Challenges -> Status] /\ account # "absent"
  BY DEF CreateOtpCommit, RequestInv, RequestsTyped, ThreadsConsistent, Status
<1> QED
  BY <1>2, <1>3, OrdinaryStep DEF CreateOtpCommit, RequestInv, RequestsTyped

LEMMA ConfirmReadPreserves ==
  ASSUME RequestInv, NEW t \in Threads, ConfirmRead(t)
  PROVE  RequestInv'
<1>1. PICK c \in Challenges, pc \in {"confirm", "reject"} :
        challenge[c] = "PENDING" /\ Goes(t, [Idle EXCEPT !.pc = pc, !.saw = account, !.id = c])
  BY DEF ConfirmRead
<1> DEFINE s == [Idle EXCEPT !.pc = pc, !.saw = account, !.id = c]
<1>2. account # "absent"
  BY <1>1 DEF RequestInv, ChallengesOwned
<1>3. s \in ThreadState /\ s.new = thread[t].new /\ Consistent(s) /\ Goes(t, s)
  BY <1>1, <1>2 DEF ConfirmRead, RequestInv, RequestsTyped, Idle, ThreadState, Account, Consistent
<1> QED
  BY <1>3, OrdinaryStep DEF ConfirmRead, RequestInv, RequestsTyped

LEMMA ResendReadPreserves ==
  ASSUME RequestInv, NEW t \in Threads, ResendRead(t)
  PROVE  RequestInv'
<1> DEFINE s == [Idle EXCEPT !.pc = "resend"]
<1>1. s \in ThreadState /\ s.new = thread[t].new /\ Consistent(s) /\ Goes(t, s)
  BY DEF ResendRead, Idle, ThreadState, Account, Consistent
<1> QED
  BY <1>1, OrdinaryStep DEF ResendRead, RequestInv, RequestsTyped

LEMMA ResetReadPreserves ==
  ASSUME RequestInv, NEW t \in Threads, ResetRead(t)
  PROVE  RequestInv'
<1> DEFINE s == [Idle EXCEPT !.pc = "reset", !.saw = account]
<1>1. s \in ThreadState /\ s.new = thread[t].new /\ Consistent(s) /\ Goes(t, s)
  BY DEF ResetRead, RequestInv, RequestsTyped, Idle, ThreadState, Account, Consistent
<1> QED
  BY <1>1, OrdinaryStep DEF ResetRead, RequestInv, RequestsTyped

\* The commits after which a thread is idle.
LEMMA RequestEnds ==
  ASSUME RequestInv, NEW t \in Threads, Goes(t, Idle),
         thread[t].pc \in {"confirm", "reject", "resend", "reset"},
         account' \in Account, account' = "absent" <=> account = "absent",
         challenge' \in [Challenges -> Status], account # "absent" \/ challenge' = challenge,
         created' = created, kills' = kills
  PROVE  RequestInv'
<1>1. thread[t].new = FALSE
  BY DEF RequestInv, RequestsTyped, ThreadState, ThreadsConsistent
<1>2. Idle \in ThreadState /\ Idle.new = FALSE /\ Consistent(Idle)
  BY DEF Idle, ThreadState, Account, Consistent
<1> QED
  BY <1>1, <1>2, OrdinaryStep

LEMMA ConfirmCommitPreserves ==
  ASSUME RequestInv, NEW t \in Threads, ConfirmCommit(t)
  PROVE  RequestInv'
<1>1. thread[t].pc = "confirm" /\ thread[t].saw # "absent" /\ account # "absent"
  BY DEF ConfirmCommit, RequestInv, ThreadsConsistent
<1>2. account' \in Account /\ account' # "absent" /\ challenge' \in [Challenges -> Status]
  BY <1>1 DEF ConfirmCommit, RequestInv, RequestsTyped, Account, Status
<1> QED
  BY <1>1, <1>2, RequestEnds DEF ConfirmCommit

LEMMA WrongCodePreserves ==
  ASSUME RequestInv, NEW t \in Threads, WrongCode(t)
  PROVE  RequestInv'
  BY RequestEnds DEF WrongCode, RolledBack, RequestInv, RequestsTyped

LEMMA ResendCommitPreserves ==
  ASSUME RequestInv, NEW t \in Threads, ResendCommit(t)
  PROVE  RequestInv'
<1>1. thread[t].pc = "resend" /\ account # "absent"
  BY DEF ResendCommit, RequestInv, ThreadsConsistent
<1>2. challenge' \in [Challenges -> Status]
  BY DEF ResendCommit, RequestInv, RequestsTyped, Status
<1> QED
  BY <1>1, <1>2, RequestEnds DEF ResendCommit, RequestInv, RequestsTyped

LEMMA ResetCommitPreserves ==
  ASSUME RequestInv, NEW t \in Threads, ResetCommit(t)
  PROVE  RequestInv'
<1>1. /\ thread[t].pc = "reset" /\ thread[t].saw # "absent" /\ account # "absent"
      /\ thread[t].saw \in Account
  BY DEF ResetCommit, RequestInv, RequestsTyped, ThreadState, ThreadsConsistent
<1> QED
  BY <1>1, RequestEnds DEF ResetCommit, WrittenBack, RequestInv, RequestsTyped

LEMMA OtherRequestsPreserve ==
  ASSUME RequestInv, VerifyUser \/ \E c \in Challenges : Lapse(c)
  PROVE  RequestInv'
<1>1. UNCHANGED <<thread, created, kills>>
  BY DEF VerifyUser, Lapse
<1>2. CASE VerifyUser
  BY <1>1, <1>2 DEF VerifyUser, RequestInv, RequestsTyped, ThreadsConsistent, ChallengesOwned,
                    CreatedAccounting, Account
<1>3. CASE \E c \in Challenges : Lapse(c)
  BY <1>1, <1>3 DEF Lapse, RequestInv, RequestsTyped, ThreadsConsistent, ChallengesOwned,
                    CreatedAccounting, Status
<1> QED
  BY <1>2, <1>3

LEMMA RequestUnchanged ==
  ASSUME RequestInv, UNCHANGED requestVars
  PROVE  RequestInv'
  BY DEF requestVars, RequestInv, RequestsTyped, ThreadsConsistent, ChallengesOwned,
         CreatedAccounting

LEMMA RequestPreserves ==
  ASSUME RequestInv, AccountsNext
  PROVE  RequestInv'
  BY RegisterReadPreserves, SaveExistingPreserves, SaveNewPreserves, PublishCreatedPreserves,
     CreateOtpReadPreserves, CreateOtpCommitPreserves, ConfirmReadPreserves,
     ConfirmCommitPreserves, WrongCodePreserves, ResendReadPreserves, ResendCommitPreserves,
     ResetReadPreserves, ResetCommitPreserves, KillPreserves, OtherRequestsPreserve,
     RequestUnchanged DEF AccountsNext, RequestStep

--------------------------------------------------------------------------------
(* The confirmations.                                                       *)

\* Whatever leaves the announced confirmations alone, makes no challenge
\* confirmable again and lets no further request confirm.
LEMMA ConfirmationsKept ==
  ASSUME ConfirmationInv,
         \A c \in Challenges :
           /\ Confirmations(c)' = Confirmations(c)
           /\ Confirming(c)' \subseteq Confirming(c)
           /\ challenge'[c] \in {"NONE", "PENDING", "LAPSED"} =>
                challenge[c] \in {"NONE", "PENDING", "LAPSED"}
  PROVE  ConfirmationInv'
<1>1. \A c \in Challenges : \E k \in 0 .. Cardinality(Threads) : Confirmations(c)' = 1 .. k
  BY DEF ConfirmationInv
<1>2. \A c \in Challenges :
        challenge'[c] \in {"NONE", "PENDING", "LAPSED"} => Confirmations(c)' = {}
  BY DEF ConfirmationInv
<1>3. ASSUME NEW c \in Challenges
      PROVE  Cardinality(Confirmations(c)') + Cardinality(Confirming(c)') <= Cardinality(Threads)
  <2>1. IsFiniteSet(Confirming(c))
    BY AccountsAssumption, FS_Subset DEF Confirming
  <2>2. /\ IsFiniteSet(Confirming(c)')
        /\ Cardinality(Confirming(c)') <= Cardinality(Confirming(c))
    BY <2>1, FS_Subset
  <2>3. PICK k \in 0 .. Cardinality(Threads) : Confirmations(c) = 1 .. k
    BY DEF ConfirmationInv
  <2>4. Cardinality(Threads) \in Nat /\ Cardinality(Confirming(c)) \in Nat
        /\ Cardinality(Confirming(c)') \in Nat
    BY AccountsAssumption, <2>1, <2>2, FS_CardinalityType
  <2>5. Cardinality(Confirmations(c)) \in Nat
    BY <2>3, <2>4, FS_Interval, FS_CardinalityType
  <2>6. Cardinality(Confirmations(c)) + Cardinality(Confirming(c)) <= Cardinality(Threads)
    BY DEF ConfirmationInv, ConfirmedOncePerOverlap
  <2>7. Cardinality(Confirmations(c)') = Cardinality(Confirmations(c))
    OBVIOUS
  <2> QED
    BY <2>2, <2>4, <2>5, <2>6, <2>7
<1> QED
  BY <1>1, <1>2, <1>3 DEF ConfirmationInv, ConfirmedOncePerOverlap

\* No row is added but, perhaps, that of a challenge's creation.
LEMMA SameConfirmations ==
  ASSUME rows' = rows \/ \E c \in Challenges : rows' = rows \cup {<<c, 0>>}
  PROVE  \A c \in Challenges : Confirmations(c)' = Confirmations(c)
  BY DEF Confirmations

\* The thread that goes on does not enter confirmOtp.
LEMMA NotConfirming ==
  ASSUME RequestInv, NEW t \in Threads, NEW s \in ThreadState, Goes(t, s), s.pc # "confirm"
  PROVE  \A c \in Challenges : Confirming(c)' = Confirming(c) \ {t}
  BY OneGoes DEF Confirming

LEMMA ConfirmReadKeeps ==
  ASSUME RequestInv, ConfirmationInv, NEW t \in Threads, ConfirmRead(t)
  PROVE  ConfirmationInv'
<1>1. PICK d \in Challenges, pc \in {"confirm", "reject"} :
        challenge[d] = "PENDING" /\ Goes(t, [Idle EXCEPT !.pc = pc, !.saw = account, !.id = d])
  BY DEF ConfirmRead
<1> DEFINE s == [Idle EXCEPT !.pc = pc, !.saw = account, !.id = d]
<1>2. s \in ThreadState /\ s.id = d
  BY DEF RequestInv, RequestsTyped, Idle, ThreadState
<1>3. \A u \in Threads : thread'[u] = IF u = t THEN s ELSE thread[u]
  BY <1>1, <1>2, OneGoes
<1>4. /\ UNCHANGED challenge
      /\ \A c \in Challenges : Confirmations(c)' = Confirmations(c)
  BY SameConfirmations DEF ConfirmRead, outboxVars
<1> HIDE DEF s
<1>5. \A c \in Challenges : c # d => Confirming(c)' \subseteq Confirming(c)
  BY <1>2, <1>3 DEF Confirming
<1>6. Confirmations(d) = {} /\ Confirmations(d)' = {}
  BY <1>1, <1>4 DEF ConfirmationInv
<1>7. ASSUME NEW c \in Challenges
      PROVE  Cardinality(Confirmations(c)') + Cardinality(Confirming(c)') <= Cardinality(Threads)
  <2>1. /\ IsFiniteSet(Confirming(c)) /\ IsFiniteSet(Confirming(c)')
        /\ Cardinality(Confirming(c)') <= Cardinality(Threads)
    BY AccountsAssumption, FS_Subset DEF Confirming
  <2>2. /\ Cardinality(Confirming(c)) \in Nat /\ Cardinality(Confirming(c)') \in Nat
        /\ Cardinality(Threads) \in Nat
    BY AccountsAssumption, <2>1, FS_CardinalityType
  <2>3. CASE c = d
    <3>1. Cardinality(Confirmations(c)') = 0
      BY <1>6, <2>3, FS_EmptySet
    <3> QED
      BY <2>1, <2>2, <3>1
  <2>4. CASE c # d
    <3>1. Cardinality(Confirming(c)') <= Cardinality(Confirming(c))
      BY <1>5, <2>1, <2>4, FS_Subset
    <3>2. PICK k \in 0 .. Cardinality(Threads) : Confirmations(c) = 1 .. k
      BY DEF ConfirmationInv
    <3>3. Cardinality(Confirmations(c)) \in Nat
      BY <2>2, <3>2, FS_Interval, FS_CardinalityType
    <3>4. Cardinality(Confirmations(c)) + Cardinality(Confirming(c)) <= Cardinality(Threads)
      BY DEF ConfirmationInv, ConfirmedOncePerOverlap
    <3>5. Cardinality(Confirmations(c)') = Cardinality(Confirmations(c))
      BY <1>4
    <3> QED
      BY <2>2, <3>1, <3>3, <3>4, <3>5
  <2> QED
    BY <2>3, <2>4
<1> QED
  BY <1>4, <1>7 DEF ConfirmationInv, ConfirmedOncePerOverlap

LEMMA ConfirmCommitKeeps ==
  ASSUME OutboxTypeOK, RequestInv, ConfirmationInv, NEW t \in Threads, ConfirmCommit(t)
  PROVE  ConfirmationInv' /\ rows' \subseteq Events
<1>0. PICK d \in Challenges : d = thread[t].id
  BY DEF ConfirmCommit, RequestInv, ThreadsConsistent
<1>1. /\ thread[t].pc = "confirm" /\ thread[t].id = d
      /\ challenge' = [challenge EXCEPT ![d] = "VERIFIED"]
      /\ rows' = rows \cup {<<d, Cardinality(Confirmations(d)) + 1>>}
      /\ Goes(t, Idle)
  BY <1>0 DEF ConfirmCommit, Insert, NewEvent
<1>2. \A c \in Challenges : Confirming(c)' = Confirming(c) \ {t}
  BY <1>1, IdleTyped, NotConfirming
<1>3. t \in Confirming(d)
  BY <1>1 DEF Confirming
<1>4. PICK k \in 0 .. Cardinality(Threads) : Confirmations(d) = 1 .. k
  BY <1>1 DEF ConfirmationInv
<1>5. Cardinality(Threads) \in Nat /\ k \in Nat /\ Cardinality(1 .. k) = k
      /\ Cardinality(1 .. (k + 1)) = k + 1
  <2>1. Cardinality(Threads) \in Nat
    BY AccountsAssumption, FS_CardinalityType
  <2>2. k \in Nat
    BY <2>1
  <2> QED
    BY <2>1, <2>2, FS_Interval
<1>6. /\ IsFiniteSet(Confirming(d))
      /\ Cardinality(Confirming(d)) \in Nat /\ Cardinality(Confirming(d)) >= 1
      /\ Cardinality(Confirming(d)') = Cardinality(Confirming(d)) - 1
  <2>1. IsFiniteSet(Confirming(d))
    BY AccountsAssumption, FS_Subset DEF Confirming
  <2>2. Cardinality(Confirming(d) \ {t}) = Cardinality(Confirming(d)) - 1
    BY <1>3, <2>1, FS_RemoveElement
  <2>3. IsFiniteSet(Confirming(d) \ {t})
    BY <2>1, FS_Subset
  <2>4. Cardinality(Confirming(d)) \in Nat /\ Cardinality(Confirming(d) \ {t}) \in Nat
    BY <2>1, <2>3, FS_CardinalityType
  <2>5. Confirming(d)' = Confirming(d) \ {t}
    BY <1>2
  <2>6. Cardinality(Confirming(d)') = Cardinality(Confirming(d)) - 1
    BY <2>2, <2>5
  <2>7. Cardinality(Confirming(d)) >= 1
    BY <2>2, <2>4
  <2> QED
    BY <2>1, <2>4, <2>6, <2>7
<1>7. k + Cardinality(Confirming(d)) <= Cardinality(Threads)
  BY <1>1, <1>4, <1>5 DEF ConfirmationInv, ConfirmedOncePerOverlap
<1>8. k + 1 \in 0 .. Cardinality(Threads)
  BY <1>5, <1>6, <1>7
<1>9. rows' = rows \cup {<<d, k + 1>>}
  BY <1>1, <1>4, <1>5
<1>10. Confirmations(d)' = 1 .. (k + 1)
  <2>2. Confirmations(d)' \subseteq Confirmations(d) \cup {k + 1}
    BY <1>9 DEF Confirmations
  <2>3. Confirmations(d) \subseteq Confirmations(d)'
    BY <1>9 DEF Confirmations
  <2>4. k + 1 \in Confirmations(d)'
    <3>1. <<d, k + 1>> \in rows' /\ <<d, k + 1>>[1] = d /\ <<d, k + 1>>[2] = k + 1 /\ k + 1 # 0
      BY <1>5, <1>9
    <3> QED
      BY <3>1 DEF Confirmations
  <2>5. Confirmations(d)' = Confirmations(d) \cup {k + 1}
    BY <2>2, <2>3, <2>4
  <2> QED
    BY <1>4, <1>5, <2>5
<1>11. \A c \in Challenges : c # d => Confirmations(c)' = Confirmations(c)
  BY <1>9 DEF Confirmations
<1>12. rows' \subseteq Events
  BY <1>1, <1>8, <1>9, AccountsAssumption DEF OutboxTypeOK
<1>13. \A c \in Challenges : challenge'[c] = IF c = d THEN "VERIFIED" ELSE challenge[c]
  BY <1>1 DEF RequestInv, RequestsTyped
<1>14. ASSUME NEW c \in Challenges
       PROVE  Cardinality(Confirmations(c)') + Cardinality(Confirming(c)') <= Cardinality(Threads)
  <2>1. CASE c = d
    BY <1>5, <1>6, <1>7, <1>10, <2>1
  <2>2. CASE c # d
    <3>1. IsFiniteSet(Confirming(c)) /\ IsFiniteSet(Confirming(c)')
      BY AccountsAssumption, FS_Subset DEF Confirming
    <3>2. Cardinality(Confirming(c)') <= Cardinality(Confirming(c))
      BY <1>2, <3>1, FS_Subset
    <3>3. PICK j \in 0 .. Cardinality(Threads) : Confirmations(c) = 1 .. j
      BY DEF ConfirmationInv
    <3>4. /\ Cardinality(Confirming(c)) \in Nat /\ Cardinality(Confirming(c)') \in Nat
          /\ Cardinality(Confirmations(c)) \in Nat
      BY <1>5, <3>1, <3>3, FS_Interval, FS_CardinalityType
    <3>5. Cardinality(Confirmations(c)) + Cardinality(Confirming(c)) <= Cardinality(Threads)
      BY DEF ConfirmationInv, ConfirmedOncePerOverlap
    <3>6. Cardinality(Confirmations(c)') = Cardinality(Confirmations(c))
      BY <1>11, <2>2
    <3> QED
      BY <1>5, <3>2, <3>4, <3>5, <3>6
  <2> QED
    BY <2>1, <2>2
<1>15. \A c \in Challenges : \E j \in 0 .. Cardinality(Threads) : Confirmations(c)' = 1 .. j
  BY <1>8, <1>10, <1>11 DEF ConfirmationInv
<1>16. \A c \in Challenges :
         challenge'[c] \in {"NONE", "PENDING", "LAPSED"} => Confirmations(c)' = {}
  BY <1>11, <1>13 DEF ConfirmationInv
<1> QED
  BY <1>12, <1>14, <1>15, <1>16 DEF ConfirmationInv, ConfirmedOncePerOverlap

\* A step of one thread that is not confirmCommit and inserts no confirmation.
LEMMA OtherThreadStep ==
  ASSUME RequestInv, ConfirmationInv, NEW t \in Threads, NEW s \in ThreadState, Goes(t, s),
         s.pc # "confirm",
         rows' = rows \/ \E c \in Challenges : rows' = rows \cup {<<c, 0>>},
         \A c \in Challenges :
           challenge'[c] \in {"NONE", "PENDING", "LAPSED"} =>
             challenge[c] \in {"NONE", "PENDING", "LAPSED"}
  PROVE  ConfirmationInv'
  BY NotConfirming, SameConfirmations, ConfirmationsKept

LEMMA RequestConfirms ==
  ASSUME OutboxTypeOK, RequestInv, ConfirmationInv, RequestStep
  PROVE  ConfirmationInv'
<1>1. ASSUME NEW t \in Threads, RegisterRead(t)
      PROVE  ConfirmationInv'
  <2> DEFINE s == [Idle EXCEPT !.pc = "save", !.saw = account]
  <2>1. s \in ThreadState /\ s.pc # "confirm" /\ Goes(t, s)
    BY <1>1 DEF RegisterRead, RequestInv, RequestsTyped, Idle, ThreadState
  <2> QED
    BY <1>1, <2>1, OtherThreadStep DEF RegisterRead, outboxVars
<1>2. ASSUME NEW t \in Threads, SaveExisting(t)
      PROVE  ConfirmationInv'
  <2> DEFINE s == [Idle EXCEPT !.pc = "otp"]
  <2>1. s \in ThreadState /\ s.pc # "confirm" /\ Goes(t, s)
    BY <1>2 DEF SaveExisting, Idle, ThreadState, Account
  <2> QED
    BY <1>2, <2>1, OtherThreadStep DEF SaveExisting, outboxVars
<1>3. ASSUME NEW t \in Threads, SaveNew(t)
      PROVE  ConfirmationInv'
  <2>1. PICK s \in {[Idle EXCEPT !.pc = "otp", !.new = TRUE], Idle} : Goes(t, s)
    BY <1>3 DEF SaveNew
  <2>2. /\ [Idle EXCEPT !.pc = "otp", !.new = TRUE] \in ThreadState
        /\ [Idle EXCEPT !.pc = "otp", !.new = TRUE].pc # "confirm"
    BY DEF Idle, ThreadState, Account
  <2>3. s \in ThreadState /\ s.pc # "confirm"
    BY <2>1, <2>2, IdleTyped
  <2> QED
    BY <1>3, <2>1, <2>3, OtherThreadStep DEF SaveNew, outboxVars
<1>4. ASSUME NEW t \in Threads, CreateOtpRead(t)
      PROVE  ConfirmationInv'
  <2> DEFINE s == [Idle EXCEPT !.pc = "expire", !.id = ToExpire, !.new = thread[t].new]
  <2>1. ToExpire \in Challenges \cup {0} /\ thread[t].new \in BOOLEAN
    BY DEF ToExpire, Top, RequestInv, RequestsTyped, ThreadState
  <2>2. s \in ThreadState /\ s.pc # "confirm" /\ Goes(t, s)
    BY <1>4, <2>1 DEF CreateOtpRead, Idle, ThreadState, Account
  <2> QED
    BY <1>4, <2>2, OtherThreadStep DEF CreateOtpRead, outboxVars
<1>5. ASSUME NEW t \in Threads, CreateOtpCommit(t)
      PROVE  ConfirmationInv'
  <2> DEFINE s == IF thread[t].new THEN [Idle EXCEPT !.pc = "publish", !.new = TRUE] ELSE Idle
  <2>1. s \in ThreadState /\ s.pc # "confirm" /\ Goes(t, s)
    BY <1>5 DEF CreateOtpCommit, Idle, ThreadState, Account
  <2>2. \A c \in Challenges :
          challenge'[c] \in {"NONE", "PENDING", "LAPSED"} =>
            challenge[c] \in {"NONE", "PENDING", "LAPSED"}
    BY <1>5 DEF CreateOtpCommit, Unused
  <2> QED
    BY <1>5, <2>1, <2>2, OtherThreadStep DEF CreateOtpCommit, outboxVars
<1>6. ASSUME NEW t \in Threads, PublishCreated(t) \/ WrongCode(t) \/ ResetCommit(t) \/ Kill(t)
      PROVE  ConfirmationInv'
  <2>1. Goes(t, Idle) /\ UNCHANGED <<rows, challenge>>
    BY <1>6 DEF PublishCreated, WrongCode, RolledBack, ResetCommit, Kill, outboxVars
  <2> QED
    BY <2>1, IdleTyped, OtherThreadStep
<1>7. ASSUME NEW t \in Threads, ResendRead(t)
      PROVE  ConfirmationInv'
  <2> DEFINE s == [Idle EXCEPT !.pc = "resend"]
  <2>1. s \in ThreadState /\ s.pc # "confirm" /\ Goes(t, s)
    BY <1>7 DEF ResendRead, Idle, ThreadState, Account
  <2> QED
    BY <1>7, <2>1, OtherThreadStep DEF ResendRead, outboxVars
<1>8. ASSUME NEW t \in Threads, ResendCommit(t)
      PROVE  ConfirmationInv'
  <2>1. Goes(t, Idle) /\ (rows' = rows \/ \E c \in Challenges : rows' = rows \cup {<<c, 0>>})
    BY <1>8 DEF ResendCommit, Insert, Unused, outboxVars
  <2>2. \A c \in Challenges :
          challenge'[c] \in {"NONE", "PENDING", "LAPSED"} =>
            challenge[c] \in {"NONE", "PENDING", "LAPSED"}
    BY <1>8 DEF ResendCommit, Unused
  <2> QED
    BY <2>1, <2>2, IdleTyped, OtherThreadStep
<1>9. ASSUME NEW t \in Threads, ResetRead(t)
      PROVE  ConfirmationInv'
  <2> DEFINE s == [Idle EXCEPT !.pc = "reset", !.saw = account]
  <2>1. s \in ThreadState /\ s.pc # "confirm" /\ Goes(t, s)
    BY <1>9 DEF ResetRead, RequestInv, RequestsTyped, Idle, ThreadState
  <2> QED
    BY <1>9, <2>1, OtherThreadStep DEF ResetRead, outboxVars
<1>10. ASSUME VerifyUser \/ \E c \in Challenges : Lapse(c)
       PROVE  ConfirmationInv'
  <2>1. UNCHANGED <<rows, thread>>
    BY <1>10 DEF VerifyUser, Lapse, outboxVars
  <2>2. \A c \in Challenges : Confirming(c)' = Confirming(c)
    BY <2>1 DEF Confirming
  <2>3. \A c \in Challenges :
          challenge'[c] \in {"NONE", "PENDING", "LAPSED"} =>
            challenge[c] \in {"NONE", "PENDING", "LAPSED"}
    BY <1>10 DEF VerifyUser, Lapse, RequestInv, RequestsTyped
  <2> QED
    BY <2>1, <2>2, <2>3, SameConfirmations, ConfirmationsKept
<1> QED
  BY <1>1, <1>2, <1>3, <1>4, <1>5, <1>6, <1>7, <1>8, <1>9, <1>10, ConfirmReadKeeps,
     ConfirmCommitKeeps DEF RequestStep

\* A publisher adds no row and no request to confirm; nor does a stutter.
LEMMA PublisherConfirms ==
  ASSUME ConfirmationInv, UNCHANGED requestVars, UNCHANGED rows
  PROVE  ConfirmationInv'
<1>1. UNCHANGED <<challenge, thread>>
  BY DEF requestVars
<1>2. \A c \in Challenges : Confirming(c)' = Confirming(c)
  BY <1>1 DEF Confirming
<1> QED
  BY <1>1, <1>2, SameConfirmations, ConfirmationsKept

\* What the requests add to the outbox are events.
LEMMA RequestKeepsOutbox ==
  ASSUME OutboxInv, RequestInv, ConfirmationInv, RequestStep
  PROVE  OutboxInv'
<1>1. ASSUME NEW t \in Threads, ConfirmCommit(t)
      PROVE  OutboxInv'
  <2>1. rows' \subseteq Events
    BY <1>1, ConfirmCommitKeeps DEF OutboxInv
  <2>2. Insert(NewEvent(t, thread[t].id)) /\ NewEvent(t, thread[t].id) \subseteq rows'
    BY <1>1 DEF ConfirmCommit, Insert
  <2> QED
    BY <2>1, <2>2, InsertPreserves
<1>2. ASSUME NEW t \in Threads, ResendCommit(t)
      PROVE  OutboxInv'
  <2>1. CASE \E c \in Unused : Insert({<<c, 0>>})
    <3>1. PICK c \in Challenges : Insert({<<c, 0>>})
      BY <2>1 DEF Unused
    <3>2. {<<c, 0>>} \in SUBSET Events
      BY AccountsAssumption, FS_CardinalityType
    <3> QED
      BY <3>1, <3>2, InsertPreserves
  <2>2. CASE UNCHANGED outboxVars
    BY <2>2, OutboxUnchanged
  <2> QED
    BY <1>2, <2>1, <2>2 DEF ResendCommit
<1>3. CASE UNCHANGED outboxVars
  BY <1>3, OutboxUnchanged
<1> QED
  BY <1>1, <1>2, <1>3
  DEF RequestStep, RegisterRead, CreateOtpRead, ConfirmRead, ResendRead, ResetRead, SaveExisting,
      SaveNew, CreateOtpCommit, PublishCreated, WrongCode, ResetCommit, Kill, VerifyUser, Lapse

--------------------------------------------------------------------------------
(* The theorems.                                                            *)

LEMMA InitInv == ASSUME AccountsInit PROVE AInv
<1>1. OutboxInv
  BY AccountsAssumption, OutboxAssumption
  DEF AccountsInit, OutboxInit, OutboxInv, OutboxTypeOK, ExclusiveRows, SentOncePerFailure,
      Acknowledged
<1>2. RequestInv
  BY AccountsAssumption
  DEF AccountsInit, RequestInv, RequestsTyped, ThreadsConsistent, ChallengesOwned,
      CreatedAccounting, Idle, ThreadState, Account, Status, Created
<1>3. \A c \in Challenges : Confirmations(c) = {} /\ Confirming(c) = {}
  BY DEF AccountsInit, OutboxInit, Confirmations, Confirming, Idle
<1>4. Cardinality(Threads) \in Nat
  BY AccountsAssumption, FS_CardinalityType
<1>5. \A c \in Challenges : Cardinality(Confirmations(c)) = 0 /\ Cardinality(Confirming(c)) = 0
  BY <1>3, FS_EmptySet
<1>6. ConfirmedOncePerOverlap
  BY <1>4, <1>5 DEF ConfirmedOncePerOverlap
<1>7. 0 \in 0 .. Cardinality(Threads) /\ 1 .. 0 = {}
  BY <1>4
<1> QED
  BY <1>1, <1>2, <1>3, <1>6, <1>7 DEF AInv, ConfirmationInv

LEMMA StepInv == ASSUME AInv, [AccountsNext]_accountsVars PROVE AInv'
<1>1. CASE RequestStep
  BY <1>1, RequestPreserves, RequestConfirms, RequestKeepsOutbox DEF AInv, AccountsNext, OutboxInv
<1>2. CASE PublisherStep /\ UNCHANGED requestVars
  <2>1. UNCHANGED rows
    BY <1>2 DEF PublisherStep, Fetch, SendOk, SendFailed, CommitMarks, BreakOff
  <2> QED
    BY <1>2, <2>1, PublisherPreserves, PublisherConfirms, RequestUnchanged DEF AInv
<1>3. CASE UNCHANGED accountsVars
  BY <1>3, OutboxUnchanged, PublisherConfirms, RequestUnchanged
  DEF AInv, accountsVars, outboxVars, requestVars
<1> QED
  BY <1>1, <1>2, <1>3 DEF AccountsNext

\* The invariant of the outbox, the registrations and the confirmations is
\* inductive: each step of a request or a publisher keeps it.
THEOREM AccountsInductive == AccountsSpec => []AInv
  BY InitInv, StepInv, PTL DEF AccountsSpec

\* Every variable has its type, and no event is made but those of the constants.
THEOREM AccountsTypeCorrect == AccountsSpec => []AccountsTypeOK
<1>1. AInv => AccountsTypeOK
  BY DEF AInv, OutboxInv, RequestInv, RequestsTyped, AccountsTypeOK
<1> QED
  BY <1>1, AccountsInductive, PTL

\* No two instances of the service ever have the same row of the outbox in
\* hand, and none has one that is published, however many instances run.
THEOREM RowsExclusive == AccountsSpec => []ExclusiveRows
<1>1. AInv => ExclusiveRows
  BY DEF AInv, OutboxInv
<1> QED
  BY <1>1, AccountsInductive, PTL

\* An event of the outbox is sent again only after a failed send or a broken
\* transaction, and is marked published only if it was sent.
THEOREM SentOnce == AccountsSpec => []SentOncePerFailure
<1>1. AInv => SentOncePerFailure
  BY DEF AInv, OutboxInv
<1> QED
  BY <1>1, AccountsInductive, PTL

\* A one-time password is announced as confirmed at most once for each request
\* that ran when it was confirmed.
THEOREM ConfirmedOnce == AccountsSpec => []ConfirmedOncePerOverlap
<1>1. AInv => ConfirmedOncePerOverlap
  BY DEF AInv, ConfirmationInv
<1> QED
  BY <1>1, AccountsInductive, PTL

\* Exactly one registration is to announce an account, from its insertion until
\* user.created is sent or lost.
THEOREM CreatedAccounted == AccountsSpec => []CreatedAccounting
<1>1. AInv => CreatedAccounting
  BY DEF AInv, RequestInv
<1> QED
  BY <1>1, AccountsInductive, PTL

LEMMA VerificationStep ==
  ASSUME AInv, [AccountsNext]_accountsVars, account = "verified", account' # "verified"
  PROVE  \E t \in Threads : /\ thread[t].saw = "unverified"
                            /\ thread[t].pc \in {"save", "reset"}
                            /\ thread'[t] # thread[t]
<1>1. PICK t \in Threads : SaveExisting(t) \/ SaveNew(t) \/ ResetCommit(t) \/ ConfirmCommit(t)
  BY DEF AccountsNext, RequestStep, RegisterRead, CreateOtpRead, ConfirmRead, ResendRead, ResetRead,
         CreateOtpCommit, PublishCreated, WrongCode, ResendCommit, Kill, VerifyUser, Lapse,
         requestVars, accountsVars
<1>2. thread[t] \in ThreadState /\ \A u \in Threads : thread[u] \in ThreadState
  BY DEF AInv, RequestInv, RequestsTyped
<1>3. CASE SaveExisting(t)
  <2>1. thread[t].pc = "save" /\ thread[t].saw = "unverified" /\ thread'[t].pc = "otp"
    BY <1>3 DEF SaveExisting, Goes, Idle, AInv, RequestInv, RequestsTyped
  <2> QED
    BY <2>1
<1>4. CASE SaveNew(t)
  BY <1>4 DEF SaveNew, Inserted
<1>5. CASE ResetCommit(t)
  <2>1. /\ thread[t].pc = "reset" /\ thread[t].saw # "absent" /\ account' = thread[t].saw
        /\ thread'[t].pc = "idle"
    BY <1>5 DEF ResetCommit, WrittenBack, Goes, Idle, AInv, RequestInv, RequestsTyped,
                ThreadsConsistent
  <2> QED
    BY <1>2, <2>1 DEF ThreadState, Account
<1>6. CASE ConfirmCommit(t)
  BY <1>6 DEF ConfirmCommit
<1> QED
  BY <1>1, <1>3, <1>4, <1>5, <1>6

\* Only a request that read the account before it was verified can make a
\* verified account unverified.
THEOREM VerificationLoss == AccountsSpec => VerificationLostToOverlap
<1>1. AInv /\ [AccountsNext]_accountsVars =>
        [account = "verified" /\ account' # "verified" =>
           \E t \in Threads :
             thread[t].saw = "unverified" /\ thread[t].pc \in {"save", "reset"} /\ thread'[t] # thread[t]
        ]_accountsVars
  BY VerificationStep
<1> QED
  BY <1>1, AccountsInductive, PTL DEF AccountsSpec, VerificationLostToOverlap

--------------------------------------------------------------------------------
(* What the outbox never takes back.                                        *)

\* What is published stays published and is never sent again.
PublishedForGood == \A e \in marked : e \in marked' /\ sends'[e] = sends[e]

LEMMA PublishedStep ==
  ASSUME OutboxInv, PublisherStep
  PROVE  PublishedForGood
<1>0. /\ marked \subseteq Events /\ sends \in [Events -> Nat]
      /\ \A p \in Publishers : todo[p] \cap marked = {}
  BY DEF OutboxInv, OutboxTypeOK, ExclusiveRows
<1>1. ASSUME NEW p \in Publishers, NEW e \in Events, SendOk(p, e) \/ SendFailed(p, e)
      PROVE  PublishedForGood
  <2>1. marked' = marked /\ e \notin marked
    BY <1>0, <1>1 DEF SendOk, SendFailed
  <2>2. \A f \in Events : f # e => sends'[f] = sends[f]
    BY <1>0, <1>1 DEF SendOk, SendFailed
  <2> QED
    BY <1>0, <2>1, <2>2 DEF PublishedForGood
<1>2. CASE \E p \in Publishers : Fetch(p) \/ CommitMarks(p) \/ BreakOff(p)
  BY <1>2 DEF Fetch, CommitMarks, Marks, BreakOff, PublishedForGood
<1> QED
  BY <1>1, <1>2 DEF PublisherStep

LEMMA InsertedStep ==
  ASSUME RequestStep
  PROVE  rows \subseteq rows' /\ PublishedForGood
<1>1. (\E new : Insert(new)) \/ UNCHANGED outboxVars
  BY DEF RequestStep, RegisterRead, CreateOtpRead, ConfirmRead, ResendRead, ResetRead, SaveExisting,
         SaveNew, CreateOtpCommit, PublishCreated, WrongCode, ResetCommit, Kill, VerifyUser, Lapse,
         ConfirmCommit, ResendCommit
<1> QED
  BY <1>1 DEF Insert, outboxVars, PublishedForGood

\* No event vanishes from the outbox, and one that is marked published stays so
\* and is sent by nobody any more, whatever fails and however many publish.
THEOREM NothingSentAfterItsMark ==
  AccountsSpec => [][rows \subseteq rows' /\ PublishedForGood]_accountsVars
<1>1. AInv /\ [AccountsNext]_accountsVars => [rows \subseteq rows' /\ PublishedForGood]_accountsVars
  <2> SUFFICES ASSUME AInv, AccountsNext
               PROVE  rows \subseteq rows' /\ PublishedForGood
    OBVIOUS
  <2>1. CASE RequestStep
    BY <2>1, InsertedStep
  <2>2. CASE PublisherStep
    <3>1. rows' = rows
      BY <2>2 DEF PublisherStep, Fetch, SendOk, SendFailed, CommitMarks, BreakOff
    <3> QED
      BY <2>2, <3>1, PublishedStep DEF AInv
  <2> QED
    BY <2>1, <2>2 DEF AccountsNext
<1> QED
  BY <1>1, AccountsInductive, PTL DEF AccountsSpec

\* A challenge that is confirmed has its event in the outbox.
Announced == \A c \in Challenges : challenge[c] = "VERIFIED" => Confirmations(c) # {}

LEMMA AnnouncedStep ==
  ASSUME AInv, Announced, [AccountsNext]_accountsVars
  PROVE  Announced'
<1> SUFFICES ASSUME NEW c \in Challenges, challenge'[c] = "VERIFIED"
             PROVE  Confirmations(c)' # {}
  BY DEF Announced
<1>1. rows \subseteq rows'
  BY InsertedStep DEF AccountsNext, accountsVars, PublisherStep, Fetch, SendOk, SendFailed,
                      CommitMarks, BreakOff
<1>2. CASE challenge[c] = "VERIFIED"
  BY <1>1, <1>2 DEF Announced, Confirmations
<1>3. CASE challenge[c] # "VERIFIED"
  <2>0. challenge \in [Challenges -> Status]
    BY DEF AInv, RequestInv, RequestsTyped
  <2>1. PICK t \in Threads : ConfirmCommit(t)
    BY <1>3, <2>0
    DEF AccountsNext, accountsVars, requestVars, RequestStep, RegisterRead, CreateOtpRead, ConfirmRead,
        ResendRead, ResetRead, SaveExisting, SaveNew, CreateOtpCommit, PublishCreated, WrongCode,
        RolledBack, ResendCommit, ResetCommit, Kill, VerifyUser, Lapse
  <2>2. c = thread[t].id
    BY <1>3, <2>0, <2>1 DEF ConfirmCommit
  <2> DEFINE n == Cardinality(Confirmations(c)) + 1
  <2>3. PICK k \in 0 .. Cardinality(Threads) : Confirmations(c) = 1 .. k
    BY DEF AInv, ConfirmationInv
  <2>4. Cardinality(Confirmations(c)) \in Nat
    <3>1. Cardinality(Threads) \in Nat
      BY AccountsAssumption, FS_CardinalityType
    <3>2. IsFiniteSet(1 .. k)
      BY <3>1, FS_Interval
    <3> QED
      BY <2>3, <3>2, FS_CardinalityType
  <2>5. n # 0
    BY <2>4
  <2>6. <<c, n>> \in rows'
    BY <2>1, <2>2 DEF ConfirmCommit, Insert, NewEvent
  <2>7. n \in Confirmations(c)'
    BY <2>5, <2>6 DEF Confirmations
  <2> QED
    BY <2>7
<1> QED
  BY <1>2, <1>3

\* No challenge is confirmed without its event, whatever is killed between the
\* requests' commits: what ConfirmationArrives says for every state, before any
\* publisher has to come.
THEOREM ConfirmedIsAnnounced == AccountsSpec => []Announced
<1>1. AccountsInit => Announced
  BY DEF AccountsInit, Announced
<1>2. AInv /\ Announced /\ [AccountsNext]_accountsVars => Announced'
  BY AnnouncedStep
<1> QED
  BY <1>1, <1>2, AccountsInductive, PTL DEF AccountsSpec

--------------------------------------------------------------------------------
(* The verification, when requests take turns. Nothing in the code makes    *)
(* them do so: the theorem says what would be enough.                       *)

\* The request holds a copy of the account, read before it was verified, and is
\* going to write it back.
HoldsUnverified(t) == thread[t].pc \in {"save", "reset"} /\ thread[t].saw = "unverified"

\* Nobody confirms a challenge while another request holds such a copy, ...
TakeTurns == \A s, t \in Threads : ~(thread[s].pc = "confirm" /\ HoldsUnverified(t))

\* ... nor is the account verified otherwise.
VerifiesInTurn == VerifyUser => \A t \in Threads : ~HoldsUnverified(t)

CopiesCurrent ==
  /\ account = "verified" => \A t \in Threads : ~HoldsUnverified(t)
  /\ \A t \in Threads : thread[t].saw = "verified" => account = "verified"

\* What a thread knows of the account it has just read, or knew before.
LEMMA CopyStep ==
  ASSUME AInv, [AccountsNext]_accountsVars, NEW t \in Threads
  PROVE  thread'[t] = thread[t] \/ thread'[t].saw \in {"absent", account}
<1>0. thread \in [Threads -> ThreadState]
  BY DEF AInv, RequestInv, RequestsTyped
<1>1. ASSUME NEW s \in Threads, NEW r, Goes(s, r), r.saw \in {"absent", account}
      PROVE  thread'[t] = thread[t] \/ thread'[t].saw \in {"absent", account}
  BY <1>0, <1>1 DEF Goes
<1>2. ASSUME NEW s \in Threads, SaveNew(s)
      PROVE  \E r \in {Idle, [Idle EXCEPT !.pc = "otp", !.new = TRUE]} : Goes(s, r)
  BY <1>2 DEF SaveNew
<1>3. ASSUME NEW s \in Threads, CreateOtpCommit(s)
      PROVE  \E r \in {Idle, [Idle EXCEPT !.pc = "publish", !.new = TRUE]} : Goes(s, r)
  BY <1>3 DEF CreateOtpCommit
<1>4. /\ Idle.saw = "absent"
      /\ [Idle EXCEPT !.pc = "otp", !.new = TRUE].saw = "absent"
      /\ [Idle EXCEPT !.pc = "otp"].saw = "absent"
      /\ [Idle EXCEPT !.pc = "publish", !.new = TRUE].saw = "absent"
      /\ [Idle EXCEPT !.pc = "resend"].saw = "absent"
      /\ [Idle EXCEPT !.pc = "save", !.saw = account].saw = account
      /\ [Idle EXCEPT !.pc = "reset", !.saw = account].saw = account
      /\ \A c, pc : [Idle EXCEPT !.pc = pc, !.saw = account, !.id = c].saw = account
  BY DEF Idle
<1>5. ASSUME NEW s \in Threads, SaveNew(s) \/ CreateOtpCommit(s)
      PROVE  \E r : Goes(s, r) /\ r.saw \in {"absent", account}
  BY <1>2, <1>3, <1>4, <1>5
<1>6. ASSUME NEW s \in Threads,
             \/ RegisterRead(s) \/ CreateOtpRead(s) \/ ConfirmRead(s) \/ ResendRead(s)
             \/ ResetRead(s) \/ SaveExisting(s)
      PROVE  \E r : Goes(s, r) /\ r.saw \in {"absent", account}
  <2>1. CASE ConfirmRead(s)
    <3>1. PICK c \in Challenges, pc \in {"confirm", "reject"} :
            Goes(s, [Idle EXCEPT !.pc = pc, !.saw = account, !.id = c])
      BY <2>1 DEF ConfirmRead
    <3> QED
      BY <1>4, <3>1
  <2>2. CASE CreateOtpRead(s)
    <3> DEFINE r == [Idle EXCEPT !.pc = "expire", !.id = ToExpire, !.new = thread[s].new]
    <3>1. Goes(s, r)
      BY <2>2 DEF CreateOtpRead
    <3>2. r.saw = "absent"
      BY DEF Idle
    <3> QED
      BY <3>1, <3>2
  <2>3. CASE RegisterRead(s)
    BY <1>4, <2>3 DEF RegisterRead
  <2>4. CASE ResendRead(s)
    BY <1>4, <2>4 DEF ResendRead
  <2>5. CASE ResetRead(s)
    BY <1>4, <2>5 DEF ResetRead
  <2>6. CASE SaveExisting(s)
    BY <1>4, <2>6 DEF SaveExisting
  <2> QED
    BY <1>6, <2>1, <2>2, <2>3, <2>4, <2>5, <2>6
<1>7. ASSUME NEW s \in Threads,
             \/ PublishCreated(s) \/ ConfirmCommit(s) \/ WrongCode(s) \/ ResendCommit(s)
             \/ ResetCommit(s) \/ Kill(s)
      PROVE  \E r : Goes(s, r) /\ r.saw \in {"absent", account}
  <2>1. Goes(s, Idle)
    BY <1>7 DEF PublishCreated, ConfirmCommit, WrongCode, ResendCommit, ResetCommit, Kill
  <2> QED
    BY <1>4, <2>1
<1>8. CASE thread' = thread
  BY <1>8
<1>9. thread' = thread \/ \E s \in Threads : \E r : Goes(s, r) /\ r.saw \in {"absent", account}
  BY <1>5, <1>6, <1>7 DEF AccountsNext, RequestStep, VerifyUser, Lapse, requestVars, accountsVars
<1> QED
  BY <1>1, <1>8, <1>9

LEMMA CopiesStep ==
  ASSUME AInv, TakeTurns, CopiesCurrent, [AccountsNext]_accountsVars, [VerifiesInTurn]_accountsVars
  PROVE  CopiesCurrent' /\ (account = "verified" => account' = "verified")
<1>0. thread \in [Threads -> ThreadState]
  BY DEF AInv, RequestInv, RequestsTyped
<1>1. account = "verified" => account' = "verified"
  BY VerificationStep DEF CopiesCurrent, HoldsUnverified
<1>2. ASSUME NEW t \in Threads, thread'[t].saw = "verified"
      PROVE  account' = "verified"
  BY <1>1, <1>2, CopyStep DEF CopiesCurrent
<1>3. ASSUME NEW t \in Threads, account' = "verified", HoldsUnverified(t)'
      PROVE  FALSE
  <2>1. CASE account = "verified"
    BY <1>3, <2>1, CopyStep DEF CopiesCurrent, HoldsUnverified
  <2>2. CASE account # "verified"
    <3>1. VerifyUser \/ \E s \in Threads : ConfirmCommit(s)
      <4>1. ASSUME NEW s \in Threads, SaveExisting(s) \/ SaveNew(s)
            PROVE  account' # "verified"
        BY <2>2, <4>1 DEF SaveExisting, SaveNew
      <4>2. ASSUME NEW s \in Threads, ResetCommit(s)
            PROVE  account' # "verified"
        BY <2>2, <4>2 DEF ResetCommit, WrittenBack, CopiesCurrent
      <4> QED
        BY <1>3, <2>2, <4>1, <4>2
        DEF AccountsNext, RequestStep, RegisterRead, CreateOtpRead, ConfirmRead, ResendRead, ResetRead,
            CreateOtpCommit, PublishCreated, WrongCode, ResendCommit, Kill, Lapse, requestVars,
            accountsVars
    <3>2. CASE VerifyUser
      <4>1. thread' = thread /\ accountsVars' # accountsVars
        BY <1>3, <2>2, <3>2 DEF VerifyUser, accountsVars
      <4> QED
        BY <1>3, <3>2, <4>1 DEF VerifiesInTurn, HoldsUnverified
    <3>3. CASE \E s \in Threads : ConfirmCommit(s)
      <4>1. PICK s \in Threads : ConfirmCommit(s)
        BY <3>3
      <4>2. thread[s].pc = "confirm" /\ thread'[s] = Idle /\ \A q \in Threads : q # s => thread'[q] = thread[q]
        BY <1>0, <4>1 DEF ConfirmCommit, Goes
      <4>3. t # s
        BY <1>3, <4>2 DEF HoldsUnverified, Idle
      <4> QED
        BY <1>3, <4>2, <4>3 DEF TakeTurns, HoldsUnverified
    <3> QED
      BY <3>1, <3>2, <3>3
  <2> QED
    BY <2>1, <2>2
<1> QED
  BY <1>1, <1>2, <1>3 DEF CopiesCurrent

\* If no account is verified while another request still holds its row as it was
\* before, an account that is verified stays so: the verification is lost to
\* such overlaps only.
THEOREM VerifiedForGood ==
  AccountsSpec /\ []TakeTurns /\ [][VerifiesInTurn]_accountsVars =>
    [][account = "verified" => account' = "verified"]_accountsVars
<1>1. AccountsInit => CopiesCurrent
  BY DEF AccountsInit, CopiesCurrent, Idle
<1>2. AInv /\ TakeTurns /\ CopiesCurrent /\ [AccountsNext]_accountsVars /\ [VerifiesInTurn]_accountsVars
        => CopiesCurrent' /\ [account = "verified" => account' = "verified"]_accountsVars
  BY CopiesStep
<1> QED
  BY <1>1, <1>2, AccountsInductive, PTL DEF AccountsSpec

--------------------------------------------------------------------------------
(* The outbox by itself.                                                    *)

\* Whatever inserts events and whenever: no row is in two hands or in one's hand
\* after its mark, and a second sending needs a failure.
THEOREM OutboxCorrect == OutboxSpec => [](OutboxTypeOK /\ ExclusiveRows /\ SentOncePerFailure)
<1>1. OutboxInit => OutboxInv
  BY OutboxAssumption
  DEF OutboxInit, OutboxInv, OutboxTypeOK, ExclusiveRows, SentOncePerFailure, Acknowledged
<1>2. OutboxInv /\ [OutboxNext]_outboxVars => OutboxInv'
  BY InsertPreserves, OutboxUnchanged, PublisherPreserves DEF OutboxNext
<1>3. OutboxInv => OutboxTypeOK /\ ExclusiveRows /\ SentOncePerFailure
  BY DEF OutboxInv
<1> QED
  BY <1>1, <1>2, <1>3, PTL DEF OutboxSpec

LEMMA InsertsOnly ==
  ASSUME AInv, AInv', RequestStep
  PROVE  [OutboxNext]_outboxVars
<1>1. rows' \subseteq Events
  BY DEF AInv, OutboxInv, OutboxTypeOK
<1>2. (\E new : Insert(new)) \/ UNCHANGED outboxVars
  BY DEF RequestStep, RegisterRead, CreateOtpRead, ConfirmRead, ResendRead, ResetRead, SaveExisting,
         SaveNew, CreateOtpCommit, PublishCreated, WrongCode, ResetCommit, Kill, VerifyUser, Lapse,
         ConfirmCommit, ResendCommit
<1>3. ASSUME NEW new, Insert(new)
      PROVE  \E es \in SUBSET Events : Insert(es)
  <2>1. rows' = rows \cup rows' /\ Insert(rows')
    BY <1>3 DEF Insert
  <2>2. PICK es : es = rows'
    OBVIOUS
  <2> QED
    BY <1>1, <2>1, <2>2 DEF Insert
<1> QED
  BY <1>2, <1>3 DEF OutboxNext

\* The accounts use the outbox as it is meant to be used: all that their
\* requests do to it is to insert events of the constants, so that what holds of
\* the outbox by itself holds of the accounts' outbox.
THEOREM AccountsUseOutbox == AccountsSpec => OutboxSpec
<1>1. AccountsInit => OutboxInit
  BY DEF AccountsInit
<1>2. AInv /\ AInv' /\ [AccountsNext]_accountsVars => [OutboxNext]_outboxVars
  <2> SUFFICES ASSUME AInv, AInv', [AccountsNext]_accountsVars
               PROVE  [OutboxNext]_outboxVars
    OBVIOUS
  <2>1. CASE RequestStep
    BY <2>1, InsertsOnly
  <2>2. CASE PublisherStep
    BY <2>2 DEF OutboxNext
  <2>3. CASE UNCHANGED accountsVars
    BY <2>3 DEF accountsVars, outboxVars
  <2> QED
    BY <2>1, <2>2, <2>3 DEF AccountsNext
<1> QED
  BY <1>1, <1>2, AccountsInductive, PTL DEF AccountsSpec, OutboxSpec
================================================================================
