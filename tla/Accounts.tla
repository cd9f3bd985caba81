------------------------------- MODULE Accounts -------------------------------
(***************************************************************************)
(* One account of the auth service and its one-time passwords.             *)
(* AuthService.register and resetPassword are not transactional: each of   *)
(* their repository calls commits on its own, and what they write is the   *)
(* whole row as they read it. OtpService runs in transactions, which read  *)
(* a snapshot and write at their commit. Neither row has a version. Events *)
(* of OtpService go through the outbox; user.created is sent by register   *)
(* itself, after its commits (what the user service does with it is in     *)
(* EmergencyContacts).                                                     *)
(*                                                                         *)
(* An email has one account and nothing relates two accounts. All          *)
(* challenges are of one channel. Passwords, codes and the tokens of       *)
(* password resets are left out: a reset may come for any account, and a   *)
(* request to confirm has the right code or a wrong one.                   *)
(***************************************************************************)
EXTENDS EventOutbox

CONSTANTS
  Threads,     \* the request threads of the auth service
  Challenges,  \* the ids that challenges may get (a bound)
  Calls,       \* the requests that are made
  MaxKills     \* requests broken off, and user.created events lost (a bound)

ASSUME AccountsAssumption ==
  /\ IsFiniteSet(Threads)
  /\ Challenges \subseteq Nat \ {0}
  /\ MaxKills \in Nat
  /\ Events = Challenges \X (0 .. Cardinality(Threads))

VARIABLES
  account,    \* the row in users: absent, unverified or verified
  challenge,  \* the rows in otp_challenges
  thread,     \* what each request thread is doing
  created,    \* what has become of the user.created event
  kills

requestVars == <<account, challenge, thread, created, kills>>
accountsVars == <<rows, marked, locked, todo, done, sends, failures,
                  account, challenge, thread, created, kills>>

Account == {"absent", "unverified", "verified"}

\* LAPSED is a PENDING row whose expires_at is over. BLOCKED is missing: the
\* transaction that would write it is always rolled back.
Status == {"NONE", "PENDING", "LAPSED", "VERIFIED", "EXPIRED"}

Created == {"none", "sent", "lost"}

ThreadState ==
  [pc : {"idle", "save", "otp", "expire", "publish", "confirm", "reject", "resend", "reset"},
   saw : Account, new : BOOLEAN, id : Challenges \cup {0}]

Idle == [pc |-> "idle", saw |-> "absent", new |-> FALSE, id |-> 0]

AccountsTypeOK ==
  /\ OutboxTypeOK
  /\ account \in Account
  /\ challenge \in [Challenges -> Status]
  /\ thread \in [Threads -> ThreadState]
  /\ created \in Created
  /\ kills \in 0 .. MaxKills

AccountsInit ==
  /\ OutboxInit
  /\ account = "absent"
  /\ challenge = [c \in Challenges |-> "NONE"]
  /\ thread = [t \in Threads |-> Idle]
  /\ created = "none"
  /\ kills = 0

Goes(t, state) == thread' = [thread EXCEPT ![t] = state]

\* An event is <<c, n>>: the n-th confirmation of c, or its creation by
\* resendOtp (n = 0). The confirmations of c that were announced:
Confirmations(c) == {e[2] : e \in {f \in rows : f[1] = c}} \ {0}

\* The requests that are about to confirm c.
Confirming(c) == {t \in Threads : thread[t].pc = "confirm" /\ thread[t].id = c}

Unused == {c \in Challenges : challenge[c] = "NONE"}

\* A bound: a request that will create a challenge begins only if an id is left for it.
RoomForChallenge ==
  Cardinality({t \in Threads : thread[t].pc \in {"save", "otp", "expire", "resend"}})
    < Cardinality(Unused)

--------------------------------------------------------------------------------
(* register.                                                                *)

RegisterRead(t) ==
  /\ "register" \in Calls /\ thread[t] = Idle
  /\ account # "verified"
  /\ RoomForChallenge
  /\ Goes(t, [Idle EXCEPT !.pc = "save", !.saw = account])
  /\ UNCHANGED <<outboxVars, account, challenge, created, kills>>

\* The account found unverified is written back with new name, phone and
\* password, and with the is_verified that was read.
SaveExisting(t) ==
  /\ thread[t].pc = "save" /\ thread[t].saw = "unverified"
  /\ account' = thread[t].saw
  /\ Goes(t, [Idle EXCEPT !.pc = "otp"])
  /\ UNCHANGED <<outboxVars, challenge, created, kills>>

\* Mutant: no unique constraint on the email.
InsertedAnyway == TRUE

Inserted == account = "absent"

\* The insert is refused if another request inserted the email meanwhile.
SaveNew(t) ==
  /\ thread[t].pc = "save" /\ thread[t].saw = "absent"
  /\ \/ /\ Inserted
        /\ account' = "unverified"
        /\ Goes(t, [Idle EXCEPT !.pc = "otp", !.new = TRUE])
     \/ /\ ~Inserted
        /\ account' = account
        /\ Goes(t, Idle)
  /\ UNCHANGED <<outboxVars, challenge, created, kills>>

\* Only the registration that inserted the account publishes user.created.
\* kafkaTemplate.send is not waited for; if it fails that is only logged.
PublishCreated(t) ==
  /\ thread[t].pc = "publish"
  /\ \/ created' = "sent" /\ kills' = kills
     \/ kills < MaxKills /\ kills' = kills + 1 /\ created' = "lost"
  /\ Goes(t, Idle)
  /\ UNCHANGED <<outboxVars, account, challenge>>

--------------------------------------------------------------------------------
(* createOtp, called by register and by a request of its own.               *)

\* The challenge with the greatest id, which is taken for the latest one (ids
\* are random), if it is pending.
Top ==
  {c \in Challenges :
     /\ challenge[c] \in {"PENDING", "LAPSED"}
     /\ \A d \in Challenges : challenge[d] = "NONE" \/ d <= c}

ToExpire == IF Top = {} THEN 0 ELSE CHOOSE c \in Top : TRUE

CreateOtpRead(t) ==
  /\ \/ thread[t].pc = "otp"
     \/ "create" \in Calls /\ thread[t] = Idle /\ account # "absent" /\ RoomForChallenge
  /\ Goes(t, [Idle EXCEPT !.pc = "expire", !.id = ToExpire, !.new = thread[t].new])
  /\ UNCHANGED <<outboxVars, account, challenge, created, kills>>

\* The row read is written as EXPIRED whatever it has become.
CreateOtpCommit(t) ==
  /\ thread[t].pc = "expire"
  /\ \E c \in Unused :
       challenge' = [d \in Challenges |->
         IF d = c THEN "PENDING" ELSE IF d = thread[t].id THEN "EXPIRED" ELSE challenge[d]]
  /\ Goes(t, IF thread[t].new THEN [Idle EXCEPT !.pc = "publish", !.new = TRUE] ELSE Idle)
  /\ UNCHANGED <<outboxVars, account, created, kills>>

--------------------------------------------------------------------------------
(* confirmOtp and resendOtp.                                                *)

\* Only a challenge that is read as pending and not over goes on; any other
\* answer changes nothing.
ConfirmRead(t) ==
  /\ "confirm" \in Calls /\ thread[t] = Idle
  /\ \E c \in Challenges, pc \in {"confirm", "reject"} :
       /\ challenge[c] = "PENDING"
       /\ Goes(t, [Idle EXCEPT !.pc = pc, !.saw = account, !.id = c])
  /\ UNCHANGED <<outboxVars, account, challenge, created, kills>>

\* Mutant: the event is only inserted by the request that verifies the user.
EventIfVerifying(t, c) ==
  IF thread[t].saw = "verified" THEN {}
  ELSE {<<c, Cardinality(Confirmations(c)) + 1>>}

\* The event has an id of its own, so that it never counts as inserted before.
NewEvent(t, c) == {<<c, Cardinality(Confirmations(c)) + 1>>}

\* Challenge, account and event are one transaction; each row is written
\* whatever it has become since it was read.
ConfirmCommit(t) ==
  LET c == thread[t].id IN
    /\ thread[t].pc = "confirm"
    /\ challenge' = [challenge EXCEPT ![c] = "VERIFIED"]
    /\ account' = IF thread[t].saw = "verified" THEN account ELSE "verified"
    /\ Insert(NewEvent(t, c))
    /\ Goes(t, Idle)
    /\ UNCHANGED <<created, kills>>

\* Mutant: the last attempt is counted and blocks the challenge.
AttemptBlocks(t) == challenge' = [challenge EXCEPT ![thread[t].id] = "BLOCKED"]

\* Mutant: the attempt is committed, with the rest of the row as it was read.
AttemptSaved(t) == challenge' = [challenge EXCEPT ![thread[t].id] = "PENDING"]

\* The exception rolls the counted attempt back.
RolledBack(t) == challenge' = challenge

WrongCode(t) ==
  /\ thread[t].pc = "reject"
  /\ RolledBack(t)
  /\ Goes(t, Idle)
  /\ UNCHANGED <<outboxVars, account, created, kills>>

ResendRead(t) ==
  /\ "resend" \in Calls /\ thread[t] = Idle
  /\ account = "unverified"
  /\ RoomForChallenge
  /\ Goes(t, [Idle EXCEPT !.pc = "resend"])
  /\ UNCHANGED <<outboxVars, account, challenge, created, kills>>

\* One bulk update expires what is pending and not over. The challenge is
\* saved under an id that its entity is to generate, which the persistence
\* layer may accept or refuse: then everything is rolled back.
ResendCommit(t) ==
  /\ thread[t].pc = "resend"
  /\ \/ \E c \in Unused :
          /\ challenge' = [d \in Challenges |->
               IF d = c THEN "PENDING"
               ELSE IF challenge[d] = "PENDING" THEN "EXPIRED" ELSE challenge[d]]
          /\ Insert({<<c, 0>>})
     \/ challenge' = challenge /\ UNCHANGED outboxVars
  /\ Goes(t, Idle)
  /\ UNCHANGED <<account, created, kills>>

\* The time of a challenge is over.
Lapse(c) ==
  /\ challenge[c] = "PENDING"
  /\ challenge' = [challenge EXCEPT ![c] = "LAPSED"]
  /\ UNCHANGED <<outboxVars, account, thread, created, kills>>

--------------------------------------------------------------------------------
(* The other requests that write the account.                               *)

VerifyUser ==
  /\ "verify" \in Calls
  /\ account # "absent"
  /\ account' = "verified"
  /\ UNCHANGED <<outboxVars, challenge, thread, created, kills>>

ResetRead(t) ==
  /\ "reset" \in Calls /\ thread[t] = Idle
  /\ account # "absent"
  /\ Goes(t, [Idle EXCEPT !.pc = "reset", !.saw = account])
  /\ UNCHANGED <<outboxVars, account, challenge, created, kills>>

\* Mutant: the reset writes a row made anew.
WrittenAnew(saw) == account' = "unverified"

WrittenBack(saw) == account' = saw

ResetCommit(t) ==
  /\ thread[t].pc = "reset"
  /\ WrittenBack(thread[t].saw)
  /\ Goes(t, Idle)
  /\ UNCHANGED <<outboxVars, challenge, created, kills>>

\* A request is killed, or a database call of it fails, between its commits.
Kill(t) ==
  /\ thread[t] # Idle
  /\ kills < MaxKills
  /\ kills' = kills + 1
  /\ created' = IF thread[t].new THEN "lost" ELSE created
  /\ Goes(t, Idle)
  /\ UNCHANGED <<outboxVars, account, challenge>>

--------------------------------------------------------------------------------
RequestStep ==
  \/ \E t \in Threads :
       RegisterRead(t) \/ CreateOtpRead(t) \/ ConfirmRead(t) \/ ResendRead(t) \/ ResetRead(t)
       \/ SaveExisting(t) \/ SaveNew(t) \/ CreateOtpCommit(t) \/ PublishCreated(t)
       \/ ConfirmCommit(t) \/ WrongCode(t) \/ ResendCommit(t) \/ ResetCommit(t) \/ Kill(t)
  \/ VerifyUser
  \/ \E c \in Challenges : Lapse(c)

AccountsNext == RequestStep \/ (PublisherStep /\ UNCHANGED requestVars)

AccountsSpec == AccountsInit /\ [][AccountsNext]_accountsVars

\* The schedule of each publisher keeps coming; requests may stop anywhere.
AccountsFairness == \A p \in Publishers : WF_accountsVars(Publish(p) /\ UNCHANGED requestVars)

FairAccountsSpec == AccountsSpec /\ AccountsFairness

--------------------------------------------------------------------------------
(* Properties.                                                              *)

\* A challenge is announced as confirmed only by requests that read it before
\* the first of them committed: those that have and those that still can are
\* never more than the threads that ran then.
ConfirmedOncePerOverlap ==
  \A c \in Challenges :
    Cardinality(Confirmations(c)) + Cardinality(Confirming(c)) <= Cardinality(Threads)

\* An account is announced exactly once, if nothing is lost: either one
\* request, the one that inserted it, has still to send user.created, or that
\* was sent or lost. No later registration makes up for a lost one.
CreatedAccounting ==
  /\ \A t, u \in Threads : thread[t].new /\ thread[u].new => t = u
  /\ (\E t \in Threads : thread[t].new) <=> (account # "absent" /\ created = "none")
  /\ account = "absent" => created = "none"

\* A verified account turns unverified only by a request that read it before
\* it was verified and writes back what it read.
VerificationLostToOverlap ==
  [][account = "verified" /\ account' # "verified" =>
       \E t \in Threads :
         thread[t].saw = "unverified" /\ thread[t].pc \in {"save", "reset"} /\ thread'[t] # thread[t]
    ]_accountsVars

\* A confirmed challenge is announced to the other services in the end.
ConfirmationArrives ==
  \A c \in Challenges :
    (challenge[c] = "VERIFIED") ~>
      (/\ Confirmations(c) # {}
       /\ \A n \in Confirmations(c) : <<c, n>> \in Followed => <<c, n>> \in marked)
================================================================================
