--------------------------- MODULE EmergencyContacts ---------------------------
(***************************************************************************)
(* The emergency contacts of the user service, whose numbers an SOS calls. *)
(* Requests of EmergencyContactService are not transactional: a request    *)
(* reads the profile and its contacts, checks its rules and writes later,  *)
(* in a transaction of that single write. UserProfileService.updateProfile *)
(* is one transaction that replaces the list; it takes every contact whose *)
(* id the client sends, whoever has it. The only rule the database knows   *)
(* is that a profile has a number once, as a string.                       *)
(*                                                                         *)
(* A number is stored as +91 and ten digits, which normalizePhone makes of *)
(* both accepted forms, or as typed (updateProfile does not normalise). A  *)
(* request whose profile is missing or which breaks a rule when it reads   *)
(* changes nothing. The reads of a request are one step.                   *)
(***************************************************************************)
EXTENDS UserProfiles

CONSTANTS
  Threads,
  MaxContacts,  \* 15
  Typed,        \* the phones that may come as typed, not only normalised (a bound)
  MaxReplaces,  \* the runs of updateProfile at a time (a bound)
  MaxId         \* the contacts ever made (a bound)

ASSUME ContactsAssumption ==
  /\ MaxContacts \in Nat \ {0}
  /\ Typed \subseteq Phones
  /\ MaxReplaces \in Nat
  /\ MaxId \in Nat

VARIABLES
  contact,  \* the rows in emergency_contacts by their ids
  lastId,   \* the last id the database has given
  thread    \* the requests

contactVars == <<contact, lastId, thread>>
vars == <<profile, own, waiting, contact, lastId, thread>>

Number == (Phones \X {"+91"}) \cup (Typed \X {"typed"})

Row == [user : Users, number : Number]

Normal(phone) == <<phone, "+91">>

Idle == [pc |-> "idle"]

Request ==
  {Idle}
    \cup [pc : {"add"}, user : Users, list : SUBSET (1 .. lastId), own : Phones, phone : Phones]
    \cup [pc : {"delete"}, user : Users, list : SUBSET (1 .. lastId), id : 1 .. lastId]
    \cup [pc : {"update"}, user : Users, id : 1 .. lastId, own : Phones, phone : Phones]
    \cup [pc : {"replace"}, user : Users, list : SUBSET (1 .. lastId), last : 0 .. lastId]
    \cup [pc : {"rewrite"}, user : Users, own : Phones]

ContactsTypeOK ==
  /\ ProfilesTypeOK
  /\ lastId \in Nat
  /\ DOMAIN contact \subseteq 1 .. lastId
  /\ contact \in [DOMAIN contact -> Row]
  /\ thread \in [Threads -> Request]

ContactsInit ==
  /\ ProfilesInit
  /\ contact = [i \in {} |-> <<>>]
  /\ lastId = 0
  /\ thread = [t \in Threads |-> Idle]

List(u) == {i \in DOMAIN contact : contact[i].user = u}

Numbers(ids) == {contact[i].number : i \in ids}

Begin(t, request) ==
  /\ thread[t] = Idle
  /\ profile[request.user]
  /\ thread' = [thread EXCEPT ![t] = request]
  /\ UNCHANGED <<profileVars, contact, lastId>>

Finish(t) == thread' = [thread EXCEPT ![t] = Idle]

\* The write is refused and its transaction rolled back.
Refused(t) == Finish(t) /\ UNCHANGED <<profileVars, contact, lastId>>

\* Mutant: no unique constraint.
NotConstrained(u, ids, numbers) == TRUE

\* UNIQUE (user_id, phone_number), when numbers come to those in the rows ids.
Unique(u, ids, numbers) == numbers \cap Numbers(ids) = {}

--------------------------------------------------------------------------------
(* addContact.                                                              *)

\* Mutant: the limit is off by one.
UpToLimit(u) == Cardinality(List(u)) <= MaxContacts

UnderLimit(u) == Cardinality(List(u)) < MaxContacts

\* Mutant: the user's own number is not refused.
AnyPhone(u, phone) == TRUE

Permitted(u, phone) == phone # own[u]

AddRead(t) ==
  \E u \in Users, phone \in Phones :
    /\ UnderLimit(u)
    /\ Permitted(u, phone)
    /\ Normal(phone) \notin Numbers(List(u))
    /\ Begin(t, [pc |-> "add", user |-> u, list |-> List(u), own |-> own[u], phone |-> phone])

\* Mutant: an id is given again.
FreeId == CHOOSE i \in 1 .. lastId + 1 : i \notin DOMAIN contact

\* AUTO_INCREMENT.
NextId == lastId + 1

AddCommit(t) ==
  LET u == thread[t].user
      number == Normal(thread[t].phone)
      id == NextId
  IN
    /\ thread[t].pc = "add"
    /\ \/ /\ Unique(u, List(u), {number})
          /\ id <= MaxId
          /\ contact' = [i \in DOMAIN contact \cup {id} |->
                           IF i = id THEN [user |-> u, number |-> number] ELSE contact[i]]
          /\ lastId' = id
          /\ Finish(t)
          /\ UNCHANGED profileVars
       \/ ~Unique(u, List(u), {number}) /\ Refused(t)

--------------------------------------------------------------------------------
(* deleteContact and updateContact.                                         *)

\* Mutant: the last contact may be deleted.
NotEmpty(u) == List(u) # {}

MoreThanOne(u) == Cardinality(List(u)) > 1

\* The contact may be of another profile.
DeleteRead(t) ==
  \E u \in Users, id \in DOMAIN contact :
    /\ MoreThanOne(u)
    /\ Begin(t, [pc |-> "delete", user |-> u, list |-> List(u), id |-> id])

DeleteCommit(t) ==
  LET id == thread[t].id IN
    /\ thread[t].pc = "delete"
    /\ \/ /\ id \in DOMAIN contact
          /\ contact' = [i \in DOMAIN contact \ {id} |-> contact[i]]
          /\ Finish(t)
          /\ UNCHANGED <<profileVars, lastId>>
       \/ id \notin DOMAIN contact /\ Refused(t)

UpdateRead(t) ==
  \E u \in Users, phone \in Phones :
    \E id \in List(u) :
      /\ Permitted(u, phone)
      /\ Normal(phone) \notin Numbers(List(u) \ {id})
      /\ Begin(t, [pc |-> "update", user |-> u, id |-> id, own |-> own[u], phone |-> phone])

\* The whole row is written: if the contact was taken by another profile
\* meanwhile, it comes back.
UpdateCommit(t) ==
  LET u == thread[t].user
      id == thread[t].id
      number == Normal(thread[t].phone)
      possible == id \in DOMAIN contact /\ Unique(u, List(u) \ {id}, {number})
  IN
    /\ thread[t].pc = "update"
    /\ \/ /\ possible
          /\ contact' = [contact EXCEPT ![id] = [user |-> u, number |-> number]]
          /\ Finish(t)
          /\ UNCHANGED <<profileVars, lastId>>
       \/ ~possible /\ Refused(t)

--------------------------------------------------------------------------------
(* UserProfileService.                                                      *)

ReplaceRead(t) ==
  \E u \in Users :
    /\ Cardinality({s \in Threads : thread[s].pc = "replace"}) < MaxReplaces
    /\ Begin(t, [pc |-> "replace", user |-> u, list |-> List(u), last |-> lastId])

\* Rows are updated one by one, in an order that is left open: a number can be
\* taken over from a row of the list only after that row has given it up.
InTurn(u, written, number) ==
  \E turn \in [written -> 1 .. MaxContacts] :
    \A i \in written \cap List(u), j \in written :
      i # j /\ number[j] = contact[i].number => turn[i] < turn[j]

\* The rows written come to u with the numbers sent, n contacts are new, and
\* the rows removed go. The inserts come first and the deletes last.
Replaced(u, removed, written, n) ==
  LET new == lastId + 1 .. lastId + n IN
    \E number \in [written \cup new -> Number] :
      /\ \A i, j \in DOMAIN number : number[i] = number[j] => i = j
      /\ Unique(u, List(u), {number[i] : i \in new})
      /\ Unique(u, List(u) \ written, {number[i] : i \in written})
      /\ InTurn(u, written, number)
      /\ contact' = [i \in (DOMAIN contact \ removed) \cup new |->
                       IF i \in DOMAIN number THEN [user |-> u, number |-> number[i]]
                                              ELSE contact[i]]
      /\ lastId' = lastId + n

\* The ids a client may know: nobody asks whose contacts they are.
KnownIds(t) == 1 .. thread[t].last

\* The phone is replaced always, the contacts if some are sent. A contact that
\* is sent back as it was read is not written, which is the same as writing its
\* number again unless another profile has taken it meanwhile; one of another
\* profile is always written. A row to be written or removed that is gone makes
\* the transaction fail.
ReplaceCommit(t) ==
  LET u == thread[t].user
      list == thread[t].list
  IN
    /\ thread[t].pc = "replace"
    /\ \/ /\ \/ \E sent \in SUBSET KnownIds(t), n \in 0 .. MaxContacts :
                  \E written \in SUBSET (sent \cap DOMAIN contact) :
                    /\ Cardinality(sent) + n \in 1 .. MaxContacts
                    /\ (sent \ list) \cup (sent \cap List(u)) \subseteq written
                    /\ list \ sent \subseteq DOMAIN contact
                    /\ lastId + n <= MaxId
                    /\ Replaced(u, list \ sent, written, n)
             \/ UNCHANGED <<contact, lastId>>
          /\ \E phone \in Phones : own' = [own EXCEPT ![u] = phone]
          /\ Finish(t)
          /\ UNCHANGED <<profile, waiting>>
       \/ Refused(t)

\* uploadProfilePicture and UserVerifiedConsumer write the whole row as they
\* read it, but for the picture.
RewriteRead(t) ==
  \E u \in Users : Begin(t, [pc |-> "rewrite", user |-> u, own |-> own[u]])

RewriteCommit(t) ==
  /\ thread[t].pc = "rewrite"
  /\ own' = [own EXCEPT ![thread[t].user] = thread[t].own]
  /\ Finish(t)
  /\ UNCHANGED <<profile, waiting, contact, lastId>>

--------------------------------------------------------------------------------
ContactStep ==
  \E t \in Threads :
    AddRead(t) \/ AddCommit(t) \/ DeleteRead(t) \/ DeleteCommit(t) \/ UpdateRead(t) \/ UpdateCommit(t)
    \/ ReplaceRead(t) \/ ReplaceCommit(t) \/ RewriteRead(t) \/ RewriteCommit(t)

ContactsNext == ContactStep \/ (ConsumerStep /\ UNCHANGED contactVars)

ContactsSpec == ContactsInit /\ [][ContactsNext]_vars

--------------------------------------------------------------------------------
(* Properties.                                                              *)

\* A profile never has two contacts with the same number, although requests
\* check this before they write.
NumberOnce ==
  \A i, j \in DOMAIN contact : contact[i] = contact[j] => i = j

\* The request that t has finished in this step.
Finished(t) == thread[t] # Idle /\ thread'[t] = Idle

\* The list of its user, or the contact that t read in it, has changed since.
Overtaken(t) ==
  \/ thread[t].pc \in {"add", "delete", "replace"} /\ thread[t].list # List(thread[t].user)
  \/ thread[t].pc = "update" /\ thread[t].id \notin List(thread[t].user)

\* A list comes to more contacts than are allowed only by a request of its user
\* whose list has changed since it was read: also by updateContact, when the
\* contact it writes has been taken by another profile and comes back.
LimitLostToOverlap ==
  [][\A u \in Users :
       Cardinality(List(u)') > MaxContacts /\ Cardinality(List(u)) <= MaxContacts =>
         \E t \in Threads : /\ Finished(t) /\ thread[t].pc \in {"add", "update", "replace"}
                            /\ thread[t].user = u /\ Overtaken(t)]_vars

\* Who has contacts loses the last one only by a request that was overtaken, or
\* by a deletion or a new list that came in for another profile.
LastContactLostToOverlap ==
  [][\A u \in Users :
       List(u) # {} /\ List(u)' = {} =>
         \E t \in Threads :
           /\ Finished(t)
           /\ \/ thread[t].pc \in {"delete", "replace"} /\ (thread[t].user # u \/ Overtaken(t))
              \/ thread[t].pc = "update" /\ thread[t].user # u /\ Overtaken(t)]_vars

OwnListed(u) == \E i \in List(u) : contact[i].number[1] = own[u]

\* The own phone of a user comes among the contacts only by a request that read
\* another phone as the own one, or when the profile is written.
OwnPhoneLostToOverlap ==
  [][\A u \in Users :
       ~OwnListed(u) /\ OwnListed(u)' =>
         \E t \in Threads :
           /\ Finished(t) /\ thread[t].user = u
           /\ \/ thread[t].pc \in {"add", "update"} /\ thread[t].own # own[u]
              \/ thread[t].pc \in {"replace", "rewrite"}]_vars
================================================================================
