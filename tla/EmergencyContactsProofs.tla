------------------------ MODULE EmergencyContactsProofs ------------------------
(***************************************************************************)
(* Proofs about UserProfiles and EmergencyContacts. The invariant adds to  *)
(* the types what each request checked when it read; the action properties *)
(* follow from it by what each request does to the list of each user.      *)
(***************************************************************************)
EXTENDS EmergencyContacts, TLAPS, FiniteSetTheorems

\* What a request found when it read.
Checked(r) ==
  /\ r.pc = "add" => Cardinality(r.list) < MaxContacts /\ r.phone # r.own
  /\ r.pc = "delete" => Cardinality(r.list) > 1
  /\ r.pc = "update" => r.phone # r.own

CInv ==
  /\ ContactsTypeOK
  /\ ProfileAccounting
  /\ NumberOnce
  /\ \A t \in Threads : Checked(thread[t])

--------------------------------------------------------------------------------
(* The consumer of user.created.                                            *)

LEMMA ConsumerKeeps ==
  ASSUME ProfilesTypeOK, ProfileAccounting, ConsumerStep
  PROVE  ProfilesTypeOK' /\ ProfileAccounting' /\ own' = own
BY DEF ConsumerStep, Consume, FailedAttempt, NotForwarded, ProfilesTypeOK, ProfileAccounting

--------------------------------------------------------------------------------
(* The requests: what they know.                                            *)

LEMMA IdleRequest == Idle \in Request /\ Idle.pc = "idle" /\ Checked(Idle)
  BY DEF Idle, Request, Checked

\* A request keeps its type when ids are added.
LEMMA RequestGrows ==
  ASSUME lastId \in Nat, lastId' \in Nat, lastId' >= lastId
  PROVE  Request \subseteq Request'
<1>1. 1 .. lastId \subseteq 1 .. lastId'
  OBVIOUS
<1>2. SUBSET (1 .. lastId) \subseteq SUBSET (1 .. lastId')
  BY <1>1
<1> SUFFICES ASSUME NEW r \in Request
             PROVE  r \in Request'
  OBVIOUS
<1> QED
  BY <1>1, <1>2 DEF Request

LEMMA FinishKeeps ==
  ASSUME CInv, NEW t \in Threads, Finish(t), lastId' \in Nat, lastId' >= lastId
  PROVE  /\ thread'[t] = Idle
         /\ thread' \in [Threads -> Request']
         /\ \A s \in Threads : Checked(thread[s])'
<1>1. \A s \in Threads : thread[s] \in Request /\ Checked(thread[s])
  BY DEF CInv, ContactsTypeOK
<1>2. \A s \in Threads : thread'[s] = IF s = t THEN Idle ELSE thread[s]
  BY DEF Finish, CInv, ContactsTypeOK
<1>3. Request \subseteq Request' /\ Idle \in Request
  BY RequestGrows, IdleRequest DEF CInv, ContactsTypeOK
<1>4. thread' \in [Threads -> Request']
  <2>1. \A s \in Threads : thread'[s] \in Request'
    BY <1>1, <1>2, <1>3
  <2> QED
    BY <2>1 DEF Finish, CInv, ContactsTypeOK
<1>5. \A s \in Threads : Checked(thread[s])'
  BY <1>1, <1>2 DEF Checked, Idle
<1> QED
  BY <1>2, <1>4, <1>5

\* A request begins with what it has read.
LEMMA BeginKeeps ==
  ASSUME CInv, NEW t \in Threads, NEW r \in Request, Checked(r), Begin(t, r)
  PROVE  CInv'
<1>1. /\ UNCHANGED <<profile, own, waiting, contact, lastId>>
      /\ thread' = [thread EXCEPT ![t] = r]
  BY DEF Begin, profileVars
<1>2. ContactsTypeOK'
  BY <1>1 DEF CInv, ContactsTypeOK, ProfilesTypeOK, Request
<1>3. \A s \in Threads : Checked(thread[s])'
  BY <1>1 DEF CInv, ContactsTypeOK, Checked
<1> QED
  BY <1>1, <1>2, <1>3 DEF CInv, ProfileAccounting, NumberOnce

LEMMA RefusedKeeps ==
  ASSUME CInv, NEW t \in Threads, Refused(t)
  PROVE  CInv' /\ thread'[t] = Idle
<1>1. UNCHANGED <<profile, own, waiting, contact, lastId>> /\ Finish(t)
  BY DEF Refused, profileVars
<1>2. /\ thread'[t] = Idle
      /\ thread' \in [Threads -> Request']
      /\ \A s \in Threads : Checked(thread[s])'
  BY <1>1, FinishKeeps DEF CInv, ContactsTypeOK
<1> QED
  BY <1>1, <1>2 DEF CInv, ContactsTypeOK, ProfilesTypeOK, ProfileAccounting, NumberOnce

\* What a request carries.
LEMMA Fields ==
  ASSUME CInv, NEW t \in Threads
  PROVE  /\ thread[t].pc # "idle" => thread[t].user \in Users /\ thread[t] # Idle
         /\ thread[t].pc \in {"add", "delete", "replace"} => thread[t].list \in SUBSET (1 .. lastId)
         /\ thread[t].pc \in {"add", "update", "rewrite"} => thread[t].own \in Phones
         /\ thread[t].pc \in {"add", "update"} => thread[t].phone \in Phones
         /\ thread[t].pc \in {"delete", "update"} => thread[t].id \in 1 .. lastId
         /\ thread[t].pc = "replace" => thread[t].last \in 0 .. lastId
         /\ Checked(thread[t])
<1>1. thread[t] \in Request /\ Checked(thread[t])
  BY DEF CInv, ContactsTypeOK
<1> QED
  BY <1>1 DEF Request, Idle

--------------------------------------------------------------------------------
(* The requests: what they do.                                              *)

LEMMA ReadsKeep ==
  ASSUME CInv, NEW t \in Threads,
         AddRead(t) \/ DeleteRead(t) \/ UpdateRead(t) \/ ReplaceRead(t) \/ RewriteRead(t)
  PROVE  CInv'
<1>0. /\ \A u \in Users : List(u) \in SUBSET (1 .. lastId) /\ own[u] \in Phones
      /\ DOMAIN contact \subseteq 1 .. lastId
  BY DEF CInv, ContactsTypeOK, ProfilesTypeOK, List
<1>1. CASE AddRead(t)
  <2>1. PICK u \in Users, phone \in Phones :
          /\ UnderLimit(u) /\ Permitted(u, phone)
          /\ Begin(t, [pc |-> "add", user |-> u, list |-> List(u), own |-> own[u], phone |-> phone])
    BY <1>1 DEF AddRead
  <2> DEFINE r == [pc |-> "add", user |-> u, list |-> List(u), own |-> own[u], phone |-> phone]
  <2>2. r \in Request /\ Checked(r)
    BY <1>0, <2>1 DEF Request, Checked, UnderLimit, Permitted
  <2> QED
    BY <2>1, <2>2, BeginKeeps
<1>2. CASE DeleteRead(t)
  <2>1. PICK u \in Users, id \in DOMAIN contact :
          /\ MoreThanOne(u)
          /\ Begin(t, [pc |-> "delete", user |-> u, list |-> List(u), id |-> id])
    BY <1>2 DEF DeleteRead
  <2> DEFINE r == [pc |-> "delete", user |-> u, list |-> List(u), id |-> id]
  <2>2. r \in Request /\ Checked(r)
    BY <1>0, <2>1 DEF Request, Checked, MoreThanOne
  <2> QED
    BY <2>1, <2>2, BeginKeeps
<1>3. CASE UpdateRead(t)
  <2>0. PICK u \in Users, phone \in Phones :
          \E id \in List(u) :
            /\ Permitted(u, phone)
            /\ Begin(t, [pc |-> "update", user |-> u, id |-> id, own |-> own[u], phone |-> phone])
    BY <1>3 DEF UpdateRead
  <2>1. PICK id \in List(u) :
          /\ Permitted(u, phone)
          /\ Begin(t, [pc |-> "update", user |-> u, id |-> id, own |-> own[u], phone |-> phone])
    BY <2>0
  <2> DEFINE r == [pc |-> "update", user |-> u, id |-> id, own |-> own[u], phone |-> phone]
  <2>2. r \in Request /\ Checked(r)
    BY <1>0, <2>1 DEF Request, Checked, Permitted, List
  <2> QED
    BY <2>1, <2>2, BeginKeeps
<1>4. CASE ReplaceRead(t)
  <2>1. PICK u \in Users :
          Begin(t, [pc |-> "replace", user |-> u, list |-> List(u), last |-> lastId])
    BY <1>4 DEF ReplaceRead
  <2> DEFINE r == [pc |-> "replace", user |-> u, list |-> List(u), last |-> lastId]
  <2>2. r \in Request /\ Checked(r)
    BY <1>0 DEF Request, Checked, CInv, ContactsTypeOK
  <2> QED
    BY <2>1, <2>2, BeginKeeps
<1>5. CASE RewriteRead(t)
  <2>1. PICK u \in Users : Begin(t, [pc |-> "rewrite", user |-> u, own |-> own[u]])
    BY <1>5 DEF RewriteRead
  <2> DEFINE r == [pc |-> "rewrite", user |-> u, own |-> own[u]]
  <2>2. r \in Request /\ Checked(r)
    BY <1>0 DEF Request, Checked
  <2> QED
    BY <2>1, <2>2, BeginKeeps
<1> QED
  BY <1>1, <1>2, <1>3, <1>4, <1>5

\* A new contact comes to the list of its user.
LEMMA AddEffect ==
  ASSUME CInv, NEW t \in Threads, AddCommit(t), ~Refused(t)
  PROVE  /\ CInv' /\ thread'[t] = Idle /\ own' = own
         /\ \A v \in Users : List(v)' = IF v = thread[t].user THEN List(v) \cup {lastId + 1}
                                                             ELSE List(v)
         /\ \A i \in DOMAIN contact : contact'[i] = contact[i] /\ i # lastId + 1
         /\ contact'[lastId + 1].number = Normal(thread[t].phone)
<1> DEFINE u == thread[t].user
           row == [user |-> u, number |-> Normal(thread[t].phone)]
<1>1. u \in Users /\ thread[t].phone \in Phones
  BY Fields DEF AddCommit
<1>2. row \in Row /\ row.user = u /\ row.number = Normal(thread[t].phone)
  BY <1>1 DEF Row, Normal, Number
<1>3. /\ Unique(u, List(u), {Normal(thread[t].phone)})
      /\ contact' = [i \in DOMAIN contact \cup {lastId + 1} |->
                       IF i = lastId + 1 THEN row ELSE contact[i]]
      /\ lastId' = lastId + 1
      /\ Finish(t)
      /\ UNCHANGED <<profile, own, waiting>>
  BY DEF AddCommit, NextId, profileVars
<1>4. lastId \in Nat /\ DOMAIN contact \subseteq 1 .. lastId /\ contact \in [DOMAIN contact -> Row]
  BY DEF CInv, ContactsTypeOK
<1> HIDE DEF u, row
<1>5. /\ DOMAIN contact' = DOMAIN contact \cup {lastId + 1}
      /\ contact'[lastId + 1] = row
      /\ \A i \in DOMAIN contact : contact'[i] = contact[i] /\ i # lastId + 1
  BY <1>3, <1>4
<1>7. /\ thread'[t] = Idle
      /\ thread' \in [Threads -> Request']
      /\ \A s \in Threads : Checked(thread[s])'
  BY <1>3, <1>4, FinishKeeps
<1>8. ContactsTypeOK'
  <2>1. contact' \in [DOMAIN contact' -> Row]
    BY <1>2, <1>3, <1>4, <1>5
  <2>2. DOMAIN contact' \subseteq 1 .. lastId'
    BY <1>3, <1>4, <1>5
  <2> QED
    BY <1>3, <1>4, <1>7, <2>1, <2>2 DEF CInv, ContactsTypeOK, ProfilesTypeOK, Row
<1>9. NumberOnce'
  <2>1. \A i \in DOMAIN contact : contact[i] # row
    BY <1>2, <1>3 DEF Unique, Numbers, List
  <2> QED
    BY <1>5, <2>1 DEF CInv, NumberOnce
<1>10. \A v \in Users : List(v)' = IF v = u THEN List(v) \cup {lastId + 1} ELSE List(v)
  BY <1>2, <1>5 DEF List
<1> QED
  BY <1>2, <1>3, <1>5, <1>7, <1>8, <1>9, <1>10 DEF CInv, ProfileAccounting, u

LEMMA DeleteEffect ==
  ASSUME CInv, NEW t \in Threads, DeleteCommit(t), ~Refused(t)
  PROVE  /\ CInv' /\ thread'[t] = Idle /\ own' = own
         /\ \A v \in Users : List(v)' = List(v) \ {thread[t].id}
         /\ \A i \in DOMAIN contact' : i \in DOMAIN contact /\ contact'[i] = contact[i]
<1> DEFINE id == thread[t].id
<1>1. /\ contact' = [i \in DOMAIN contact \ {id} |-> contact[i]]
      /\ Finish(t)
      /\ UNCHANGED <<profile, own, waiting, lastId>>
  BY DEF DeleteCommit, profileVars
<1> HIDE DEF id
<1>2. /\ DOMAIN contact' = DOMAIN contact \ {id}
      /\ \A i \in DOMAIN contact' : contact'[i] = contact[i]
  BY <1>1
<1>4. /\ thread'[t] = Idle
      /\ thread' \in [Threads -> Request']
      /\ \A s \in Threads : Checked(thread[s])'
  BY <1>1, FinishKeeps DEF CInv, ContactsTypeOK
<1>5. ContactsTypeOK'
  BY <1>1, <1>2, <1>4 DEF CInv, ContactsTypeOK, ProfilesTypeOK
<1>6. NumberOnce'
  BY <1>2 DEF CInv, NumberOnce
<1>7. \A v \in Users : List(v)' = List(v) \ {id}
  BY <1>2 DEF List
<1> QED
  BY <1>1, <1>2, <1>4, <1>5, <1>6, <1>7 DEF CInv, ProfileAccounting, id

\* The contact comes to the list of the request's user if it was not in it any
\* more, and leaves the list it was in.
LEMMA UpdateEffect ==
  ASSUME CInv, NEW t \in Threads, UpdateCommit(t), ~Refused(t)
  PROVE  /\ CInv' /\ thread'[t] = Idle /\ own' = own
         /\ \A v \in Users : List(v)' = IF v = thread[t].user THEN List(v) \cup {thread[t].id}
                                                             ELSE List(v) \ {thread[t].id}
         /\ contact'[thread[t].id].number = Normal(thread[t].phone)
         /\ \A i \in DOMAIN contact : i # thread[t].id => contact'[i] = contact[i]
<1> DEFINE u == thread[t].user
           id == thread[t].id
           row == [user |-> u, number |-> Normal(thread[t].phone)]
<1>1. u \in Users /\ thread[t].phone \in Phones
  BY Fields DEF UpdateCommit
<1>2. row \in Row /\ row.user = u /\ row.number = Normal(thread[t].phone)
  BY <1>1 DEF Row, Normal, Number
<1>3. /\ id \in DOMAIN contact
      /\ Unique(u, List(u) \ {id}, {Normal(thread[t].phone)})
      /\ contact' = [contact EXCEPT ![id] = row]
      /\ Finish(t)
      /\ UNCHANGED <<profile, own, waiting, lastId>>
  BY DEF UpdateCommit, profileVars
<1> HIDE DEF u, id, row
<1>4. /\ DOMAIN contact' = DOMAIN contact
      /\ \A i \in DOMAIN contact : contact'[i] = IF i = id THEN row ELSE contact[i]
  BY <1>3
<1>5. /\ thread'[t] = Idle
      /\ thread' \in [Threads -> Request']
      /\ \A s \in Threads : Checked(thread[s])'
  BY <1>3, FinishKeeps DEF CInv, ContactsTypeOK
<1>6. ContactsTypeOK'
  BY <1>2, <1>3, <1>4, <1>5 DEF CInv, ContactsTypeOK, ProfilesTypeOK
<1>7. NumberOnce'
  <2>1. \A i \in DOMAIN contact \ {id} : contact[i] # row
    BY <1>2, <1>3 DEF Unique, Numbers, List
  <2> QED
    BY <1>4, <2>1 DEF CInv, NumberOnce
<1>8. \A v \in Users : List(v)' = IF v = u THEN List(v) \cup {id} ELSE List(v) \ {id}
  BY <1>2, <1>3, <1>4 DEF List
<1> QED
  BY <1>2, <1>3, <1>4, <1>5, <1>6, <1>7, <1>8 DEF CInv, ProfileAccounting, u, id

\* updateProfile without contacts, and the requests that write the profile back.
LEMMA ProfileEffect ==
  ASSUME CInv, NEW t \in Threads, NEW u \in Users, NEW phone \in Phones, Finish(t),
         own' = [own EXCEPT ![u] = phone], UNCHANGED <<profile, waiting, contact, lastId>>
  PROVE  /\ CInv' /\ thread'[t] = Idle
         /\ \A v \in Users : List(v)' = List(v)
<1>1. /\ thread'[t] = Idle
      /\ thread' \in [Threads -> Request']
      /\ \A s \in Threads : Checked(thread[s])'
  BY FinishKeeps DEF CInv, ContactsTypeOK
<1>2. ContactsTypeOK'
  BY <1>1 DEF CInv, ContactsTypeOK, ProfilesTypeOK
<1> QED
  BY <1>1, <1>2 DEF CInv, ProfileAccounting, NumberOnce, List

\* The step of updateProfile when it removes and writes some contacts and
\* inserts n.
ReplacedBy(t, u, phone, removed, written, n) ==
  /\ Finish(t)
  /\ Replaced(u, removed, written, n)
  /\ own' = [own EXCEPT ![u] = phone]
  /\ UNCHANGED <<profile, waiting>>

\* The contacts written and the new ones come to the list of u; whoever had them
\* or a contact that is removed has them no more.
LEMMA ReplaceEffect ==
  ASSUME CInv, NEW t \in Threads, NEW u \in Users, NEW phone \in Phones,
         NEW removed, removed \subseteq DOMAIN contact,
         NEW written, written \subseteq DOMAIN contact \ removed,
         NEW n \in Nat, ReplacedBy(t, u, phone, removed, written, n)
  PROVE  /\ CInv' /\ thread'[t] = Idle
         /\ List(u)' = (List(u) \ removed) \cup written \cup (lastId + 1 .. lastId + n)
         /\ \A v \in Users \ {u} : /\ List(v)' = List(v) \ (removed \cup written)
                                   /\ \A i \in List(v)' : contact'[i] = contact[i]
<1> DEFINE new == lastId + 1 .. lastId + n
           stays == DOMAIN contact \ (removed \cup written)
<1>1. PICK number \in [written \cup new -> Number] :
        /\ \A i, j \in DOMAIN number : number[i] = number[j] => i = j
        /\ Unique(u, List(u), {number[i] : i \in new})
        /\ Unique(u, List(u) \ written, {number[i] : i \in written})
        /\ contact' = [i \in (DOMAIN contact \ removed) \cup new |->
                         IF i \in DOMAIN number THEN [user |-> u, number |-> number[i]]
                                                ELSE contact[i]]
        /\ lastId' = lastId + n
  BY DEF ReplacedBy, Replaced
<1> USE DEF ReplacedBy
<1>2. /\ lastId \in Nat /\ DOMAIN contact \subseteq 1 .. lastId
      /\ contact \in [DOMAIN contact -> Row]
  BY DEF CInv, ContactsTypeOK
<1>3. DOMAIN contact \cap new = {}
  BY <1>2
<1> HIDE DEF new
<1>4. /\ DOMAIN contact' = stays \cup written \cup new
      /\ \A i \in stays : contact'[i] = contact[i]
      /\ \A i \in written \cup new : contact'[i] = [user |-> u, number |-> number[i]]
  BY <1>1, <1>3
<1>5. lastId' \in Nat /\ lastId' >= lastId
  BY <1>1, <1>2
<1>6. /\ thread'[t] = Idle
      /\ thread' \in [Threads -> Request']
      /\ \A s \in Threads : Checked(thread[s])'
  BY <1>5, FinishKeeps
<1>7. ContactsTypeOK'
  <2>1. DOMAIN contact' \subseteq 1 .. lastId'
    BY <1>1, <1>2, <1>4 DEF new
  <2>2. \A i \in stays : contact'[i] \in Row
    BY <1>2, <1>4
  <2>3. ASSUME NEW i \in written \cup new
        PROVE  contact'[i] \in Row
    <3>1. number[i] \in Number /\ contact'[i] = [user |-> u, number |-> number[i]]
      BY <1>1, <1>4
    <3> QED
      BY <3>1 DEF Row
  <2>4. contact' \in [DOMAIN contact' -> Row]
    <3>1. \A i \in DOMAIN contact' : contact'[i] \in Row
      BY <1>4, <2>2, <2>3
    <3>2. contact' = [i \in DOMAIN contact' |-> contact'[i]]
      BY <1>1
    <3> QED
      BY <3>1, <3>2
  <2> QED
    BY <1>5, <1>6, <2>1, <2>4 DEF CInv, ContactsTypeOK, ProfilesTypeOK
<1>8. NumberOnce'
  <2> SUFFICES ASSUME NEW i \in DOMAIN contact', NEW j \in DOMAIN contact', contact'[i] = contact'[j]
               PROVE  i = j
    BY DEF NumberOnce
  <2>1. ASSUME NEW a \in stays, NEW b \in written \cup new, contact'[a] = contact'[b]
        PROVE  FALSE
    <3>1. contact[a] = [user |-> u, number |-> number[b]]
      BY <1>4, <2>1
    <3>2. contact[a].user = u /\ contact[a].number = number[b]
      BY <3>1
    <3>3. a \in List(u) \ written
      BY <3>2 DEF List
    <3>4. number[b] \in Numbers(List(u)) /\ number[b] \in Numbers(List(u) \ written)
      BY <3>2, <3>3 DEF Numbers
    <3> QED
      BY <1>1, <3>4 DEF Unique
  <2>2. CASE i \in stays /\ j \in stays
    BY <1>4, <2>2 DEF CInv, NumberOnce
  <2>3. CASE i \in written \cup new /\ j \in written \cup new
    <3>1. [user |-> u, number |-> number[i]] = [user |-> u, number |-> number[j]]
      BY <1>4, <2>3
    <3>2. number[i] = number[j]
      BY <3>1
    <3> QED
      BY <1>1, <2>3, <3>2
  <2> QED
    BY <1>4, <2>1, <2>2, <2>3
<1>9. \A i \in written \cup new : contact'[i].user = u
  <2> SUFFICES ASSUME NEW i \in written \cup new
               PROVE  contact'[i].user = u
    OBVIOUS
  <2>1. contact'[i] = [user |-> u, number |-> number[i]]
    BY <1>4
  <2> QED
    BY <2>1
<1>10. List(u)' = (List(u) \ removed) \cup written \cup new
  BY <1>4, <1>9 DEF List
<1>11. ASSUME NEW v \in Users \ {u}
       PROVE  /\ List(v)' = List(v) \ (removed \cup written)
              /\ \A i \in List(v)' : contact'[i] = contact[i]
  BY <1>4, <1>9 DEF List
<1> QED
  BY <1>6, <1>7, <1>8, <1>10, <1>11 DEF CInv, ProfileAccounting, new

\* updateProfile refused or without contacts, or with some.
LEMMA ReplaceCases ==
  ASSUME CInv, NEW t \in Threads, NEW u \in Users, ReplaceCommit(t), u = thread[t].user
  PROVE  /\ CInv' /\ thread'[t] = Idle
         /\ \A v \in Users \ {u} : own'[v] = own[v]
         /\ \/ contact' = contact
            \/ /\ \E sent \in SUBSET (1 .. lastId), n \in 0 .. MaxContacts :
                    \E written \in SUBSET sent :
                      /\ Cardinality(sent) + n \in 1 .. MaxContacts
                      /\ (sent \ thread[t].list) \cup (sent \cap List(u)) \subseteq written
                      /\ List(u)' = (List(u) \ (thread[t].list \ sent)) \cup written
                                       \cup (lastId + 1 .. lastId + n)
               /\ \A v \in Users \ {u} : /\ List(v)' \subseteq List(v)
                                         /\ \A i \in List(v)' : contact'[i] = contact[i]
<1> DEFINE list == thread[t].list
<1>1. CASE Refused(t)
  BY <1>1, RefusedKeeps DEF Refused, profileVars
<1>2. CASE ~Refused(t)
  <2>1. PICK phone \in Phones : own' = [own EXCEPT ![u] = phone]
    BY <1>2 DEF ReplaceCommit
  <2>2. /\ Finish(t) /\ UNCHANGED <<profile, waiting>>
        /\ \A v \in Users \ {u} : own'[v] = own[v]
    BY <1>2, <2>1 DEF ReplaceCommit, CInv, ContactsTypeOK, ProfilesTypeOK
  <2>3. CASE UNCHANGED <<contact, lastId>>
    BY <2>1, <2>2, <2>3, ProfileEffect
  <2>4. CASE ~UNCHANGED <<contact, lastId>>
    <3>1. PICK sent \in SUBSET KnownIds(t), n \in 0 .. MaxContacts :
            \E written \in SUBSET (sent \cap DOMAIN contact) :
              /\ Cardinality(sent) + n \in 1 .. MaxContacts
              /\ (sent \ list) \cup (sent \cap List(u)) \subseteq written
              /\ list \ sent \subseteq DOMAIN contact
              /\ Replaced(u, list \ sent, written, n)
      BY <1>2, <2>4 DEF ReplaceCommit
    <3>2. PICK written \in SUBSET (sent \cap DOMAIN contact) :
              /\ Cardinality(sent) + n \in 1 .. MaxContacts
              /\ (sent \ list) \cup (sent \cap List(u)) \subseteq written
              /\ list \ sent \subseteq DOMAIN contact
              /\ Replaced(u, list \ sent, written, n)
      BY <3>1
    <3>3. n \in Nat /\ sent \in SUBSET (1 .. lastId)
      <4>1. thread[t].last \in 0 .. lastId /\ lastId \in Nat
        BY Fields DEF ReplaceCommit, CInv, ContactsTypeOK
      <4> QED
        BY <4>1, ContactsAssumption DEF KnownIds
    <3>4. PICK removed \in SUBSET DOMAIN contact : removed = list \ sent
      BY <3>2
    <3>5. /\ removed \subseteq DOMAIN contact
          /\ written \subseteq DOMAIN contact \ removed
          /\ ReplacedBy(t, u, phone, removed, written, n)
      BY <2>1, <2>2, <3>2, <3>4 DEF ReplacedBy
    <3>6. /\ CInv' /\ thread'[t] = Idle
          /\ List(u)' = (List(u) \ removed) \cup written \cup (lastId + 1 .. lastId + n)
          /\ \A v \in Users \ {u} : /\ List(v)' = List(v) \ (removed \cup written)
                                    /\ \A i \in List(v)' : contact'[i] = contact[i]
      <4>1. CInv'
        BY <3>3, <3>5, ReplaceEffect
      <4>2. thread'[t] = Idle
        BY <3>3, <3>5, ReplaceEffect
      <4>3. List(u)' = (List(u) \ removed) \cup written \cup (lastId + 1 .. lastId + n)
        BY <3>3, <3>5, ReplaceEffect
      <4>4. \A v \in Users \ {u} : /\ List(v)' = List(v) \ (removed \cup written)
                                    /\ \A i \in List(v)' : contact'[i] = contact[i]
        BY <3>3, <3>5, ReplaceEffect
      <4> QED
        BY <4>1, <4>2, <4>3, <4>4
    <3>7. written \in SUBSET sent
      OBVIOUS
    <3>8. \A v \in Users \ {u} : /\ List(v)' \subseteq List(v)
                                 /\ \A i \in List(v)' : contact'[i] = contact[i]
      BY <3>6
    <3> QED
      BY <2>2, <3>2, <3>3, <3>4, <3>6, <3>7, <3>8
  <2> QED
    BY <2>3, <2>4
<1> QED
  BY <1>1, <1>2

LEMMA RewriteEffect ==
  ASSUME CInv, NEW t \in Threads, RewriteCommit(t)
  PROVE  /\ CInv' /\ thread'[t] = Idle
         /\ \A v \in Users : List(v)' = List(v)
<1>1. thread[t].user \in Users /\ thread[t].own \in Phones
  BY Fields DEF RewriteCommit
<1> QED
  BY <1>1, ProfileEffect DEF RewriteCommit

--------------------------------------------------------------------------------
(* The theorems.                                                            *)

LEMMA InitInv == ASSUME ContactsInit PROVE CInv
<1>1. ProfilesTypeOK /\ ProfileAccounting
  <2>1. profile \in [Users -> BOOLEAN]
    BY DEF ContactsInit, ProfilesInit
  <2>2. own \in [Users -> Phones] /\ waiting \subseteq Users
    BY DEF ContactsInit, ProfilesInit
  <2>3. ProfileAccounting
    BY DEF ContactsInit, ProfilesInit, ProfileAccounting
  <2> QED
    BY <2>1, <2>2, <2>3 DEF ProfilesTypeOK
<1>2. DOMAIN contact = {} /\ contact \in [DOMAIN contact -> Row]
  BY DEF ContactsInit
<1>3. \A t \in Threads : thread[t] \in Request /\ Checked(thread[t])
  BY IdleRequest DEF ContactsInit
<1>4. thread \in [Threads -> Request]
  BY <1>3 DEF ContactsInit
<1>5. lastId \in Nat
  BY DEF ContactsInit
<1> QED
  BY <1>1, <1>2, <1>3, <1>4, <1>5 DEF CInv, ContactsTypeOK, NumberOnce

LEMMA StepInv == ASSUME CInv, [ContactsNext]_vars PROVE CInv'
<1>1. ASSUME NEW t \in Threads, AddCommit(t) \/ DeleteCommit(t) \/ UpdateCommit(t)
      PROVE  CInv'
  BY <1>1, AddEffect, DeleteEffect, UpdateEffect, RefusedKeeps
<1>5. ASSUME NEW t \in Threads, ReplaceCommit(t)
      PROVE  CInv'
  <2>1. PICK u \in Users : u = thread[t].user
    BY <1>5, Fields DEF ReplaceCommit
  <2> QED
    BY <1>5, <2>1, ReplaceCases
<1>2. CASE ContactStep
  BY <1>1, <1>2, <1>5, ReadsKeep, RewriteEffect DEF ContactStep
<1>3. CASE ConsumerStep /\ UNCHANGED contactVars
  <2>1. ProfilesTypeOK' /\ ProfileAccounting'
    BY <1>3, ConsumerKeeps DEF CInv, ContactsTypeOK
  <2> QED
    BY <1>3, <2>1 DEF CInv, ContactsTypeOK, NumberOnce, Checked, Request, contactVars
<1>4. CASE UNCHANGED vars
  BY <1>4 DEF vars, CInv, ContactsTypeOK, ProfilesTypeOK, ProfileAccounting, NumberOnce, Checked,
              Request
<1> QED
  BY <1>2, <1>3, <1>4 DEF ContactsNext

\* The types, what requests have checked and what the consumer still owes are
\* kept by every step, for any number of users, requests and contacts.
THEOREM ContactsInductive == ContactsSpec => []CInv
  BY InitInv, StepInv, PTL DEF ContactsSpec

\* Profiles, contacts and requests keep their types; an id is never given twice.
THEOREM ContactsTypeCorrect == ContactsSpec => []ContactsTypeOK
<1>1. CInv => ContactsTypeOK
  BY DEF CInv
<1> QED
  BY <1>1, ContactsInductive, PTL

\* A user whose message arrived has a profile, or the message waits for another
\* attempt, however often attempts fail and consumers are killed.
THEOREM ProfileAccounted == ContactsSpec => []ProfileAccounting
<1>1. CInv => ProfileAccounting
  BY DEF CInv
<1> QED
  BY <1>1, ContactsInductive, PTL

\* A profile never has the same number twice, although requests check that
\* before they write.
THEOREM NumbersOnce == ContactsSpec => []NumberOnce
<1>1. CInv => NumberOnce
  BY DEF CInv
<1> QED
  BY <1>1, ContactsInductive, PTL

LEMMA ListFinite ==
  ASSUME CInv, NEW u \in Users
  PROVE  IsFiniteSet(List(u)) /\ Cardinality(List(u)) \in Nat
<1>1. List(u) \subseteq 1 .. lastId /\ lastId \in Nat
  BY DEF CInv, ContactsTypeOK, List
<1>2. IsFiniteSet(1 .. lastId)
  BY <1>1, FS_Interval
<1> QED
  BY <1>1, <1>2, FS_Subset, FS_CardinalityType

\* Only the commit of a request changes a list.
LEMMA ListStep ==
  ASSUME CInv, [ContactsNext]_vars, NEW u \in Users, List(u)' # List(u)
  PROVE  \E t \in Threads :
           \/ (AddCommit(t) \/ DeleteCommit(t) \/ UpdateCommit(t)) /\ ~Refused(t)
           \/ ReplaceCommit(t)
<1>1. contact' # contact
  BY DEF List
<1>2. PICK t \in Threads :
        AddCommit(t) \/ DeleteCommit(t) \/ UpdateCommit(t) \/ ReplaceCommit(t)
  BY <1>1 DEF ContactsNext, ContactStep, AddRead, DeleteRead, UpdateRead, ReplaceRead, RewriteRead,
              RewriteCommit, Begin, contactVars, vars
<1>3. ~Refused(t)
  BY <1>1 DEF Refused
<1> QED
  BY <1>2, <1>3

\* The list of another user never grows by a new list or an update.
LEMMA OthersShrink ==
  ASSUME CInv, NEW t \in Threads, NEW u \in Users, thread[t].user # u,
         (UpdateCommit(t) /\ ~Refused(t)) \/ ReplaceCommit(t)
  PROVE  /\ List(u)' \subseteq List(u) /\ own'[u] = own[u]
         /\ \A i \in List(u)' : contact'[i] = contact[i]
<1>1. CASE UpdateCommit(t) /\ ~Refused(t)
  BY <1>1, UpdateEffect DEF List
<1>2. CASE ReplaceCommit(t)
  <2>1. PICK w \in Users : w = thread[t].user
    BY <1>2, Fields DEF ReplaceCommit
  <2>2. CASE contact' = contact
    BY <1>2, <2>1, <2>2, ReplaceCases DEF List
  <2>3. CASE contact' # contact
    BY <1>2, <2>1, <2>3, ReplaceCases
  <2> QED
    BY <2>2, <2>3
<1> QED
  BY <1>1, <1>2

\* A new list is within the limit if the request knew all of the old one: what
\* is left of that is among the contacts sent.
LEMMA ReplaceWithinLimit ==
  ASSUME CInv, NEW t \in Threads, NEW u \in Users, ReplaceCommit(t), u = thread[t].user,
         List(u) \subseteq thread[t].list, List(u)' # List(u)
  PROVE  Cardinality(List(u)') <= MaxContacts
<1>1. contact' # contact
  BY DEF List
<1>2. PICK sent \in SUBSET (1 .. lastId), n \in 0 .. MaxContacts :
        \E written \in SUBSET sent :
          /\ Cardinality(sent) + n \in 1 .. MaxContacts
          /\ (sent \ thread[t].list) \cup (sent \cap List(u)) \subseteq written
          /\ List(u)' = (List(u) \ (thread[t].list \ sent)) \cup written
                           \cup (lastId + 1 .. lastId + n)
  BY <1>1, ReplaceCases
<1> DEFINE new == lastId + 1 .. lastId + n
<1>3. List(u)' \subseteq sent \cup new
  BY <1>2
<1>4. lastId \in Nat /\ MaxContacts \in Nat /\ n \in Nat
  BY ContactsAssumption DEF CInv, ContactsTypeOK
<1>5. IsFiniteSet(sent) /\ Cardinality(sent) \in Nat
  <2>1. IsFiniteSet(1 .. lastId)
    BY <1>4, FS_Interval
  <2> QED
    BY <2>1, FS_Subset, FS_CardinalityType
<1>6. IsFiniteSet(new) /\ Cardinality(new) = n
  <2>1. lastId + 1 \in Int /\ lastId + n \in Int
    BY <1>4
  <2>2. /\ IsFiniteSet(new)
        /\ Cardinality(new) = IF lastId + 1 > lastId + n THEN 0 ELSE (lastId + n) - (lastId + 1) + 1
    BY <2>1, FS_Interval, Zenon
  <2> QED
    BY <1>4, <2>1, <2>2
<1> HIDE DEF new
<1>7. Cardinality(sent \cap new) \in Nat
  BY <1>5, FS_Subset, FS_CardinalityType
<1>8. /\ IsFiniteSet(sent \cup new)
      /\ Cardinality(sent \cup new) = Cardinality(sent) + Cardinality(new) - Cardinality(sent \cap new)
  BY <1>5, <1>6, FS_Union
<1>9. Cardinality(List(u)') <= Cardinality(sent \cup new) /\ Cardinality(List(u)') \in Nat
  BY <1>3, <1>8, FS_Subset, FS_CardinalityType
<1> QED
  BY <1>2, <1>4, <1>5, <1>6, <1>7, <1>8, <1>9

\* A new list is not empty if the request knew exactly the old one: at least one
\* contact is sent, and what is sent is written or already there.
LEMMA ReplaceLeavesOne ==
  ASSUME CInv, NEW t \in Threads, NEW u \in Users, ReplaceCommit(t), u = thread[t].user,
         thread[t].list = List(u), List(u) # {}
  PROVE  List(u)' # {}
<1> SUFFICES ASSUME List(u)' = {}
             PROVE  FALSE
  OBVIOUS
<1>1. contact' # contact
  BY DEF List
<1>2. PICK sent \in SUBSET (1 .. lastId), n \in 0 .. MaxContacts :
        \E written \in SUBSET sent :
          /\ Cardinality(sent) + n \in 1 .. MaxContacts
          /\ (sent \ thread[t].list) \cup (sent \cap List(u)) \subseteq written
          /\ List(u)' = (List(u) \ (thread[t].list \ sent)) \cup written
                           \cup (lastId + 1 .. lastId + n)
  BY <1>1, ReplaceCases
<1>3. sent = {} /\ lastId + 1 .. lastId + n = {}
  BY <1>2
<1>4. Cardinality(sent) = 0
  BY <1>3, FS_EmptySet
<1>5. n \in Nat /\ lastId \in Nat /\ MaxContacts \in Nat
  BY ContactsAssumption DEF CInv, ContactsTypeOK
<1>6. n >= 1
  BY <1>2, <1>4, <1>5
<1>7. lastId + 1 \in lastId + 1 .. lastId + n
  BY <1>5, <1>6
<1> QED
  BY <1>3, <1>7

LEMMA LimitStep ==
  ASSUME CInv, [ContactsNext]_vars, NEW u \in Users,
         Cardinality(List(u)') > MaxContacts, Cardinality(List(u)) <= MaxContacts
  PROVE  \E t \in Threads : /\ Finished(t) /\ thread[t].pc \in {"add", "update", "replace"}
                            /\ thread[t].user = u /\ Overtaken(t)
<1>0. IsFiniteSet(List(u)) /\ Cardinality(List(u)) \in Nat /\ MaxContacts \in Nat
  BY ListFinite, ContactsAssumption
<1>1. ~(List(u)' \subseteq List(u))
  <2> SUFFICES ASSUME List(u)' \subseteq List(u)
               PROVE  FALSE
    OBVIOUS
  <2>1. Cardinality(List(u)') <= Cardinality(List(u)) /\ Cardinality(List(u)') \in Nat
    BY <1>0, FS_Subset, FS_CardinalityType
  <2> QED
    BY <1>0, <2>1
<1>2. PICK t \in Threads :
        \/ (AddCommit(t) \/ DeleteCommit(t) \/ UpdateCommit(t)) /\ ~Refused(t)
        \/ ReplaceCommit(t)
  BY <1>1, ListStep
<1>3. CASE AddCommit(t) /\ ~Refused(t)
  <2>1. /\ thread[t].pc = "add" /\ thread[t] # Idle /\ thread'[t] = Idle
        /\ List(u)' = IF u = thread[t].user THEN List(u) \cup {lastId + 1} ELSE List(u)
        /\ Cardinality(thread[t].list) < MaxContacts
    BY <1>3, AddEffect, Fields DEF AddCommit, Checked
  <2>2. thread[t].user = u /\ List(u)' = List(u) \cup {lastId + 1}
    BY <1>1, <2>1
  <2>3. /\ Cardinality(List(u)') <= Cardinality(List(u)) + 1
        /\ Cardinality(List(u)') \in Nat
    <3>1. Cardinality(List(u) \cup {lastId + 1})
            = IF lastId + 1 \in List(u) THEN Cardinality(List(u)) ELSE Cardinality(List(u)) + 1
      BY <1>0, FS_AddElement, Zenon
    <3>2. Cardinality(List(u)') = Cardinality(List(u) \cup {lastId + 1})
      BY <2>2
    <3> QED
      BY <1>0, <3>1, <3>2
  <2>4. thread[t].list # List(u)
    BY <1>0, <2>1, <2>3
  <2> QED
    BY <2>1, <2>2, <2>4 DEF Finished, Overtaken
<1>4. CASE DeleteCommit(t) /\ ~Refused(t)
  BY <1>1, <1>4, DeleteEffect
<1>5. CASE UpdateCommit(t) /\ ~Refused(t)
  <2>1. /\ thread[t].pc = "update" /\ thread[t] # Idle /\ thread'[t] = Idle
        /\ List(u)' = IF u = thread[t].user THEN List(u) \cup {thread[t].id}
                                            ELSE List(u) \ {thread[t].id}
    BY <1>5, UpdateEffect, Fields DEF UpdateCommit
  <2> QED
    BY <1>1, <2>1 DEF Finished, Overtaken
<1>6. CASE ReplaceCommit(t)
  <2>1. thread[t].user = u
    BY <1>1, <1>6, OthersShrink
  <2>2. thread[t].pc = "replace" /\ thread[t] # Idle /\ thread'[t] = Idle
    BY <1>6, <2>1, ReplaceCases, Fields DEF ReplaceCommit
  <2>3. thread[t].list # List(u)
    <3> SUFFICES ASSUME thread[t].list = List(u)
                 PROVE  FALSE
      OBVIOUS
    <3>1. Cardinality(List(u)') <= MaxContacts
      BY <1>1, <1>6, <2>1, ReplaceWithinLimit
    <3>2. List(u)' \subseteq 1 .. lastId' /\ lastId' \in Nat
      <4>1. CInv'
        BY StepInv
      <4> QED
        BY <4>1 DEF CInv, ContactsTypeOK, List
    <3>3. IsFiniteSet(1 .. lastId')
      BY <3>2, FS_Interval
    <3>4. Cardinality(List(u)') \in Nat
      BY <3>2, <3>3, FS_Subset, FS_CardinalityType
    <3> QED
      BY <1>0, <3>1, <3>4
  <2> QED
    BY <2>1, <2>2, <2>3 DEF Finished, Overtaken
<1> QED
  BY <1>2, <1>3, <1>4, <1>5, <1>6

\* The limit of a list is only broken by a request of its user whose list, or
\* the contact read in it, has changed since it was read.
THEOREM LimitLoss == ContactsSpec => LimitLostToOverlap
<1>1. CInv /\ [ContactsNext]_vars =>
        [\A u \in Users :
           Cardinality(List(u)') > MaxContacts /\ Cardinality(List(u)) <= MaxContacts =>
             \E t \in Threads : /\ Finished(t) /\ thread[t].pc \in {"add", "update", "replace"}
                                /\ thread[t].user = u /\ Overtaken(t)]_vars
  BY LimitStep
<1> QED
  BY <1>1, ContactsInductive, PTL DEF ContactsSpec, LimitLostToOverlap

LEMMA LastContactStep ==
  ASSUME CInv, [ContactsNext]_vars, NEW u \in Users, List(u) # {}, List(u)' = {}
  PROVE  \E t \in Threads :
           /\ Finished(t)
           /\ \/ thread[t].pc \in {"delete", "replace"} /\ (thread[t].user # u \/ Overtaken(t))
              \/ thread[t].pc = "update" /\ thread[t].user # u /\ Overtaken(t)
<1>1. PICK t \in Threads :
        \/ (AddCommit(t) \/ DeleteCommit(t) \/ UpdateCommit(t)) /\ ~Refused(t)
        \/ ReplaceCommit(t)
  BY ListStep
<1>2. CASE AddCommit(t) /\ ~Refused(t)
  BY <1>2, AddEffect
<1>3. CASE DeleteCommit(t) /\ ~Refused(t)
  <2>1. /\ thread[t].pc = "delete" /\ thread[t] # Idle /\ thread'[t] = Idle
        /\ List(u)' = List(u) \ {thread[t].id}
        /\ Cardinality(thread[t].list) > 1
    BY <1>3, DeleteEffect, Fields DEF DeleteCommit, Checked
  <2>2. List(u) = {thread[t].id}
    BY <2>1
  <2>3. Cardinality(List(u)) = 1
    BY <2>2, FS_Singleton
  <2>4. thread[t].list # List(u)
    BY <2>1, <2>3
  <2> QED
    BY <2>1, <2>4 DEF Finished, Overtaken
<1>4. CASE UpdateCommit(t) /\ ~Refused(t)
  <2>1. /\ thread[t].pc = "update" /\ thread[t] # Idle /\ thread'[t] = Idle
        /\ List(u)' = IF u = thread[t].user THEN List(u) \cup {thread[t].id}
                                            ELSE List(u) \ {thread[t].id}
    BY <1>4, UpdateEffect, Fields DEF UpdateCommit
  <2>2. thread[t].user # u /\ thread[t].id \in List(u)
    BY <2>1
  <2>3. thread[t].id \notin List(thread[t].user)
    BY <2>2 DEF List
  <2> QED
    BY <2>1, <2>2, <2>3 DEF Finished, Overtaken
<1>5. CASE ReplaceCommit(t)
  <2>1. PICK w \in Users : w = thread[t].user
    BY <1>5, Fields DEF ReplaceCommit
  <2>2. thread[t].pc = "replace" /\ thread[t] # Idle /\ thread'[t] = Idle
    BY <1>5, <2>1, ReplaceCases, Fields DEF ReplaceCommit
  <2>3. thread[t].user = u => thread[t].list # List(u)
    BY <1>5, ReplaceLeavesOne
  <2> QED
    BY <2>2, <2>3 DEF Finished, Overtaken
<1> QED
  BY <1>1, <1>2, <1>3, <1>4, <1>5

\* A user loses the last contact only by requests that were overtaken, or by a
\* deletion or a new list of another profile, which is asked for no ownership.
THEOREM LastContactLoss == ContactsSpec => LastContactLostToOverlap
<1>1. CInv /\ [ContactsNext]_vars =>
        [\A u \in Users :
           List(u) # {} /\ List(u)' = {} =>
             \E t \in Threads :
               /\ Finished(t)
               /\ \/ thread[t].pc \in {"delete", "replace"} /\ (thread[t].user # u \/ Overtaken(t))
                  \/ thread[t].pc = "update" /\ thread[t].user # u /\ Overtaken(t)]_vars
  BY LastContactStep
<1> QED
  BY <1>1, ContactsInductive, PTL DEF ContactsSpec, LastContactLostToOverlap

LEMMA OwnPhoneStep ==
  ASSUME CInv, [ContactsNext]_vars, NEW u \in Users, ~OwnListed(u), OwnListed(u)'
  PROVE  \E t \in Threads :
           /\ Finished(t) /\ thread[t].user = u
           /\ \/ thread[t].pc \in {"add", "update"} /\ thread[t].own # own[u]
              \/ thread[t].pc \in {"replace", "rewrite"}
<1>1. PICK i \in List(u)' : contact'[i].number[1] = own'[u]
  BY DEF OwnListed
<1>2. ~(own' = own /\ contact' = contact)
  BY DEF OwnListed, List
<1>3. PICK t \in Threads :
        \/ (AddCommit(t) \/ DeleteCommit(t) \/ UpdateCommit(t)) /\ ~Refused(t)
        \/ ReplaceCommit(t) \/ RewriteCommit(t)
  <2>0. ~(ConsumerStep /\ UNCHANGED contactVars)
    BY <1>2, ConsumerKeeps DEF CInv, ContactsTypeOK, contactVars
  <2>1. ContactStep
    BY <1>2, <2>0 DEF ContactsNext, vars
  <2>2. PICK t \in Threads :
          AddCommit(t) \/ DeleteCommit(t) \/ UpdateCommit(t) \/ ReplaceCommit(t) \/ RewriteCommit(t)
    BY <1>2, <2>1 DEF ContactStep, AddRead, DeleteRead, UpdateRead, ReplaceRead, RewriteRead,
                      Begin, profileVars
  <2>3. ~Refused(t)
    BY <1>2 DEF Refused, profileVars
  <2> QED
    BY <2>2, <2>3
<1>4. CASE AddCommit(t) /\ ~Refused(t)
  <2>1. /\ thread[t].pc = "add" /\ Finished(t) /\ own' = own
        /\ thread[t].phone # thread[t].own
    BY <1>4, AddEffect, Fields DEF AddCommit, Checked, Finished
  <2>2. i \notin List(u)
    BY <1>1, <1>4, <2>1, AddEffect DEF OwnListed, List
  <2>3. i = lastId + 1 /\ thread[t].user = u
    BY <1>1, <1>4, <2>2, AddEffect
  <2>4. contact'[i].number = Normal(thread[t].phone)
    BY <1>4, <2>3, AddEffect
  <2>5. thread[t].phone = own[u]
    BY <1>1, <2>1, <2>4 DEF Normal
  <2> QED
    BY <2>1, <2>3, <2>5
<1>5. CASE DeleteCommit(t) /\ ~Refused(t)
  <2>1. i \in List(u) /\ contact'[i] = contact[i] /\ own' = own
    BY <1>1, <1>5, DeleteEffect DEF List
  <2> QED
    BY <1>1, <2>1 DEF OwnListed
<1>8. ASSUME thread[t].user # u, (UpdateCommit(t) /\ ~Refused(t)) \/ ReplaceCommit(t)
      PROVE  FALSE
  <2>1. i \in List(u) /\ contact'[i] = contact[i] /\ own'[u] = own[u]
    BY <1>1, <1>8, OthersShrink
  <2> QED
    BY <1>1, <2>1 DEF OwnListed
<1>6. CASE UpdateCommit(t) /\ ~Refused(t)
  <2>1. /\ thread[t].pc = "update" /\ Finished(t) /\ own' = own
        /\ thread[t].phone # thread[t].own
    BY <1>6, UpdateEffect, Fields DEF UpdateCommit, Checked, Finished
  <2>2. thread[t].user = u
    BY <1>6, <1>8
  <2>3. i = thread[t].id
    <3> SUFFICES ASSUME i # thread[t].id
                 PROVE  FALSE
      OBVIOUS
    <3>1. i \in List(u) /\ contact'[i] = contact[i]
      BY <1>1, <1>6, <2>2, UpdateEffect DEF List
    <3> QED
      BY <1>1, <2>1, <3>1 DEF OwnListed
  <2>4. contact'[i].number = Normal(thread[t].phone)
    BY <1>6, <2>3, UpdateEffect
  <2>5. thread[t].phone = own[u]
    BY <1>1, <2>1, <2>4 DEF Normal
  <2> QED
    BY <2>1, <2>2, <2>5
<1>7. CASE ReplaceCommit(t)
  <2>1. thread[t].user = u
    BY <1>7, <1>8
  <2> QED
    BY <1>7, <2>1, ReplaceCases, Fields DEF ReplaceCommit, Finished
<1>9. CASE RewriteCommit(t)
  <2>1. thread[t].pc = "rewrite" /\ Finished(t) /\ List(u)' = List(u) /\ contact' = contact
    BY <1>9, RewriteEffect, Fields DEF RewriteCommit, Finished
  <2>2. thread[t].user # u => own'[u] = own[u]
    BY <1>9 DEF RewriteCommit, CInv, ContactsTypeOK, ProfilesTypeOK
  <2> QED
    BY <1>1, <2>1, <2>2 DEF OwnListed
<1> QED
  BY <1>3, <1>4, <1>5, <1>6, <1>7, <1>9

\* A user's own phone comes among the contacts only by a request that read
\* another phone as the own one, or when the profile is written.
THEOREM OwnPhoneLoss == ContactsSpec => OwnPhoneLostToOverlap
<1>1. CInv /\ [ContactsNext]_vars =>
        [\A u \in Users :
           ~OwnListed(u) /\ OwnListed(u)' =>
             \E t \in Threads :
               /\ Finished(t) /\ thread[t].user = u
               /\ \/ thread[t].pc \in {"add", "update"} /\ thread[t].own # own[u]
                  \/ thread[t].pc \in {"replace", "rewrite"}]_vars
  BY OwnPhoneStep
<1> QED
  BY <1>1, ContactsInductive, PTL DEF ContactsSpec, OwnPhoneLostToOverlap

--------------------------------------------------------------------------------
(* The limit, when requests take turns. Nothing in the code makes them do   *)
(* so: the theorem says what a lock on the profile, taken by addContact,    *)
(* updateContact and updateProfile alone, would be enough for.              *)

Growing(t) == thread[t].pc \in {"add", "update", "replace"}

\* Requests that may add to the contacts of a user follow one another.
TakeTurns ==
  \A s, t \in Threads : Growing(s) /\ Growing(t) /\ thread[s].user = thread[t].user => s = t

WithinLimit == \A u \in Users : Cardinality(List(u)) <= MaxContacts

\* The list that a request of u has read may since have lost contacts but got
\* none, and with the contact that it updates it is within the limit.
Known(r, u) ==
  /\ r.pc \in {"add", "replace"} => List(u) \subseteq r.list
  /\ r.pc = "update" => Cardinality(List(u) \cup {r.id}) <= MaxContacts

ReadAll == \A t \in Threads, u \in Users : thread[t].user = u /\ Growing(t) => Known(thread[t], u)

\* A list grows only by a request that may add to it, and within the limit if
\* that request knew the list.
LEMMA GrowthStep ==
  ASSUME CInv, [ContactsNext]_vars, NEW u \in Users, ~(List(u)' \subseteq List(u))
  PROVE  \E s \in Threads :
           /\ Growing(s) /\ thread[s].user = u /\ thread'[s] = Idle
           /\ Known(thread[s], u) => Cardinality(List(u)') <= MaxContacts
<1>0. IsFiniteSet(List(u)) /\ Cardinality(List(u)) \in Nat /\ MaxContacts \in Nat /\ lastId \in Nat
  BY ListFinite, ContactsAssumption DEF CInv, ContactsTypeOK
<1>1. PICK s \in Threads :
        \/ (AddCommit(s) \/ DeleteCommit(s) \/ UpdateCommit(s)) /\ ~Refused(s)
        \/ ReplaceCommit(s)
  BY ListStep
<1>2. CASE AddCommit(s) /\ ~Refused(s)
  <2>1. /\ thread[s].pc = "add" /\ thread'[s] = Idle
        /\ List(u)' = IF u = thread[s].user THEN List(u) \cup {lastId + 1} ELSE List(u)
        /\ thread[s].list \in SUBSET (1 .. lastId)
        /\ Cardinality(thread[s].list) < MaxContacts
    BY <1>2, AddEffect, Fields DEF AddCommit, Checked
  <2>2. thread[s].user = u /\ List(u)' = List(u) \cup {lastId + 1}
    BY <2>1
  <2>3. ASSUME List(u) \subseteq thread[s].list
        PROVE  Cardinality(List(u)') <= MaxContacts
    <3>1. IsFiniteSet(1 .. lastId)
      BY <1>0, FS_Interval
    <3>2. IsFiniteSet(thread[s].list) /\ Cardinality(thread[s].list) \in Nat
      BY <2>1, <3>1, FS_Subset, FS_CardinalityType
    <3>3. Cardinality(List(u)) <= Cardinality(thread[s].list)
      BY <2>3, <3>2, FS_Subset
    <3>4. Cardinality(List(u) \cup {lastId + 1})
            = IF lastId + 1 \in List(u) THEN Cardinality(List(u)) ELSE Cardinality(List(u)) + 1
      BY <1>0, FS_AddElement, Zenon
    <3>5. Cardinality(List(u)') = Cardinality(List(u) \cup {lastId + 1})
      BY <2>2
    <3> QED
      BY <1>0, <2>1, <3>2, <3>3, <3>4, <3>5
  <2> QED
    BY <2>1, <2>2, <2>3 DEF Growing, Known
<1>3. CASE DeleteCommit(s) /\ ~Refused(s)
  BY <1>3, DeleteEffect
<1>4. CASE UpdateCommit(s) /\ ~Refused(s)
  <2>1. /\ thread[s].pc = "update" /\ thread'[s] = Idle
        /\ List(u)' = IF u = thread[s].user THEN List(u) \cup {thread[s].id}
                                            ELSE List(u) \ {thread[s].id}
    BY <1>4, UpdateEffect DEF UpdateCommit
  <2>2. thread[s].user = u /\ List(u)' = List(u) \cup {thread[s].id}
    BY <2>1
  <2> QED
    BY <2>1, <2>2 DEF Growing, Known
<1>5. CASE ReplaceCommit(s)
  <2>1. thread[s].user = u
    BY <1>5, OthersShrink
  <2>2. thread[s].pc = "replace" /\ thread'[s] = Idle
    BY <1>5, <2>1, ReplaceCases DEF ReplaceCommit
  <2>3. List(u) \subseteq thread[s].list => Cardinality(List(u)') <= MaxContacts
    BY <1>5, <2>1, ReplaceWithinLimit
  <2> QED
    BY <2>1, <2>2, <2>3 DEF Growing, Known
<1> QED
  BY <1>1, <1>2, <1>3, <1>4, <1>5

\* A request begins with the whole list, or with a contact of it.
LEMMA BeginsWithList ==
  ASSUME CInv, [ContactsNext]_vars, NEW t \in Threads, thread'[t] # thread[t], thread'[t] # Idle
  PROVE  \E u \in Users :
           /\ contact' = contact
           /\ thread'[t].user = u
           /\ thread'[t].pc \in {"add", "delete", "replace"} => thread'[t].list = List(u)
           /\ thread'[t].pc = "update" => thread'[t].id \in List(u)
<1>1. thread \in [Threads -> Request]
  BY DEF CInv, ContactsTypeOK
<1>2. AddRead(t) \/ DeleteRead(t) \/ UpdateRead(t) \/ ReplaceRead(t) \/ RewriteRead(t)
  <2>1. PICK s \in Threads :
          \/ AddRead(s) \/ DeleteRead(s) \/ UpdateRead(s) \/ ReplaceRead(s) \/ RewriteRead(s)
          \/ Finish(s)
    BY DEF ContactsNext, ContactStep, contactVars, vars, AddCommit, DeleteCommit, UpdateCommit,
           ReplaceCommit, RewriteCommit, Refused
  <2>2. ~Finish(s)
    BY <1>1 DEF Finish
  <2>3. s = t
    BY <1>1, <2>1, <2>2 DEF AddRead, DeleteRead, UpdateRead, ReplaceRead, RewriteRead, Begin
  <2> QED
    BY <2>1, <2>2, <2>3
<1>3. ASSUME NEW r, Begin(t, r)
      PROVE  contact' = contact /\ thread'[t] = r
  BY <1>1, <1>3 DEF Begin
<1>4. CASE AddRead(t)
  BY <1>3, <1>4 DEF AddRead
<1>5. CASE ReplaceRead(t)
  BY <1>3, <1>5 DEF ReplaceRead
<1>6. CASE DeleteRead(t)
  BY <1>3, <1>6 DEF DeleteRead
<1>7. CASE UpdateRead(t)
  BY <1>3, <1>7 DEF UpdateRead
<1>8. CASE RewriteRead(t)
  BY <1>3, <1>8 DEF RewriteRead
<1> QED
  BY <1>2, <1>4, <1>5, <1>6, <1>7, <1>8

\* A request that may add to a list begins with all of it, and while it runs the
\* list does not grow.
LEMMA ReadAllStep ==
  ASSUME CInv, TakeTurns, ReadAll, WithinLimit, [ContactsNext]_vars
  PROVE  ReadAll'
<1> SUFFICES ASSUME NEW t \in Threads, NEW u \in Users, thread'[t].user = u, Growing(t)'
             PROVE  Known(thread[t], u)'
  BY DEF ReadAll
<1>0. thread \in [Threads -> Request]
  BY DEF CInv, ContactsTypeOK
<1>1. CASE thread'[t] = thread[t]
  <2>1. Growing(t) /\ thread[t].user = u /\ Known(thread[t], u)
    BY <1>1 DEF Growing, ReadAll
  <2>2. List(u)' \subseteq List(u)
    <3>1. SUFFICES ASSUME ~(List(u)' \subseteq List(u))
                   PROVE  FALSE
      OBVIOUS
    <3>2. PICK s \in Threads : Growing(s) /\ thread[s].user = u /\ thread'[s] = Idle
      BY <3>1, GrowthStep
    <3>3. s = t
      BY <2>1, <3>2 DEF TakeTurns
    <3> QED
      BY <1>1, <2>1, <3>2, <3>3 DEF Growing, Idle
  <2>3. thread[t].pc = "update" => Cardinality(List(u)' \cup {thread[t].id}) <= MaxContacts
    <3> DEFINE before == List(u) \cup {thread[t].id}
               after == List(u)' \cup {thread[t].id}
    <3>1. IsFiniteSet(before) /\ Cardinality(before) \in Nat /\ MaxContacts \in Nat
      BY ListFinite, FS_AddElement, FS_CardinalityType, ContactsAssumption
    <3>2. Cardinality(after) <= Cardinality(before) /\ Cardinality(after) \in Nat
      <4>1. after \subseteq before
        BY <2>2
      <4> HIDE DEF before, after
      <4> QED
        BY <3>1, <4>1, FS_Subset, FS_CardinalityType
    <3>3. thread[t].pc = "update" => Cardinality(before) <= MaxContacts
      BY <2>1 DEF Known
    <3> HIDE DEF before
    <3> QED
      BY <3>1, <3>2, <3>3
  <2> QED
    BY <1>1, <2>1, <2>2, <2>3 DEF Known
<1>2. CASE thread'[t] # thread[t]
  <2>1. /\ contact' = contact
        /\ thread'[t].pc \in {"add", "replace"} => thread'[t].list = List(u)
        /\ thread'[t].pc = "update" => thread'[t].id \in List(u)
    BY <1>2, BeginsWithList DEF Growing, Idle
  <2>2. List(u)' = List(u)
    BY <2>1 DEF List
  <2>3. thread'[t].pc = "update" => List(u)' \cup {thread'[t].id} = List(u)
    BY <2>1, <2>2
  <2> QED
    BY <2>1, <2>2, <2>3 DEF Known, WithinLimit
<1> QED
  BY <1>1, <1>2

LEMMA LimitKept ==
  ASSUME CInv, ReadAll, WithinLimit, [ContactsNext]_vars
  PROVE  WithinLimit'
<1> SUFFICES ASSUME NEW u \in Users
             PROVE  Cardinality(List(u)') <= MaxContacts
  BY DEF WithinLimit
<1>1. IsFiniteSet(List(u)) /\ Cardinality(List(u)) \in Nat /\ MaxContacts \in Nat
  BY ListFinite, ContactsAssumption
<1>2. CASE List(u)' \subseteq List(u)
  <2>1. Cardinality(List(u)') <= Cardinality(List(u)) /\ Cardinality(List(u)') \in Nat
    BY <1>1, <1>2, FS_Subset, FS_CardinalityType
  <2> QED
    BY <1>1, <2>1 DEF WithinLimit
<1>3. CASE ~(List(u)' \subseteq List(u))
  BY <1>3, GrowthStep DEF ReadAll
<1> QED
  BY <1>2, <1>3

\* If the requests that may add to the contacts of a user take turns, the user
\* never has more than MaxContacts, whatever deletions and whatever requests of
\* other users overlap with them: the limit of addContact and updateProfile is
\* lost only to overlaps of a user's own requests.
THEOREM LimitKeptInTurns == ContactsSpec /\ []TakeTurns => []WithinLimit
<1>1. ContactsInit => ReadAll /\ WithinLimit
  <2> SUFFICES ASSUME ContactsInit
               PROVE  ReadAll /\ WithinLimit
    OBVIOUS
  <2>1. \A u : List(u) = {}
    BY DEF ContactsInit, List
  <2>2. WithinLimit
    BY <2>1, FS_EmptySet, ContactsAssumption DEF WithinLimit
  <2> QED
    BY <2>2 DEF ContactsInit, ReadAll, Growing, Idle
<1>2. CInv /\ TakeTurns /\ ReadAll /\ WithinLimit /\ [ContactsNext]_vars => ReadAll' /\ WithinLimit'
  BY ReadAllStep, LimitKept
<1> QED
  BY <1>1, <1>2, ContactsInductive, PTL DEF ContactsSpec

--------------------------------------------------------------------------------
(* The last contact, when requests take turns, and deletions and new lists  *)
(* touch no contact of another profile, for which neither looks.            *)

Changing(t) == thread[t].pc \in {"add", "delete", "update", "replace"}

\* Requests that change the list of a user follow one another.
TakeAllTurns ==
  \A s, t \in Threads : Changing(s) /\ Changing(t) /\ thread[s].user = thread[t].user => s = t

\* deleteContact and updateProfile leave the lists of the other users alone.
KeepsToOwn ==
  \A t \in Threads :
    Finished(t) /\ thread[t].pc \in {"delete", "replace"} =>
      \A v \in Users \ {thread[t].user} : List(v)' = List(v)

\* What a request has read is still so.
ReadExactly == \A t \in Threads : ~Overtaken(t)

ContactsLeft == \A u \in Users : List(u) # {} => List(u)' # {}

LEMMA OneFinishes ==
  ASSUME CInv, [ContactsNext]_vars, NEW s \in Threads, NEW t \in Threads,
         thread'[s] # thread[s], thread'[t] # thread[t]
  PROVE  s = t
<1>1. thread \in [Threads -> Request]
  BY DEF CInv, ContactsTypeOK
<1>2. PICK q \in Threads :
        \/ AddRead(q) \/ DeleteRead(q) \/ UpdateRead(q) \/ ReplaceRead(q) \/ RewriteRead(q)
        \/ Finish(q)
  BY DEF ContactsNext, ContactStep, contactVars, vars, AddCommit, DeleteCommit, UpdateCommit,
         ReplaceCommit, RewriteCommit, Refused
<1>3. \E r : thread' = [thread EXCEPT ![q] = r]
  BY <1>2 DEF Finish, AddRead, DeleteRead, UpdateRead, ReplaceRead, RewriteRead, Begin
<1> QED
  BY <1>1, <1>3

\* A list is changed by a request of its own user.
LEMMA OwnChange ==
  ASSUME CInv, KeepsToOwn, ReadExactly, [ContactsNext]_vars, NEW u \in Users, List(u)' # List(u)
  PROVE  \E s \in Threads : Changing(s) /\ thread[s].user = u /\ thread'[s] = Idle
<1>1. PICK s \in Threads :
        \/ (AddCommit(s) \/ DeleteCommit(s) \/ UpdateCommit(s)) /\ ~Refused(s)
        \/ ReplaceCommit(s)
  BY ListStep
<1>2. CASE AddCommit(s) /\ ~Refused(s)
  BY <1>2, AddEffect DEF AddCommit, Changing
<1>3. CASE DeleteCommit(s) /\ ~Refused(s)
  <2>1. thread[s].pc = "delete" /\ thread[s] # Idle /\ thread'[s] = Idle
    BY <1>3, DeleteEffect, Fields DEF DeleteCommit
  <2> QED
    BY <2>1 DEF KeepsToOwn, Finished, Changing
<1>4. CASE UpdateCommit(s) /\ ~Refused(s)
  <2>1. /\ thread[s].pc = "update" /\ thread'[s] = Idle
        /\ List(u)' = IF u = thread[s].user THEN List(u) \cup {thread[s].id}
                                            ELSE List(u) \ {thread[s].id}
    BY <1>4, UpdateEffect DEF UpdateCommit
  <2>2. thread[s].id \in List(thread[s].user)
    BY <2>1 DEF ReadExactly, Overtaken
  <2>3. thread[s].user # u => thread[s].id \notin List(u)
    BY <2>2 DEF List
  <2> QED
    BY <2>1, <2>3 DEF Changing
<1>5. CASE ReplaceCommit(s)
  <2>1. PICK w \in Users : w = thread[s].user
    BY <1>5, Fields DEF ReplaceCommit
  <2>2. thread[s].pc = "replace" /\ thread[s] # Idle /\ thread'[s] = Idle
    BY <1>5, <2>1, ReplaceCases, Fields DEF ReplaceCommit
  <2> QED
    BY <2>2 DEF KeepsToOwn, Finished, Changing
<1> QED
  BY <1>1, <1>2, <1>3, <1>4, <1>5

LEMMA ReadExactlyStep ==
  ASSUME CInv, TakeAllTurns, KeepsToOwn, ReadExactly, [ContactsNext]_vars
  PROVE  ReadExactly'
<1> SUFFICES ASSUME NEW t \in Threads, Changing(t)'
             PROVE  ~Overtaken(t)'
  BY DEF ReadExactly, Overtaken, Changing
<1>1. CInv'
  BY StepInv
<1>2. PICK u \in Users : u = thread'[t].user
  <2>1. thread'[t] \in Request'
    BY <1>1 DEF CInv, ContactsTypeOK
  <2> QED
    BY <2>1 DEF Request, Idle, Changing
<1>3. List(thread[t].user)' = List(u)'
  BY <1>2
<1>4. CASE thread'[t] = thread[t]
  <2>1. Changing(t) /\ thread[t].user = u /\ ~Overtaken(t)
    BY <1>2, <1>4 DEF Changing, ReadExactly
  <2>2. List(u)' = List(u)
    <3>1. SUFFICES ASSUME List(u)' # List(u)
                   PROVE  FALSE
      OBVIOUS
    <3>2. PICK s \in Threads : Changing(s) /\ thread[s].user = u /\ thread'[s] = Idle
      BY <3>1, OwnChange
    <3>3. s = t
      BY <2>1, <3>2 DEF TakeAllTurns
    <3> QED
      BY <1>4, <2>1, <3>2, <3>3 DEF Changing, Idle
  <2> QED
    BY <1>3, <1>4, <2>1, <2>2 DEF Overtaken
<1>5. CASE thread'[t] # thread[t]
  <2>1. /\ contact' = contact
        /\ thread'[t].pc \in {"add", "delete", "replace"} => thread'[t].list = List(u)
        /\ thread'[t].pc = "update" => thread'[t].id \in List(u)
    BY <1>2, <1>5, BeginsWithList DEF Changing, Idle
  <2>2. List(u)' = List(u)
    BY <2>1 DEF List
  <2> QED
    BY <1>3, <2>1, <2>2 DEF Overtaken
<1> QED
  BY <1>4, <1>5

\* If the requests that change the contacts of a user take turns, and deletions
\* and new lists keep to the contacts of their own profile, who has contacts
\* keeps one, as deleteContact and updateProfile mean it. The code sees to
\* neither: each of the two is lost to what LastContactLostToOverlap names.
THEOREM ContactLeftInTurns ==
  ContactsSpec /\ []TakeAllTurns /\ [][KeepsToOwn]_vars => [][ContactsLeft]_vars
<1>1. ContactsInit => ReadExactly
  BY DEF ContactsInit, ReadExactly, Overtaken, Idle
<1>2. CInv /\ TakeAllTurns /\ [KeepsToOwn]_vars /\ ReadExactly /\ [ContactsNext]_vars
        => ReadExactly' /\ [ContactsLeft]_vars
  <2> SUFFICES ASSUME CInv, TakeAllTurns, [KeepsToOwn]_vars, ReadExactly, [ContactsNext]_vars
               PROVE  ReadExactly' /\ [ContactsLeft]_vars
    OBVIOUS
  <2>0. CASE UNCHANGED vars
    BY <2>0 DEF vars, ReadExactly, Overtaken, List
  <2>1. CASE KeepsToOwn
    <3>1. ASSUME NEW u \in Users, List(u) # {}, List(u)' = {}
          PROVE  FALSE
      <4>1. PICK t \in Threads :
              /\ Finished(t)
              /\ \/ thread[t].pc \in {"delete", "replace"} /\ (thread[t].user # u \/ Overtaken(t))
                 \/ thread[t].pc = "update" /\ thread[t].user # u /\ Overtaken(t)
        BY <3>1, LastContactStep
      <4>2. PICK s \in Threads : Changing(s) /\ thread[s].user = u /\ thread'[s] = Idle
        BY <2>1, <3>1, OwnChange
      <4>3. s = t
        BY <4>1, <4>2, OneFinishes, Fields DEF Changing, Finished
      <4> QED
        BY <4>1, <4>2, <4>3 DEF ReadExactly
    <3> QED
      BY <2>1, <3>1, ReadExactlyStep DEF ContactsLeft
  <2> QED
    BY <2>0, <2>1
<1> QED
  BY <1>1, <1>2, ContactsInductive, PTL DEF ContactsSpec
================================================================================
