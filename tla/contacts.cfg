\* Two requests at a time on the lists of two users, of at most two contacts
\* each; the profile of one of the users is still to be made.
CONSTANTS
  Users = {u1, u2}
  Phones = {n1, n2}
  Registered = {u2}
  Threads = {t1, t2}
  MaxContacts = 2
  Typed = {n1}
  MaxReplaces = 1
  MaxId = 3
SPECIFICATION ContactsSpec
SYMMETRY AnyOrder
CHECK_DEADLOCK FALSE
INVARIANTS
  ContactsTypeOK
  ProfileAccounting
  NumberOnce
PROPERTIES
  LimitLostToOverlap
  LastContactLostToOverlap
  OwnPhoneLostToOverlap
