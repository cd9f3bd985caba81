------------------------------ MODULE MCContacts ------------------------------
(* Symmetry of the run "contacts".                                          *)
EXTENDS EmergencyContacts, TLC

AnyOrder == Permutations(Threads)
================================================================================
