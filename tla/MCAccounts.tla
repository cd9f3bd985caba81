------------------------------ MODULE MCAccounts ------------------------------
(* Constants of the run "accounts".                                         *)
EXTENDS Accounts

\* The events about two challenges: 0 for the creation by resendOtp, then a
\* confirmation for each thread.
AllEvents == {1, 2} \X (0 .. 2)

\* The confirmations of challenge 1.
FollowedEvents == {<<1, 1>>, <<1, 2>>}
================================================================================
