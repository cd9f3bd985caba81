----------------------------- MODULE MCSosDelivery -----------------------------
(***************************************************************************)
(* Instances of SosDelivery for TLC. The alerts are model values; the      *)
(* delivery of one message of one of them is followed.                     *)
(***************************************************************************)
EXTENDS SosDelivery, TLC

OneMessage == {<<CHOOSE a \in Alerts : TRUE, 2>>}
================================================================================
