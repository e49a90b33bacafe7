------------------------------- MODULE MCOfflineSync -------------------------------
(* OfflineSync with the instances of its two configurations.               *)
EXTENDS OfflineSync

====================================================================================
