--------------------------- MODULE MCEncryptedWatch ---------------------------
(* Two watches and a few jobs, for TLC. *)
EXTENDS EncryptedWatch

MCWatches == {1, 2}
Early == /\ watches[1].created <= 2 /\ watches[2].created = 0
         /\ Cardinality({j \in Jobs : jobs[j].state # "none" /\ linked[j] = 0}) <= 1
=============================================================================
