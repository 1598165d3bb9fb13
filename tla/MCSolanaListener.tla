-------------------------- MODULE MCSolanaListener --------------------------
(* The constants of the listener's instances for TLC.                       *)
EXTENDS SolanaListener

Gateway == [mentions |-> {"gateway"}, ok |-> TRUE]
Gas     == [mentions |-> {"gas"}, ok |-> TRUE]
Both    == [mentions |-> Addresses, ok |-> TRUE]
Failed  == [mentions |-> {"gateway"}, ok |-> FALSE]

AllKinds == {Gateway, Gas, Both, Failed}
OkKinds  == {Gateway, Gas, Both}
OneAddressKinds == {Gateway, Gas}
Steps01  == {0, 1}
Steps1   == {1}
=============================================================================
