------------------------------ MODULE MCBroker ------------------------------
(* Broker with slots that TLC may take for one another.                    *)
EXTENDS BrokerPubSub, TLC

SlotSymmetry == Permutations(Suffixes)
=============================================================================
