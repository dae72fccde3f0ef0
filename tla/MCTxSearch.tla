------------------------------ MODULE MCTxSearch ------------------------------
(* Instances of TxSearch for TLC.                                             *)
EXTENDS TxSearch

\* Two rows to a block.
PairTimes == [i \in 1..MaxRows |-> (i + 1) \div 2]

=============================================================================
