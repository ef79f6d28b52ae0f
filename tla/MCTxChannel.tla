----------------------------- MODULE MCTxChannel -----------------------------
(***************************************************************************)
(* TxChannel on packets of three symbols, an index modulus of eight and    *)
(* two tones; the two packets differ in every symbol.                      *)
(***************************************************************************)
EXTENDS TimedChannel

MCTones   == {0, 1, 2}
MCPackets == {[i \in 0..2 |-> 1 + (i % 2)], [i \in 0..2 |-> 2 - (i % 2)]}
=============================================================================
