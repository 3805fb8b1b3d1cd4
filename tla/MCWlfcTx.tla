------------------------------ MODULE MCWlfcTx ------------------------------
(* Small instances of WlfcTx for TLC. *)
EXTENDS WlfcTx, TLC

\* Packets are interchangeable.
PktSymmetry == Permutations(Pkt)
=============================================================================
