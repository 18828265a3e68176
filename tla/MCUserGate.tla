----------------------------- MODULE MCUserGate -----------------------------
(***************************************************************************)
(* A small gate: the copy buffer is 1 byte, so the smallest bucket is 4    *)
(* and the largest datagram, as in the code, is one byte short of it.      *)
(***************************************************************************)
EXTENDS UserGate

=============================================================================
