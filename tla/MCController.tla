---------------------------- MODULE MCController ----------------------------
(***************************************************************************)
(* Two tunnels of one user, one of which is named anew at every save, and  *)
(* one of another, on a TCP and a UDP port.                                *)
(***************************************************************************)
EXTENDS Controller

CONSTANTS ann, bob, a1, a2, b1, tcp, udp

MCKeys == {a1, a2, b1}
MCUsers == {ann, bob}
MCOwner == [k \in MCKeys |-> IF k = b1 THEN bob ELSE ann]
MCDashed == {a2}
MCEndpoints == {tcp, udp}
MCUdp == {udp}
=============================================================================
