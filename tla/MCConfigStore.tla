---------------------------- MODULE MCConfigStore ----------------------------
(***************************************************************************)
(* One user to start from, above the tunnel limit, and one to be added.    *)
(***************************************************************************)
EXTENDS ConfigStore

CONSTANTS u1, u2, alice, bob

MCUsers == {u1, u2}
MCAccounts == {alice, bob}
MCInitialUsers ==
    [u \in MCUsers |->
        IF u = u1 THEN [account |-> alice, limit |-> 1, used |-> 0, tunnels |-> 2]
                  ELSE Absent]
=============================================================================
