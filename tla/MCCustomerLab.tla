---------------------------- MODULE MCCustomerLab ----------------------------
(* CustomerLab with the constants TLC uses.                                *)
EXTENDS CustomerLab, TLC

CONSTANTS h1, h2, labA, labB, ra, rb, a1, a2, b1, alice, bob

TwoHandlers == {h1, h2}
MCSlots     == {labA, labB}
MCRealms    == {ra, rb}
MCSids      == {a1, a2, b1}
MCRealmOf   == [s \in MCSids |-> IF s = b1 THEN rb ELSE ra]
MCUsers     == {alice, bob}
MCUserOf    == [s \in MCSids |-> IF s = a2 THEN bob ELSE alice]
MCApplied   == (labA :> ra) @@ (labB :> rb)

Everything  == AllOps
LoginLogout == {"login", "callback", "localLogout"}
=============================================================================
