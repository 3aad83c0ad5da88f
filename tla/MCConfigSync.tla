---------------------------- MODULE MCConfigSync ----------------------------
(* Instances of ConfigSync: admin handlers on one table each, two on the   *)
(* same table, or both.                                                    *)
EXTENDS ConfigSync, TLC

CONSTANTS h1, h2, h3, i1, i2

TwoHandlers == {h1, h2}
ThreeHandlers == {h1, h2, h3}
OneTableEach == h1 :> 1 @@ h2 :> 2
SameTable == h1 :> 1 @@ h2 :> 1
RaceAndSolo == h1 :> 1 @@ h2 :> 1 @@ h3 :> 2
TwoInodes == {i1, i2}
WithFile == {i1}
WithOrWithout == {i1, NoInode}

AllFaults == {"admin_crash", "gateway_crash", "save_error", "read_error"}
GatewayFaults == {"gateway_crash"}
NoFaults == {}
=============================================================================
