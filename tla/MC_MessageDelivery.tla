------------------------ MODULE MC_MessageDelivery ------------------------
(* One message of alice, to bob, or to bob and carol, or to herself alone. *)
EXTENDS MessageDelivery

CONSTANTS m1, alice, bob, carol

OneMsg  == {m1}
Two     == {alice, bob}
Three   == {alice, bob, carol}
OnlyBob == {bob}
Nobody  == {}
FromAlice == [m \in Msg |-> alice]
=============================================================================
