----------------------------- MODULE MCSessions -----------------------------
(***************************************************************************)
(* An instance of RcnDaemon with two clients, one device each, that come   *)
(* and go while the server stays: clients that are stopped, killed, or     *)
(* lose their device.                                                      *)
(***************************************************************************)
EXTENDS RcnDaemon

CONSTANTS c1, c2, k1, k2, r1

MCClients == {c1, c2}
MCRelays  == {r1}
MCDevices == [c \in MCClients |-> IF c = c1 THEN <<k1>> ELSE <<k2>>]
MCTarget  == [r \in MCRelays |-> c1]
MCCommands == [r \in MCRelays |-> {"RELAY_PAUSE", "RELAY_STOP"}]
MCKillable == {c1}
MCUnpluggable == {k1}
=============================================================================
