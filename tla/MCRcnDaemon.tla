----------------------------- MODULE MCRcnDaemon -----------------------------
(***************************************************************************)
(* Instances of RcnDaemon for TLC: one client with one device, a server,   *)
(* and two relays that talk to the client, to the server or to both.       *)
(***************************************************************************)
EXTENDS RcnDaemon

CONSTANTS c1, k1, r1, r2

MCClients == {c1}
MCRelays  == {r1, r2}
MCDevices == [c \in MCClients |-> <<k1>>]

ToClient == [r \in MCRelays |-> c1]
ToServer == [r \in MCRelays |-> Server]
ToBoth   == [r \in MCRelays |-> IF r = r1 THEN c1 ELSE Server]

\* commands of both relays, or of each
PauseThenResume == [r \in MCRelays |-> IF r = r1 THEN {"RELAY_PAUSE"} ELSE {"RELAY_RESUME"}]
OnlyPause == [r \in MCRelays |-> {"RELAY_PAUSE"}]
OneStop   == [r \in MCRelays |-> IF r = r1 THEN {"RELAY_STOP"} ELSE {}]
Commanded == [r \in MCRelays |-> IF r = r1 THEN {"RELAY_PAUSE", "RELAY_SWITCH", "RELAY_STOP"}
                                 ELSE {"RELAY_RESUME", "RELAY_SWITCH"}]
Mixed     == [r \in MCRelays |-> IF r = r1 THEN {"RELAY_IDLE", "RELAY_SWITCH", "RELAY_STOP"}
                                 ELSE RelayHeaders]
=============================================================================
