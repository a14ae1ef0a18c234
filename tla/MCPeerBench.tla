---------------------------- MODULE MCPeerBench ----------------------------
(* PeerBench for TLC. *)
EXTENDS PeerBench

CONSTANTS c1, c2

MCClients == {c1, c2}

\* Two runs with the same token, and one of them with another one.
MCTrustedSets == {{c1}, {c1, c2}}

\* A transfer of two streams, after the round trip.
MCTransfers == <<2>>
MCSlots == 1..2

\* One run, alone with the server, and a transfer of three streams.
MCOneClient == {c1}
MCOneTrusted == {{c1}}
MCWide == <<3>>
MCWideSlots == 1..3
=============================================================================
