-------------------------- MODULE MCP2PHandshake --------------------------
(* Instances of P2PHandshake for TLC. *)
EXTENDS P2PHandshake, TLC

CONSTANTS a, b

TwoPeers == {a, b}
Mutual == (a :> 1) @@ (b :> 1)
OneSided == (a :> 1) @@ (b :> 0)

TwoNums == {1, 2}
\* A number as good as drawn, and one that no draw reaches.
LowAndHigh == {0, 3}
=============================================================================
