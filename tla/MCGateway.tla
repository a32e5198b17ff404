----------------------------- MODULE MCGateway -----------------------------
(* One key asked twice for JSON and twice for a stream, once with tools. *)
EXTENDS GatewayProps

CONSTANTS j1, j2, s1, s2, x

MCRequests == {j1, j2, s1, s2}
MCStreams  == {s1, s2}
MCTooling  == {s2}
MCQueried  == {s2}
MCPairs    == {{j1, j2}, {j1, s1}, {s1, s2}}
MCTriples  == {{j1, j2, s1}, {j1, s1, s2}}
MCFaults   == [l \in MCPairs \cup MCTriples |-> IF l \in MCPairs THEN 2 ELSE 0]
MCKeys     == {x}
MCKeyOf    == [r \in MCRequests |-> x]
=============================================================================
