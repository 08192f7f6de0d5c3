----------------------------- MODULE MCMcpServer -----------------------------
(***************************************************************************)
(* An instance of McpServer for TLC: a site whose callers contend for      *)
(* codes, without the bridge, and one whose requests share the bridge.     *)
(***************************************************************************)
EXTENDS McpServer, TLC

CONSTANTS t1, t2, r1, r2, k1, k2, a1, a2, x1, x2

OneToken == [r \in Requests |-> t1]

CodesSite == [enabled |-> FALSE, requests |-> {r1}, clients |-> {a1, a2},
              codes |-> {k1, k2}, exchanges |-> {x1, x2}]
BridgeSite == [enabled |-> TRUE, requests |-> Requests, clients |-> {a1},
               codes |-> {k1}, exchanges |-> {x1}]

AllSites == {CodesSite, BridgeSite}

=============================================================================
