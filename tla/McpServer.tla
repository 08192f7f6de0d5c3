------------------------------ MODULE McpServer ------------------------------
(***************************************************************************)
(* POST /mcp of chatgpt-mcp-hello (src/index.ts): a request is checked by  *)
(* the OAuth provider once, gets an MCP server of its own, whose tools are *)
(* the local ones and those of the bridge, and is then answered, perhaps   *)
(* by a call through the bridge.  A restart of the process forgets tokens  *)
(* and connections.                                                        *)
(*                                                                         *)
(* A site is a deployment: ARCH_MCP_ENABLED, and which requests, clients   *)
(* and codes its callers use (bounds).  Abstracted: the local tools, which *)
(* keep no state.                                                          *)
(***************************************************************************)
EXTENDS OAuthProvider, ArchBridge

CONSTANTS
    Sites,          \* deployments of the instance
    TokenOf,        \* TokenOf[r]: bearer token of request r
    MaxRestarts     \* bound: restarts of the process

Site == [enabled : BOOLEAN, requests : SUBSET Requests, clients : SUBSET Clients,
         codes : SUBSET Codes, exchanges : SUBSET Exchanges]

ASSUME SiteAssumption ==
    /\ Sites \subseteq Site /\ TokenOf \in [Requests -> Tokens] /\ MaxRestarts \in Nat

VARIABLES
    site,
    restarts

vars == <<site, restarts, enabled, oauthVars, bridgeVars>>

TypeOK ==
    /\ site \in Sites /\ restarts \in 0..MaxRestarts
    /\ OAuthTypeOK /\ BridgeTypeOK

Init ==
    /\ site \in Sites /\ enabled = site.enabled /\ restarts = 0
    /\ OAuthInit /\ BridgeInit

UnchangedBridge == UNCHANGED bridgeVars

-----------------------------------------------------------------------------
(* authMiddleware: the only look at the token.                             *)
Authenticate(r) ==
    /\ step[r] = "new" /\ r \in site.requests
    /\ Becomes(r, IF VerifyAccessToken(TokenOf[r]) THEN "list" ELSE "denied", NoConn)
    /\ UNCHANGED <<site, restarts, enabled, conn, client, connectPromise, remoteTools, failures>>
    /\ UNCHANGED oauthVars

(* handleRequest: a local tool, a list of tools or an unknown tool is      *)
(* answered at once, a tool of the bridge is called.                       *)
HandleRequest(r) ==
    /\ \/ step[r] \in {"bare", "ready"} /\ Becomes(r, "answered", NoConn)
       \/ step[r] = "ready" /\ Becomes(r, "call", NoConn)
    /\ UNCHANGED <<site, restarts, enabled, conn, client, connectPromise, remoteTools, failures>>
    /\ UNCHANGED oauthVars

(* A client retries, as a new request.                                     *)
Retry(r) ==
    /\ step[r] \in EndSteps
    /\ Becomes(r, "new", NoConn)
    /\ UNCHANGED <<site, restarts, enabled, conn, client, connectPromise, remoteTools, failures>>
    /\ UNCHANGED oauthVars

(* Connections of callers break, child processes end with their parent.    *)
RestartProcess ==
    /\ restarts < MaxRestarts
    /\ restarts' = restarts + 1
    /\ LoseMemory
    /\ Reset
    /\ conn' = [c \in Conns |-> "closed"] /\ failures' = 0
    /\ step' = [r \in Requests |->
                  IF step[r] \in {"new"} \cup EndSteps THEN step[r] ELSE "failed"]
    /\ via' = [r \in Requests |-> NoConn]
    /\ UNCHANGED <<site, enabled>>

OAuthRequest ==
    /\ OAuthStep
    /\ clients' \subseteq site.clients
    /\ \A k \in Codes \ site.codes : issuedTo'[k] = NoClient
    /\ \A x \in Exchanges \ site.exchanges : exchange'[x] = NoGrant
    /\ UNCHANGED <<site, restarts, enabled>> /\ UnchangedBridge

ServerStep(r) ==
    \/ HandleRequest(r)
    \/ BridgeStep(r) /\ UNCHANGED <<site, restarts, enabled, oauthVars>>

ChildStep(c) == ArchStep(c) /\ UNCHANGED <<site, restarts, enabled, oauthVars>>

Next ==
    \/ OAuthRequest
    \/ \E r \in Requests : Authenticate(r) \/ ServerStep(r) \/ Retry(r)
    \/ \E c \in Conns : ChildStep(c)
    \/ RestartProcess

Spec == Init /\ [][Next]_vars

(* The event loop runs, and the SDK bounds every request to the child,     *)
(* initialize included, by a timeout.                                      *)
FairSpec ==
    Spec /\ (\A r \in Requests : WF_vars(ServerStep(r)))
         /\ (\A c \in Conns : WF_vars(conn[c] = "connecting" /\ ChildStep(c)))

-----------------------------------------------------------------------------
(* No request passes authMiddleware with a token that has expired, was     *)
(* revoked, or was made by an earlier process.                             *)
AdmittedWithLiveToken ==
    [][\A r \in Requests :
         step[r] = "new" /\ step'[r] = "list" =>
             LET t == TokenOf[r]
             IN  grantOf[t] # NoGrant /\ age[t] < TokenLife /\ t \notin withdrawn]_vars

(* Every request that was admitted is answered, with an error if need be:  *)
(* in spite of child processes that die, connects that fail and resets of  *)
(* the bridge by other connections.                                        *)
EveryRequestEnds == \A r \in Requests : step[r] = "list" ~> step[r] \in EndSteps

=============================================================================
