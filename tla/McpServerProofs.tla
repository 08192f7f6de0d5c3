-------------------------- MODULE McpServerProofs --------------------------
(***************************************************************************)
(* Theorems of McpServer, for any number of clients, codes, tokens,        *)
(* requests, transports and sites.                                         *)
(***************************************************************************)
EXTENDS McpServer, FiniteSetTheorems, TLAPS

(* A request goes on to a step, waiting for a transport or for none.       *)
LEMMA BecomesType ==
    ASSUME BridgeTypeOK, NEW r \in Requests, NEW next \in RequestSteps, NEW c \in Conns \cup {NoConn},
           Becomes(r, next, c)
    PROVE  step' \in [Requests -> RequestSteps] /\ via' \in [Requests -> Conns \cup {NoConn}]
BY DEF Becomes, BridgeTypeOK

LEMMA ConnectedType ==
    ASSUME BridgeTypeOK, NEW r \in Requests
    PROVE  Connected(r) \in {"calling", "listing", "ready"}
BY DEF Connected

(* One step of the bridge keeps its types.                                 *)
LEMMA BridgeTypeStep ==
    ASSUME BridgeTypeOK, UNCHANGED enabled
    PROVE  /\ \A r \in Requests : BridgeStep(r) => BridgeTypeOK'
           /\ \A c \in Conns : ArchStep(c) => BridgeTypeOK'
<1> USE BridgeAssumption
<1>1. ASSUME NEW r \in Requests, BridgeStep(r) PROVE BridgeTypeOK'
  <2>1. CASE Disabled(r)
    BY <2>1, BecomesType DEF Disabled, BridgeTypeOK, RequestSteps
  <2>2. CASE UseClient(r)
    <3>1. Connected(r) \in RequestSteps
      BY ConnectedType DEF RequestSteps, UsingSteps
    <3>2. (IF Connected(r) = "ready" THEN NoConn ELSE client) \in Conns \cup {NoConn}
      BY DEF BridgeTypeOK
    <3> QED
      BY <2>2, <3>1, <3>2, BecomesType DEF UseClient, BridgeTypeOK
  <2>3. CASE AwaitConnect(r)
    BY <2>3, BecomesType DEF AwaitConnect, Waiting, BridgeTypeOK, RequestSteps, WaitingSteps
  <2>4. CASE Connect(r)
    <3>1. NewTransport \in Conns
      BY <2>4 DEF Connect, MayConnect, NewTransport
    <3>2. Waiting(r) \in RequestSteps
      BY DEF Waiting, RequestSteps, WaitingSteps
    <3> QED
      BY <2>4, <3>1, <3>2, BecomesType DEF Connect, BridgeTypeOK
  <2>5. CASE ToolsListed(r)
    BY <2>5, BecomesType DEF ToolsListed, BridgeTypeOK, RequestSteps
  <2>6. CASE ToolCalled(r)
    BY <2>6, BecomesType DEF ToolCalled, BridgeTypeOK, RequestSteps, EndSteps
  <2>7. CASE CallTimesOut(r)
    BY <2>7, BecomesType DEF CallTimesOut, Rejected, BridgeTypeOK, RequestSteps, EndSteps
  <2> QED
    BY <1>1, <2>1, <2>2, <2>3, <2>4, <2>5, <2>6, <2>7 DEF BridgeStep
<1>2. ASSUME NEW c \in Conns, ArchStep(c) PROVE BridgeTypeOK'
  <2>1. CASE ConnectSucceeds(c)
    <3>1. \A r \in Requests : Connected(r) \in RequestSteps
      BY ConnectedType DEF RequestSteps, UsingSteps
    <3>2. step' \in [Requests -> RequestSteps] /\ via' \in [Requests -> Conns \cup {NoConn}]
      BY <2>1, <3>1 DEF ConnectSucceeds, Settle, BridgeTypeOK
    <3> QED
      BY <2>1, <3>2 DEF ConnectSucceeds, BridgeTypeOK
  <2>2. CASE ConnectFails(c) \/ TransportCloses(c)
    <3>1. \A r \in Requests : Rejected(r) \in RequestSteps
      BY DEF Rejected, RequestSteps, EndSteps
    <3>2. step' \in [Requests -> RequestSteps] /\ via' \in [Requests -> Conns \cup {NoConn}]
      BY <2>2, <3>1 DEF ConnectFails, TransportCloses, Settle, BridgeTypeOK
    <3> QED
      BY <2>2, <3>2 DEF ConnectFails, TransportCloses, Reset, BridgeTypeOK
  <2> QED
    BY <1>2, <2>1, <2>2 DEF ArchStep
<1> QED
  BY <1>1, <1>2

(* One step of the provider keeps its types.                               *)
LEMMA OAuthTypeStep == OAuthTypeOK /\ OAuthStep => OAuthTypeOK'
<1> SUFFICES ASSUME OAuthTypeOK, OAuthStep PROVE OAuthTypeOK'
  OBVIOUS
<1> USE OAuthAssumption DEF OAuthTypeOK
<1>1. ASSUME NEW a \in Clients, RegisterClient(a) PROVE OAuthTypeOK'
  BY <1>1 DEF RegisterClient
<1>2. ASSUME NEW a \in Clients, NEW k \in Codes, Authorize(a, k) PROVE OAuthTypeOK'
  BY <1>2 DEF Authorize
<1>3. ASSUME NEW a \in Clients, NEW k \in Codes, NEW x \in Exchanges,
             ChallengeForAuthorizationCode(x, a, k)
      PROVE  OAuthTypeOK'
  BY <1>3 DEF ChallengeForAuthorizationCode, Grants
<1>4. ASSUME NEW x \in Exchanges, ExchangeAuthorizationCode(x) PROVE OAuthTypeOK'
  <2>1. exchange[x] \in Grants
    BY <1>4 DEF ExchangeAuthorizationCode
  <2>2. /\ codes' \in SUBSET Codes /\ tokens' \in SUBSET Tokens
        /\ grantOf' \in [Tokens -> Grants \cup {NoGrant}]
    BY <1>4, <2>1 DEF ExchangeAuthorizationCode, MakeToken
  <2> QED
    BY <1>4, <2>2 DEF ExchangeAuthorizationCode
<1>5. ASSUME NEW t \in Tokens, RevokeToken(t) PROVE OAuthTypeOK'
  BY <1>5 DEF RevokeToken
<1>6. CASE TokensAge
  BY <1>6 DEF TokensAge
<1> QED
  BY <1>1, <1>2, <1>3, <1>4, <1>5, <1>6 DEF OAuthStep

(* One step of the server keeps the types of all variables.                *)
LEMMA TypeStep == TypeOK /\ [Next]_vars => TypeOK'
<1> SUFFICES ASSUME TypeOK, [Next]_vars PROVE TypeOK'
  OBVIOUS
<1> USE OAuthAssumption, BridgeAssumption, SiteAssumption
<1>1. CASE UNCHANGED vars
  BY <1>1 DEF TypeOK, OAuthTypeOK, BridgeTypeOK, vars, oauthVars, bridgeVars
<1>2. CASE OAuthRequest
  <2>1. OAuthTypeOK'
    BY <1>2, OAuthTypeStep DEF OAuthRequest, TypeOK
  <2> QED
    BY <1>2, <2>1 DEF OAuthRequest, UnchangedBridge, TypeOK, BridgeTypeOK, bridgeVars
<1>3. ASSUME NEW r \in Requests, Authenticate(r) \/ HandleRequest(r) \/ Retry(r) PROVE TypeOK'
  <2>1. step' \in [Requests -> RequestSteps] /\ via' \in [Requests -> Conns \cup {NoConn}]
    BY <1>3, BecomesType DEF Authenticate, HandleRequest, Retry, TypeOK, RequestSteps, EndSteps
  <2> QED
    BY <1>3, <2>1
    DEF Authenticate, HandleRequest, Retry, TypeOK, OAuthTypeOK, BridgeTypeOK, oauthVars
<1>4. ASSUME NEW r \in Requests, BridgeStep(r), UNCHANGED <<site, restarts, enabled, oauthVars>>
      PROVE  TypeOK'
  BY <1>4, BridgeTypeStep DEF TypeOK, OAuthTypeOK, oauthVars
<1>5. ASSUME NEW c \in Conns, ChildStep(c) PROVE TypeOK'
  BY <1>5, BridgeTypeStep DEF ChildStep, TypeOK, OAuthTypeOK, oauthVars
<1>6. CASE RestartProcess
  BY <1>6 DEF RestartProcess, LoseMemory, Reset, TypeOK, OAuthTypeOK, BridgeTypeOK,
              RequestSteps, EndSteps
<1> QED
  BY <1>1, <1>2, <1>3, <1>4, <1>5, <1>6 DEF Next, ServerStep

(* Every variable of provider, bridge and server keeps its type.           *)
THEOREM ServerTypeCorrect == Spec => []TypeOK
<1>1. Init => TypeOK
  BY OAuthAssumption, BridgeAssumption, SiteAssumption
  DEF Init, OAuthInit, BridgeInit, TypeOK, OAuthTypeOK, BridgeTypeOK, Site, RequestSteps
<1> QED
  BY <1>1, TypeStep, PTL DEF Spec

-----------------------------------------------------------------------------
(* Requests, the bridge's fields and the state of transports agree.        *)

(* What a request that moves itself must see to.                           *)
LEMMA BecomesLive ==
    ASSUME TypeOK, ReferencesAreLive, NEW r \in Requests, NEW next, NEW c \in Conns \cup {NoConn},
           Becomes(r, next, c), UNCHANGED client,
           \A d \in Conns : conn[d] # "closed" => conn'[d] = conn[d],
           connectPromise' = connectPromise \/ (client = NoConn /\ connectPromise' = c),
           remoteTools' = remoteTools \/ (remoteTools' \in Conns /\ conn'[remoteTools'] = "up"),
           next \in WaitingSteps => c \in Conns /\ conn'[c] = "connecting",
           next \in UsingSteps => c \in Conns /\ conn'[c] = "up",
           next \notin WaitingSteps \cup UsingSteps => c = NoConn,
           connectPromise' # connectPromise => next \in WaitingSteps
    PROVE  ReferencesAreLive'
<1> USE BridgeAssumption
<1>1. \A q \in Requests : /\ step'[q] = IF q = r THEN next ELSE step[q]
                          /\ via'[q] = IF q = r THEN c ELSE via[q]
  BY DEF Becomes, TypeOK, BridgeTypeOK
<1>2. ASSUME NEW q \in Requests
      PROVE  /\ step'[q] \in WaitingSteps => via'[q] \in Conns /\ conn'[via'[q]] = "connecting"
             /\ step'[q] \in UsingSteps => via'[q] \in Conns /\ conn'[via'[q]] = "up"
             /\ step'[q] \notin WaitingSteps \cup UsingSteps => via'[q] = NoConn
  <2>1. CASE q = r
    BY <1>1, <2>1
  <2>2. CASE q # r
    BY <1>1, <2>2 DEF ReferencesAreLive
  <2> QED
    BY <2>1, <2>2
<1>3. /\ client' # NoConn => conn'[client'] = "up" /\ connectPromise' = NoConn
      /\ connectPromise' # NoConn => conn'[connectPromise'] = "connecting"
      /\ remoteTools' # NoConn => conn'[remoteTools'] = "up"
  BY DEF ReferencesAreLive, TypeOK, BridgeTypeOK
<1> QED
  BY <1>2, <1>3 DEF ReferencesAreLive

LEMMA LiveRequestStep ==
    ASSUME TypeOK, ReferencesAreLive, NEW r \in Requests,
           Authenticate(r) \/ HandleRequest(r) \/ Retry(r) \/ BridgeStep(r)
    PROVE  ReferencesAreLive'
<1> USE BridgeAssumption
<1>1. CASE Authenticate(r) \/ HandleRequest(r) \/ Retry(r) \/ Disabled(r)
  BY <1>1, BecomesLive
  DEF Authenticate, HandleRequest, Retry, Disabled, WaitingSteps, UsingSteps
<1>2. CASE UseClient(r)
  <2>1. Connected(r) \in {"calling", "listing", "ready"} /\ client \in Conns
    BY <1>2, ConnectedType DEF UseClient, TypeOK, BridgeTypeOK
  <2>2. conn[client] = "up"
    BY <1>2 DEF UseClient, ReferencesAreLive
  <2> QED
    BY <1>2, <2>1, <2>2, BecomesLive DEF UseClient, WaitingSteps, UsingSteps
<1>3. CASE AwaitConnect(r)
  <2>1. connectPromise \in Conns /\ conn[connectPromise] = "connecting"
    BY <1>3 DEF AwaitConnect, ReferencesAreLive, TypeOK, BridgeTypeOK
  <2>2. Waiting(r) \in WaitingSteps /\ Waiting(r) \notin UsingSteps
    BY DEF Waiting, WaitingSteps, UsingSteps
  <2> QED
    BY <1>3, <2>1, <2>2, BecomesLive DEF AwaitConnect
<1>4. CASE Connect(r)
  <2>1. NewTransport \in Conns /\ conn[NewTransport] = "closed"
    BY <1>4 DEF Connect, MayConnect, NewTransport
  <2>2. Waiting(r) \in WaitingSteps /\ Waiting(r) \notin UsingSteps
    BY DEF Waiting, WaitingSteps, UsingSteps
  <2>3. /\ conn'[NewTransport] = "connecting"
        /\ \A d \in Conns : conn[d] # "closed" => conn'[d] = conn[d]
    BY <1>4, <2>1 DEF Connect, TypeOK, BridgeTypeOK
  <2> QED
    BY <1>4, <2>1, <2>2, <2>3, BecomesLive DEF Connect
<1>5. CASE ToolsListed(r)
  <2>1. via[r] \in Conns /\ conn[via[r]] = "up"
    BY <1>5 DEF ToolsListed, ReferencesAreLive, UsingSteps
  <2> QED
    BY <1>5, <2>1, BecomesLive DEF ToolsListed, WaitingSteps, UsingSteps
<1>6. CASE ToolCalled(r)
  BY <1>6, BecomesLive DEF ToolCalled, WaitingSteps, UsingSteps
<1>7. CASE CallTimesOut(r)
  <2>1. Rejected(r) \in {"bare", "failed"}
    BY DEF Rejected
  <2> QED
    BY <1>7, <2>1, BecomesLive DEF CallTimesOut, WaitingSteps, UsingSteps
<1> QED
  BY <1>1, <1>2, <1>3, <1>4, <1>5, <1>6, <1>7 DEF BridgeStep

LEMMA LiveArchStep ==
    ASSUME TypeOK, ReferencesAreLive, NEW c \in Conns, ArchStep(c)
    PROVE  ReferencesAreLive'
<1> USE BridgeAssumption
<1>1. CASE ConnectSucceeds(c)
  <2>1. \A r \in Requests :
          /\ step'[r] = IF via[r] = c THEN Connected(r) ELSE step[r]
          /\ via'[r] = IF via[r] = c /\ Connected(r) \notin UsingSteps THEN NoConn ELSE via[r]
    BY <1>1 DEF ConnectSucceeds, Settle
  <2>2. conn'[c] = "up" /\ \A d \in Conns \ {c} : conn'[d] = conn[d]
    BY <1>1 DEF ConnectSucceeds, TypeOK, BridgeTypeOK
  <2>3. ASSUME NEW r \in Requests
        PROVE  /\ step'[r] \in WaitingSteps => via'[r] \in Conns /\ conn'[via'[r]] = "connecting"
               /\ step'[r] \in UsingSteps => via'[r] \in Conns /\ conn'[via'[r]] = "up"
               /\ step'[r] \notin WaitingSteps \cup UsingSteps => via'[r] = NoConn
    <3>1. CASE via[r] = c
      <4>1. Connected(r) \in {"calling", "listing", "ready"}
        BY ConnectedType DEF TypeOK
      <4> QED
        BY <2>1, <2>2, <3>1, <4>1 DEF WaitingSteps, UsingSteps
    <3>2. CASE via[r] # c
      BY <2>1, <2>2, <3>2 DEF ReferencesAreLive
    <3> QED
      BY <3>1, <3>2
  <2>4. /\ client' # NoConn => conn'[client'] = "up" /\ connectPromise' = NoConn
        /\ connectPromise' # NoConn => conn'[connectPromise'] = "connecting"
        /\ remoteTools' # NoConn => conn'[remoteTools'] = "up"
    BY <1>1, <2>2 DEF ConnectSucceeds, ReferencesAreLive, TypeOK, BridgeTypeOK
  <2> QED
    BY <2>3, <2>4 DEF ReferencesAreLive
<1>2. CASE ConnectFails(c) \/ TransportCloses(c)
  <2>1. \A r \in Requests : Rejected(r) \in {"bare", "failed"}
    BY DEF Rejected
  <2>2. \A r \in Requests :
          /\ step'[r] = IF via[r] = c THEN Rejected(r) ELSE step[r]
          /\ via'[r] = IF via[r] = c /\ Rejected(r) \notin UsingSteps THEN NoConn ELSE via[r]
    BY <1>2 DEF ConnectFails, TransportCloses, Settle
  <2>3. \A d \in Conns \ {c} : conn'[d] = conn[d]
    BY <1>2 DEF ConnectFails, TransportCloses, TypeOK, BridgeTypeOK
  <2>4. client' = NoConn /\ connectPromise' = NoConn /\ remoteTools' = NoConn
    BY <1>2 DEF ConnectFails, TransportCloses, Reset
  <2>5. ASSUME NEW r \in Requests
        PROVE  /\ step'[r] \in WaitingSteps => via'[r] \in Conns /\ conn'[via'[r]] = "connecting"
               /\ step'[r] \in UsingSteps => via'[r] \in Conns /\ conn'[via'[r]] = "up"
               /\ step'[r] \notin WaitingSteps \cup UsingSteps => via'[r] = NoConn
    <3>1. CASE via[r] = c
      BY <2>1, <2>2, <3>1 DEF WaitingSteps, UsingSteps
    <3>2. CASE via[r] # c
      BY <2>2, <2>3, <3>2 DEF ReferencesAreLive
    <3> QED
      BY <3>1, <3>2
  <2> QED
    BY <2>4, <2>5 DEF ReferencesAreLive
<1> QED
  BY <1>1, <1>2 DEF ArchStep

LEMMA LiveStep == TypeOK /\ ReferencesAreLive /\ [Next]_vars => ReferencesAreLive'
<1> SUFFICES ASSUME TypeOK, ReferencesAreLive, [Next]_vars PROVE ReferencesAreLive'
  OBVIOUS
<1>1. CASE UNCHANGED bridgeVars
  BY <1>1 DEF bridgeVars, ReferencesAreLive
<1>2. CASE RestartProcess
  <2>1. \A r \in Requests : step'[r] \notin WaitingSteps \cup UsingSteps /\ via'[r] = NoConn
    BY <1>2 DEF RestartProcess, WaitingSteps, UsingSteps, EndSteps
  <2> QED
    BY <1>2, <2>1 DEF RestartProcess, Reset, ReferencesAreLive
<1> QED
  BY <1>1, <1>2, LiveRequestStep, LiveArchStep
  DEF Next, vars, OAuthRequest, UnchangedBridge, ServerStep, ChildStep

(* A request waits for connections that exist, and the bridge's fields     *)
(* name such connections, however requests, resets, late close events and  *)
(* restarts interleave.                                                    *)
THEOREM ReferencesStayLive == Spec => []ReferencesAreLive
<1>1. Init => ReferencesAreLive
  BY DEF Init, BridgeInit, ReferencesAreLive, WaitingSteps, UsingSteps
<1> QED
  BY <1>1, LiveStep, ServerTypeCorrect, PTL DEF Spec

-----------------------------------------------------------------------------
(* Child processes that are left behind.                                   *)

(* Before a connect has failed every transport is one that the bridge      *)
(* knows.                                                                  *)
NoFailureInv ==
    failures = 0 =>
        /\ \A c \in Conns : /\ conn[c] = "up" => c = client
                            /\ conn[c] = "connecting" => c = connectPromise
                            /\ conn[c] # "closing"
        /\ remoteTools # NoConn => remoteTools = client

LEMMA NoFailureStep ==
    TypeOK /\ ReferencesAreLive /\ NoFailureInv /\ [Next]_vars => NoFailureInv'
<1> SUFFICES ASSUME TypeOK, ReferencesAreLive, NoFailureInv, [Next]_vars, failures' = 0
             PROVE  /\ \A c \in Conns : /\ conn'[c] = "up" => c = client'
                                        /\ conn'[c] = "connecting" => c = connectPromise'
                                        /\ conn'[c] # "closing"
                    /\ remoteTools' # NoConn => remoteTools' = client'
  BY DEF NoFailureInv
<1> USE BridgeAssumption DEF NoFailureInv
<1>1. CASE UNCHANGED <<conn, client, connectPromise, remoteTools, failures>>
  BY <1>1
<1>2. ASSUME NEW r \in Requests, Connect(r)
      PROVE  /\ \A c \in Conns : /\ conn'[c] = "up" => c = client'
                                 /\ conn'[c] = "connecting" => c = connectPromise'
                                 /\ conn'[c] # "closing"
             /\ remoteTools' # NoConn => remoteTools' = client'
  <2>1. NewTransport \in Conns
    BY <1>2 DEF Connect, MayConnect, NewTransport
  <2>2. \A c \in Conns : conn'[c] = IF c = NewTransport THEN "connecting" ELSE conn[c]
    BY <1>2 DEF Connect, TypeOK, BridgeTypeOK
  <2>3. \A c \in Conns : conn[c] # "connecting"
    BY <1>2 DEF Connect
  <2> QED
    BY <1>2, <2>1, <2>2, <2>3 DEF Connect
<1>3. ASSUME NEW r \in Requests, ToolsListed(r)
      PROVE  /\ \A c \in Conns : /\ conn'[c] = "up" => c = client'
                                 /\ conn'[c] = "connecting" => c = connectPromise'
                                 /\ conn'[c] # "closing"
             /\ remoteTools' # NoConn => remoteTools' = client'
  BY <1>3 DEF ToolsListed, ReferencesAreLive, UsingSteps
<1>4. ASSUME NEW c \in Conns, ArchStep(c)
      PROVE  /\ \A d \in Conns : /\ conn'[d] = "up" => d = client'
                                 /\ conn'[d] = "connecting" => d = connectPromise'
                                 /\ conn'[d] # "closing"
             /\ remoteTools' # NoConn => remoteTools' = client'
  <2>1. CASE ConnectSucceeds(c)
    <3>1. c = connectPromise /\ client = NoConn
      BY <2>1 DEF ConnectSucceeds, ReferencesAreLive
    <3>2. \A d \in Conns : conn[d] # "up" /\ remoteTools = NoConn
      BY <2>1, <3>1 DEF ConnectSucceeds
    <3> QED
      BY <2>1, <3>1, <3>2 DEF ConnectSucceeds, TypeOK, BridgeTypeOK
  <2>2. CASE ConnectFails(c)
    BY <2>2 DEF ConnectFails, TypeOK, BridgeTypeOK
  <2>3. CASE TransportCloses(c)
    <3>1. \A d \in Conns \ {c} : conn[d] = "closed"
      BY <2>3 DEF TransportCloses, ReferencesAreLive, TypeOK, BridgeTypeOK
    <3> QED
      BY <2>3, <3>1 DEF TransportCloses, Reset, TypeOK, BridgeTypeOK
  <2> QED
    BY <1>4, <2>1, <2>2, <2>3 DEF ArchStep
<1>5. CASE RestartProcess
  BY <1>5 DEF RestartProcess, Reset
<1>6. \A r \in Requests : Authenticate(r) \/ HandleRequest(r) \/ Retry(r) \/ Disabled(r)
            \/ UseClient(r) \/ AwaitConnect(r) \/ ToolCalled(r) \/ CallTimesOut(r) =>
         UNCHANGED <<conn, client, connectPromise, remoteTools, failures>>
  BY DEF Authenticate, HandleRequest, Retry, Disabled, UseClient, AwaitConnect, ToolCalled,
         CallTimesOut
<1>7. UNCHANGED vars \/ OAuthRequest => UNCHANGED <<conn, client, connectPromise, remoteTools, failures>>
  BY DEF vars, OAuthRequest, UnchangedBridge, bridgeVars
<1> QED
  BY <1>1, <1>2, <1>3, <1>4, <1>5, <1>6, <1>7 DEF Next, ServerStep, BridgeStep, ChildStep

(* Until a connect fails the cached tools are those of the connected       *)
(* process.                                                                *)
THEOREM CacheStaysCurrent == Spec => []CacheIsCurrent
<1>1. Init => NoFailureInv
  BY DEF Init, BridgeInit, NoFailureInv
<1>2. NoFailureInv => CacheIsCurrent
  BY DEF NoFailureInv, CacheIsCurrent
<1> QED
  BY <1>1, <1>2, NoFailureStep, ServerTypeCorrect, ReferencesStayLive, PTL DEF Spec

(* Transports that are open, and those of them that the bridge knows.      *)
Open == {c \in Conns : conn[c] # "closed"}
Known == {client, connectPromise} \cap Conns

(* At most one open transport is known, all others are paid for.           *)
PaidInv == Cardinality(Open) <= failures + Cardinality(Known)

LEMMA OpenFinite ==
    ASSUME NEW S, S \in SUBSET Conns
    PROVE  IsFiniteSet(S) /\ Cardinality(S) \in Nat
BY BridgeAssumption, FS_Subset, FS_CardinalityType

LEMMA DisjointSize ==
    ASSUME NEW S, NEW T, S \in SUBSET Conns, T \in SUBSET Conns, S \cap T = {}
    PROVE  Cardinality(S \cup T) = Cardinality(S) + Cardinality(T)
<1>1. /\ IsFiniteSet(S) /\ Cardinality(S) \in Nat
      /\ IsFiniteSet(T) /\ Cardinality(T) \in Nat
  BY OpenFinite
<1>2. Cardinality(S \cup T) = Cardinality(S) + Cardinality(T) - Cardinality(S \cap T)
  BY <1>1, FS_Union
<1>3. Cardinality(S \cap T) = 0
  BY FS_EmptySet
<1> QED
  BY <1>1, <1>2, <1>3

LEMMA KnownSize ==
    ASSUME TypeOK, ReferencesAreLive
    PROVE  /\ Cardinality(Known) = IF client = NoConn /\ connectPromise = NoConn THEN 0 ELSE 1
           /\ Known \subseteq Open
<1> USE BridgeAssumption
<1>1. CASE client = NoConn /\ connectPromise = NoConn
  <2>1. Known = {}
    BY <1>1 DEF Known
  <2> QED
    BY <1>1, <2>1, FS_EmptySet
<1>2. CASE client # NoConn
  <2>1. Known = {client} /\ conn[client] = "up" /\ client \in Conns
    BY <1>2 DEF Known, ReferencesAreLive, TypeOK, BridgeTypeOK
  <2> QED
    BY <1>2, <2>1, FS_Singleton DEF Open
<1>3. CASE client = NoConn /\ connectPromise # NoConn
  <2>1. Known = {connectPromise} /\ conn[connectPromise] = "connecting" /\ connectPromise \in Conns
    BY <1>3 DEF Known, ReferencesAreLive, TypeOK, BridgeTypeOK
  <2> QED
    BY <1>3, <2>1, FS_Singleton DEF Open
<1> QED
  BY <1>1, <1>2, <1>3

LEMMA PaidStep ==
    TypeOK /\ ReferencesAreLive /\ PaidInv /\ [Next]_vars => PaidInv'
<1> SUFFICES ASSUME TypeOK, ReferencesAreLive, PaidInv, [Next]_vars PROVE PaidInv'
  OBVIOUS
<1> USE BridgeAssumption
<1>0. /\ TypeOK' /\ ReferencesAreLive' /\ failures \in Nat /\ failures' \in Nat
      /\ Cardinality(Open) \in Nat /\ IsFiniteSet(Open)
      /\ Cardinality(Open') \in Nat /\ IsFiniteSet(Open')
      /\ Open \in SUBSET Conns /\ Open' \in SUBSET Conns
  <2>1. TypeOK' /\ ReferencesAreLive'
    BY TypeStep, LiveStep
  <2>2. Open \in SUBSET Conns /\ Open' \in SUBSET Conns
    BY DEF Open
  <2> QED
    BY <2>1, <2>2, OpenFinite DEF TypeOK, BridgeTypeOK
<1>k. /\ Cardinality(Known) = IF client = NoConn /\ connectPromise = NoConn THEN 0 ELSE 1
      /\ Cardinality(Known') = IF client' = NoConn /\ connectPromise' = NoConn THEN 0 ELSE 1
  <2>1. Cardinality(Known)' = IF client' = NoConn /\ connectPromise' = NoConn THEN 0 ELSE 1
    <3>1. (TypeOK /\ ReferencesAreLive =>
             Cardinality(Known) = IF client = NoConn /\ connectPromise = NoConn THEN 0 ELSE 1)'
      BY KnownSize, PTL
    <3> QED
      BY <1>0, <3>1
  <2> QED
    BY <2>1, KnownSize
<1>1. CASE UNCHANGED <<conn, client, connectPromise, failures>>
  BY <1>1 DEF PaidInv, Open, Known
<1>2. ASSUME NEW r \in Requests, Connect(r) PROVE PaidInv'
  <2>1. NewTransport \in Conns /\ conn[NewTransport] = "closed"
    BY <1>2 DEF Connect, MayConnect, NewTransport
  <2>2. Open' = Open \cup {NewTransport}
    BY <1>2, <2>1 DEF Connect, Open, TypeOK, BridgeTypeOK
  <2>3. Cardinality(Open') <= Cardinality(Open) + 1
    BY <1>0, <2>2, FS_AddElement
  <2>4. client = NoConn /\ connectPromise = NoConn /\ connectPromise' # NoConn /\ failures' = failures
    BY <1>2, <2>1 DEF Connect
  <2> QED
    BY <1>0, <1>k, <2>3, <2>4 DEF PaidInv
<1>3. ASSUME NEW c \in Conns, ConnectSucceeds(c) PROVE PaidInv'
  <2>1. Open' = Open
    BY <1>3 DEF ConnectSucceeds, Open, TypeOK, BridgeTypeOK
  <2>2. client' # NoConn /\ failures' = failures
    BY <1>3 DEF ConnectSucceeds
  <2> QED
    BY <1>0, <1>k, <2>1, <2>2 DEF PaidInv
<1>4. ASSUME NEW c \in Conns, ConnectFails(c) PROVE PaidInv'
  <2>1. Open' = Open
    BY <1>4 DEF ConnectFails, Open, TypeOK, BridgeTypeOK
  <2>2. failures' = failures + 1
    BY <1>4 DEF ConnectFails
  <2> QED
    BY <1>0, <1>k, <2>1, <2>2 DEF PaidInv
<1>5. ASSUME NEW c \in Conns, TransportCloses(c) PROVE PaidInv'
  <2>1. Open' = Open \ {c} /\ c \in Open
    BY <1>5 DEF TransportCloses, Open, TypeOK, BridgeTypeOK
  <2>2. Cardinality(Open') = Cardinality(Open) - 1
    BY <1>0, <2>1, FS_RemoveElement
  <2>3. failures' = failures
    BY <1>5 DEF TransportCloses
  <2> QED
    BY <1>0, <1>k, <2>2, <2>3 DEF PaidInv
<1>6. CASE RestartProcess
  <2>1. Open' = {}
    BY <1>6 DEF RestartProcess, Open
  <2> QED
    BY <1>0, <1>k, <2>1, FS_EmptySet DEF PaidInv
<1>7. \A r \in Requests : Authenticate(r) \/ HandleRequest(r) \/ Retry(r) \/ Disabled(r)
            \/ UseClient(r) \/ AwaitConnect(r) \/ ToolsListed(r) \/ ToolCalled(r) \/ CallTimesOut(r) =>
         UNCHANGED <<conn, client, connectPromise, failures>>
  BY DEF Authenticate, HandleRequest, Retry, Disabled, UseClient, AwaitConnect, ToolsListed,
         ToolCalled, CallTimesOut
<1>8. UNCHANGED vars \/ OAuthRequest => UNCHANGED <<conn, client, connectPromise, failures>>
  BY DEF vars, OAuthRequest, UnchangedBridge, bridgeVars
<1> QED
  BY <1>1, <1>2, <1>3, <1>4, <1>5, <1>6, <1>7, <1>8
  DEF Next, ServerStep, BridgeStep, ChildStep, ArchStep

(* Every child process that the bridge has left behind, or whose close     *)
(* event is still to come, is paid for by a connect that failed.           *)
THEOREM LeaksStayPaidFor == Spec => []LeaksArePaidFor
<1>1. Init => PaidInv
  <2> SUFFICES ASSUME Init PROVE PaidInv
    OBVIOUS
  <2>1. Open = {} /\ Known = {} /\ failures = 0
    BY BridgeAssumption DEF Init, BridgeInit, Open, Known
  <2> QED
    BY <2>1, FS_EmptySet DEF PaidInv
<1>2. TypeOK /\ ReferencesAreLive /\ PaidInv => LeaksArePaidFor
  <2> SUFFICES ASSUME TypeOK, ReferencesAreLive, PaidInv PROVE LeaksArePaidFor
    OBVIOUS
  <2>1. Open \in SUBSET Conns /\ Known \in SUBSET Conns /\ Orphans \in SUBSET Conns /\ Closing \in SUBSET Conns
    BY DEF Open, Known, Orphans, Closing
  <2>2. Known \subseteq Open
    BY KnownSize
  <2>3. Open = (Orphans \cup Closing) \cup Known
    BY <2>2, BridgeAssumption DEF Open, Known, Orphans, Closing, TypeOK, BridgeTypeOK
  <2>4. Orphans \cap Closing = {}
    BY DEF Orphans, Closing
  <2>5. (Orphans \cup Closing) \cap Known = {}
    <3>1. \A c \in Known : conn[c] # "closing"
      BY BridgeAssumption DEF Known, ReferencesAreLive, TypeOK, BridgeTypeOK
    <3> QED
      BY <3>1 DEF Orphans, Closing, Known
  <2>6. Cardinality(Orphans \cup Closing) = Cardinality(Orphans) + Cardinality(Closing)
    BY <2>1, <2>4, DisjointSize
  <2>7. Cardinality(Open) = Cardinality(Orphans \cup Closing) + Cardinality(Known)
    <3>1. Orphans \cup Closing \in SUBSET Conns
      BY <2>1
    <3> QED
      BY <2>1, <2>3, <2>5, <3>1, DisjointSize
  <2>8. /\ Cardinality(Orphans) \in Nat /\ Cardinality(Closing) \in Nat /\ Cardinality(Known) \in Nat
        /\ failures \in Nat
    BY <2>1, OpenFinite DEF TypeOK, BridgeTypeOK
  <2> QED
    BY <2>6, <2>7, <2>8 DEF PaidInv, LeaksArePaidFor
<1> QED
  BY <1>1, <1>2, PaidStep, ServerTypeCorrect, ReferencesStayLive, PTL DEF Spec

-----------------------------------------------------------------------------
(* Codes and tokens.                                                       *)

LEMMA OneTokenStep == TypeOK /\ OneTokenPerCode /\ [Next]_vars => OneTokenPerCode'
<1> SUFFICES ASSUME TypeOK, OneTokenPerCode, [Next]_vars PROVE OneTokenPerCode'
  OBVIOUS
<1> USE OAuthAssumption
<1>1. CASE UNCHANGED <<codes, issuedTo, grantOf>>
  BY <1>1 DEF OneTokenPerCode
<1>2. ASSUME NEW a \in Clients, NEW k \in Codes, Authorize(a, k) PROVE OneTokenPerCode'
  <2>1. \A t \in Tokens : grantOf[t] # NoGrant =>
          grantOf[t].code # k /\ grantOf[t].code \in Codes /\ grantOf[t].client \in Clients
    BY <1>2 DEF Authorize, OneTokenPerCode, TypeOK, OAuthTypeOK, Grants
  <2> QED
    BY <1>2, <2>1 DEF Authorize, OneTokenPerCode, TypeOK, OAuthTypeOK
<1>3. ASSUME NEW x \in Exchanges, ExchangeAuthorizationCode(x) PROVE OneTokenPerCode'
  <2> DEFINE k == exchange[x].code
  <2>1. CASE UNCHANGED <<codes, tokens, grantOf>>
    BY <1>3, <2>1, <1>1 DEF ExchangeAuthorizationCode
  <2>2. CASE ValidCode(exchange[x].client, k) /\ codes' = codes \ {k} /\ MakeToken(exchange[x])
    <3>1. exchange[x] \in Grants /\ issuedTo' = issuedTo
      BY <1>3 DEF ExchangeAuthorizationCode, TypeOK, OAuthTypeOK
    <3>2. PICK t \in Tokens : grantOf[t] = NoGrant /\ grantOf' = [grantOf EXCEPT ![t] = exchange[x]]
      BY <2>2 DEF MakeToken
    <3>3. \A u \in Tokens : grantOf'[u] = IF u = t THEN exchange[x] ELSE grantOf[u]
      BY <3>2 DEF TypeOK, OAuthTypeOK
    <3>4. k \in codes /\ issuedTo[k] = exchange[x].client
      BY <2>2 DEF ValidCode
    <3> QED
      BY <2>2, <3>1, <3>2, <3>3, <3>4 DEF OneTokenPerCode
  <2> QED
    BY <1>3, <2>1, <2>2 DEF ExchangeAuthorizationCode
<1>4. CASE RestartProcess
  BY <1>4 DEF RestartProcess, LoseMemory, OneTokenPerCode
<1>5. \A a \in Clients : RegisterClient(a) => UNCHANGED <<codes, issuedTo, grantOf>>
  BY DEF RegisterClient
<1>6. \A a \in Clients, k \in Codes, x \in Exchanges :
         ChallengeForAuthorizationCode(x, a, k) => UNCHANGED <<codes, issuedTo, grantOf>>
  BY DEF ChallengeForAuthorizationCode
<1>7. \A t \in Tokens : RevokeToken(t) => UNCHANGED <<codes, issuedTo, grantOf>>
  BY DEF RevokeToken
<1>8. TokensAge => UNCHANGED <<codes, issuedTo, grantOf>>
  BY DEF TokensAge
<1>9. UNCHANGED oauthVars => UNCHANGED <<codes, issuedTo, grantOf>>
  BY DEF oauthVars
<1>10. OAuthStep => OneTokenPerCode'
  BY <1>1, <1>2, <1>3, <1>5, <1>6, <1>7, <1>8 DEF OAuthStep
<1> QED
  BY <1>1, <1>4, <1>9, <1>10
  DEF Next, vars, OAuthRequest, Authenticate, HandleRequest, Retry, ServerStep, ChildStep

(* A code is worth one token, for the client it was made for, however many *)
(* exchanges of it are under way.                                          *)
THEOREM CodesAreWorthOneToken == Spec => []OneTokenPerCode
<1>1. Init => OneTokenPerCode
  BY DEF Init, OAuthInit, OneTokenPerCode
<1> QED
  BY <1>1, OneTokenStep, ServerTypeCorrect, PTL DEF Spec

(* A token that the provider knows was made for a grant and not withdrawn. *)
TokenInv ==
    /\ \A t \in tokens : grantOf[t] # NoGrant /\ t \notin withdrawn
    /\ \A t \in withdrawn : grantOf[t] # NoGrant

LEMMA TokenStep == TypeOK /\ TokenInv /\ [Next]_vars => TokenInv'
<1> SUFFICES ASSUME TypeOK, TokenInv, [Next]_vars PROVE TokenInv'
  OBVIOUS
<1> USE OAuthAssumption
<1>1. CASE UNCHANGED <<tokens, grantOf, withdrawn>>
  BY <1>1 DEF TokenInv
<1>2. ASSUME NEW x \in Exchanges, ExchangeAuthorizationCode(x) PROVE TokenInv'
  <2>1. CASE UNCHANGED <<codes, tokens, grantOf>>
    BY <1>2, <2>1, <1>1 DEF ExchangeAuthorizationCode
  <2>2. CASE MakeToken(exchange[x])
    <3>1. exchange[x] \in Grants /\ withdrawn' = withdrawn
      BY <1>2 DEF ExchangeAuthorizationCode, TypeOK, OAuthTypeOK
    <3>2. PICK t \in Tokens : /\ grantOf[t] = NoGrant /\ tokens' = tokens \cup {t}
                              /\ grantOf' = [grantOf EXCEPT ![t] = exchange[x]]
      BY <2>2 DEF MakeToken
    <3>3. exchange[x] # NoGrant
      BY <1>2 DEF ExchangeAuthorizationCode
    <3> QED
      BY <3>1, <3>2, <3>3 DEF TokenInv, TypeOK, OAuthTypeOK
  <2> QED
    BY <1>2, <2>1, <2>2 DEF ExchangeAuthorizationCode
<1>3. ASSUME NEW t \in Tokens, RevokeToken(t) PROVE TokenInv'
  BY <1>3 DEF RevokeToken, TokenInv
<1>4. CASE RestartProcess
  BY <1>4 DEF RestartProcess, LoseMemory, TokenInv
<1>5. \A a \in Clients : RegisterClient(a) => UNCHANGED <<tokens, grantOf, withdrawn>>
  BY DEF RegisterClient
<1>6. \A a \in Clients, k \in Codes : Authorize(a, k) => UNCHANGED <<tokens, grantOf, withdrawn>>
  BY DEF Authorize
<1>7. \A a \in Clients, k \in Codes, x \in Exchanges :
         ChallengeForAuthorizationCode(x, a, k) => UNCHANGED <<tokens, grantOf, withdrawn>>
  BY DEF ChallengeForAuthorizationCode
<1>8. TokensAge \/ UNCHANGED oauthVars => UNCHANGED <<tokens, grantOf, withdrawn>>
  BY DEF TokensAge, oauthVars
<1>9. OAuthStep => TokenInv'
  BY <1>1, <1>2, <1>3, <1>5, <1>6, <1>7, <1>8 DEF OAuthStep
<1> QED
  BY <1>1, <1>4, <1>8, <1>9
  DEF Next, vars, OAuthRequest, Authenticate, HandleRequest, Retry, ServerStep, ChildStep

(* Only authMiddleware lets a request in.                                  *)
LEMMA OnlyAuthenticateAdmits ==
    ASSUME TypeOK, ReferencesAreLive, [Next]_vars, NEW r \in Requests, step[r] = "new", step'[r] = "list"
    PROVE  Authenticate(r)
<1> USE BridgeAssumption
<1>1. ~UNCHANGED bridgeVars
  BY DEF bridgeVars
<1>2. ASSUME NEW q \in Requests, BridgeStep(q) \/ HandleRequest(q) \/ Retry(q) PROVE FALSE
  <2>1. PICK next, c : Becomes(q, next, c) /\ next # "list"
    <3>1. Connected(q) # "list"
      BY ConnectedType DEF TypeOK
    <3> QED
      BY <1>2, <3>1
      DEF BridgeStep, HandleRequest, Retry, Disabled, UseClient, AwaitConnect, Connect, ToolsListed,
          ToolCalled, CallTimesOut, Waiting, Rejected
  <2> QED
    BY <2>1 DEF Becomes, TypeOK, BridgeTypeOK
<1>3. ASSUME NEW q \in Requests, Authenticate(q) PROVE q = r
  BY <1>3 DEF Authenticate, Becomes, TypeOK, BridgeTypeOK
<1>4. ASSUME NEW c \in Conns, ArchStep(c) PROVE FALSE
  <2>1. via[r] = NoConn
    BY DEF ReferencesAreLive, WaitingSteps, UsingSteps
  <2> QED
    BY <1>4, <2>1 DEF ArchStep, ConnectSucceeds, ConnectFails, TransportCloses, Settle
<1>5. ~RestartProcess
  BY DEF RestartProcess
<1> QED
  BY <1>1, <1>2, <1>3, <1>4, <1>5
  DEF Next, vars, OAuthRequest, UnchangedBridge, ServerStep, ChildStep

(* No request passes authMiddleware with a token that has expired, was     *)
(* revoked, or was made by an earlier process.                             *)
THEOREM AdmissionNeedsLiveToken == Spec => AdmittedWithLiveToken
<1>1. Init => TokenInv
  BY DEF Init, OAuthInit, TokenInv
<1>2. ASSUME TypeOK, ReferencesAreLive, TokenInv, [Next]_vars, NEW r \in Requests,
             step[r] = "new", step'[r] = "list"
      PROVE  LET t == TokenOf[r]
             IN  grantOf[t] # NoGrant /\ age[t] < TokenLife /\ t \notin withdrawn
  <2>1. VerifyAccessToken(TokenOf[r])
    BY <1>2, OnlyAuthenticateAdmits DEF Authenticate, Becomes, TypeOK, BridgeTypeOK
  <2> QED
    BY <1>2, <2>1 DEF VerifyAccessToken, TokenInv
<1>3. TypeOK /\ ReferencesAreLive /\ TokenInv /\ [Next]_vars =>
        [\A r \in Requests :
           step[r] = "new" /\ step'[r] = "list" =>
               LET t == TokenOf[r]
               IN  grantOf[t] # NoGrant /\ age[t] < TokenLife /\ t \notin withdrawn]_vars
  BY <1>2
<1> QED
  BY <1>1, <1>3, TokenStep, ServerTypeCorrect, ReferencesStayLive, PTL DEF Spec, AdmittedWithLiveToken

=============================================================================
