----------------------------- MODULE ArchBridge -----------------------------
(***************************************************************************)
(* The bridge of the MCP server to the arch-ops-server child process       *)
(* (chatgpt-mcp-hello/src/arch-mcp.ts): one connection that requests       *)
(* share, made on demand and forgotten when a transport closes.            *)
(*                                                                         *)
(* One JavaScript thread: a step runs from one event to the next await,    *)
(* with the continuations of the promises it settles.  The SDK's client    *)
(* and the child process are external: a connect succeeds, fails or times  *)
(* out; after a failure the close event of its process comes later.        *)
(***************************************************************************)
EXTENDS Integers, FiniteSets

CONSTANTS
    Requests,       \* POST /mcp requests
    Conns,          \* transports with their child process
    NoConn,
    MaxFailures     \* bound: connects that fail before their process closes

ASSUME BridgeAssumption ==
    /\ IsFiniteSet(Conns) /\ NoConn \notin Conns /\ MaxFailures \in Nat

VARIABLES
    enabled,         \* ARCH_MCP_ENABLED
    conn,            \* state of a transport; "closing": its close event is to come
    client,          \* the bridge's fields, as the transport they belong to
    connectPromise,
    remoteTools,
    step,            \* where a request stands
    via,             \* transport that a request waits for, or NoConn
    failures         \* connects that failed before their process closed

bridgeVars == <<conn, client, connectPromise, remoteTools, step, via, failures>>

WaitingSteps == {"listConnecting", "callConnecting"}
UsingSteps == {"listing", "calling"}
EndSteps == {"denied", "answered", "failed"}
RequestSteps == {"new", "list", "bare", "ready", "call"} \cup WaitingSteps \cup UsingSteps \cup EndSteps

BridgeTypeOK ==
    /\ enabled \in BOOLEAN
    /\ conn \in [Conns -> {"closed", "connecting", "up", "closing"}]
    /\ client \in Conns \cup {NoConn} /\ connectPromise \in Conns \cup {NoConn}
    /\ remoteTools \in Conns \cup {NoConn}
    /\ step \in [Requests -> RequestSteps]
    /\ via \in [Requests -> Conns \cup {NoConn}]
    /\ failures \in 0..MaxFailures

BridgeInit ==
    /\ conn = [c \in Conns |-> "closed"]
    /\ client = NoConn /\ connectPromise = NoConn /\ remoteTools = NoConn
    /\ step = [r \in Requests |-> "new"] /\ via = [r \in Requests |-> NoConn]
    /\ failures = 0

-----------------------------------------------------------------------------
Reset_KeepsPromise ==
    client' = NoConn /\ UNCHANGED connectPromise /\ remoteTools' = NoConn

Reset_KeepsTools ==
    client' = NoConn /\ connectPromise' = NoConn /\ UNCHANGED remoteTools

Reset == client' = NoConn /\ connectPromise' = NoConn /\ remoteTools' = NoConn

Becomes(r, next, c) ==
    /\ step' = [step EXCEPT ![r] = next]
    /\ via' = [via EXCEPT ![r] = c]

(* A request at "list" is in listTools, at "call" in callTool.             *)
Listing(r) == step[r] \in {"list", "listConnecting", "listing"}

(* With a client: the tools are listed once and then cached.               *)
Connected(r) ==
    IF Listing(r) THEN IF remoteTools = NoConn THEN "listing" ELSE "ready" ELSE "calling"

Waiting(r) == IF Listing(r) THEN "listConnecting" ELSE "callConnecting"

Rejected_Swallowed(r) == IF Listing(r) THEN "bare" ELSE step[r]

(* listTools answers [] for an error, callTool throws it.                  *)
Rejected(r) == IF Listing(r) THEN "bare" ELSE "failed"

(* The requests that wait for c, or for an answer through c, go on.        *)
Settle(c, next(_)) ==
    /\ step' = [r \in Requests |-> IF via[r] = c THEN next(r) ELSE step[r]]
    /\ via' = [r \in Requests |->
                 IF via[r] = c /\ next(r) \notin UsingSteps THEN NoConn ELSE via[r]]

-----------------------------------------------------------------------------
(* ensureConnected, from listTools and callTool *)

Disabled(r) ==
    /\ step[r] = "list" /\ ~enabled
    /\ Becomes(r, "bare", NoConn)
    /\ UNCHANGED <<conn, client, connectPromise, remoteTools, failures>>

UseClient(r) ==
    /\ step[r] \in {"list", "call"} /\ enabled /\ client # NoConn
    /\ Becomes(r, Connected(r), IF Connected(r) = "ready" THEN NoConn ELSE client)
    /\ UNCHANGED <<conn, client, connectPromise, remoteTools, failures>>

AwaitConnect(r) ==
    /\ step[r] \in {"list", "call"} /\ enabled /\ client = NoConn /\ connectPromise # NoConn
    /\ Becomes(r, Waiting(r), connectPromise)
    /\ UNCHANGED <<conn, client, connectPromise, remoteTools, failures>>

(* Some name of a transport that is not in use, for the one that is made.  *)
MayConnect == \E c \in Conns : conn[c] = "closed"
NewTransport == CHOOSE c \in Conns : conn[c] = "closed"

Connect_Always(r) ==
    /\ step[r] \in {"list", "call"} /\ enabled /\ client = NoConn
    /\ MayConnect
    /\ conn' = [conn EXCEPT ![NewTransport] = "connecting"]
    /\ connectPromise' = NewTransport
    /\ Becomes(r, Waiting(r), NewTransport)
    /\ UNCHANGED <<client, remoteTools, failures>>

Connect(r) ==
    /\ step[r] \in {"list", "call"} /\ enabled /\ client = NoConn /\ connectPromise = NoConn
    /\ MayConnect
    /\ conn' = [conn EXCEPT ![NewTransport] = "connecting"]
    /\ connectPromise' = NewTransport
    /\ Becomes(r, Waiting(r), NewTransport)
    /\ UNCHANGED <<client, remoteTools, failures>>

(* The end of connect: whatever the fields held, they now name c.          *)
ConnectSucceeds(c) ==
    /\ conn[c] = "connecting"
    /\ conn' = [conn EXCEPT ![c] = "up"]
    /\ client' = c /\ connectPromise' = NoConn
    /\ Settle(c, Connected)
    /\ UNCHANGED <<remoteTools, failures>>

(* The child could not be spawned, or did not initialize in time: the      *)
(* catch of ensureConnected, and later the close event.                    *)
ConnectFails(c) ==
    /\ conn[c] = "connecting" /\ failures < MaxFailures
    /\ conn' = [conn EXCEPT ![c] = "closing"]
    /\ failures' = failures + 1
    /\ Reset
    /\ Settle(c, Rejected)

(* transport.onclose, of whichever transport; the SDK rejects what is      *)
(* pending on it.                                                          *)
TransportCloses(c) ==
    /\ conn[c] # "closed"
    /\ conn' = [conn EXCEPT ![c] = "closed"]
    /\ Reset
    /\ Settle(c, Rejected)
    /\ UNCHANGED failures

-----------------------------------------------------------------------------
(* Answers of the child process, or the SDK's timeout for one *)

ToolsListed(r) ==
    /\ step[r] = "listing"
    /\ remoteTools' = via[r]
    /\ Becomes(r, "ready", NoConn)
    /\ UNCHANGED <<conn, client, connectPromise, failures>>

ToolCalled(r) ==
    /\ step[r] = "calling"
    /\ Becomes(r, "answered", NoConn)
    /\ UNCHANGED <<conn, client, connectPromise, remoteTools, failures>>

CallTimesOut(r) ==
    /\ step[r] \in UsingSteps
    /\ Becomes(r, Rejected(r), NoConn)
    /\ UNCHANGED <<conn, client, connectPromise, remoteTools, failures>>

ArchStep(c) == ConnectSucceeds(c) \/ ConnectFails(c) \/ TransportCloses(c)

BridgeStep(r) ==
    \/ Disabled(r) \/ UseClient(r) \/ AwaitConnect(r) \/ Connect(r)
    \/ ToolsListed(r) \/ ToolCalled(r) \/ CallTimesOut(r)

-----------------------------------------------------------------------------
(* A request waits only for a connect that is under way, and for an answer *)
(* only from a transport that is open; the bridge's fields name such       *)
(* transports, and never a client and a connect at once.  A field left     *)
(* behind by a reset would make every later request wait for nothing.      *)
ReferencesAreLive ==
    /\ \A r \in Requests :
         /\ step[r] \in WaitingSteps => via[r] \in Conns /\ conn[via[r]] = "connecting"
         /\ step[r] \in UsingSteps => via[r] \in Conns /\ conn[via[r]] = "up"
         /\ step[r] \notin WaitingSteps \cup UsingSteps => via[r] = NoConn
    /\ client # NoConn => conn[client] = "up" /\ connectPromise = NoConn
    /\ connectPromise # NoConn => conn[connectPromise] = "connecting"
    /\ remoteTools # NoConn => conn[remoteTools] = "up"

(* Child processes that run and that the bridge does not know any more.    *)
Orphans == {c \in Conns : conn[c] \in {"connecting", "up"}} \ {client, connectPromise}
Closing == {c \in Conns : conn[c] = "closing"}

(* The reset of a late close event forgets whatever connection is current. *)
(* Every child process that is left behind that way is paid for by a       *)
(* connect that failed: requests alone, and processes that die, leave none *)
(* behind.                                                                 *)
LeaksArePaidFor == Cardinality(Orphans) + Cardinality(Closing) <= failures

(* Before any connect has failed the cached tools are those of the client. *)
CacheIsCurrent == failures = 0 /\ remoteTools # NoConn => remoteTools = client

=============================================================================
