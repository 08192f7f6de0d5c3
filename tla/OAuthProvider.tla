---------------------------- MODULE OAuthProvider ----------------------------
(***************************************************************************)
(* The OAuth provider of the MCP server                                    *)
(* (chatgpt-mcp-hello/src/auth/in-memory-oauth-provider.ts): clients,      *)
(* one-time codes and bearer tokens, all in memory.                        *)
(*                                                                         *)
(* The SDK's routes are external: /authorize and /token look the client up *)
(* and /token asks for the challenge of a code, verifies it and exchanges  *)
(* the code, with other requests in between.                               *)
(*                                                                         *)
(* Abstracted: redirects, scopes, resources, PKCE values.                  *)
(***************************************************************************)
EXTENDS Integers

CONSTANTS
    Clients,          \* client ids
    Codes,            \* authorization codes, each a fresh UUID
    Tokens,           \* access tokens, each a fresh UUID
    Exchanges,        \* POST /token requests
    NoClient, NoGrant,
    TokenLife         \* the hour of expiresAt, in ticks

ASSUME OAuthAssumption ==
    /\ NoClient \notin Clients /\ TokenLife \in Nat \ {0}
    /\ NoGrant \notin [client : Clients, code : Codes]

VARIABLES
    clients,      \* registered clients
    codes,        \* codes that can be exchanged
    tokens,       \* tokens that the provider knows
    age,          \* ticks since a token was made, up to its life
    exchange,     \* client and code of a /token request past its challenge, or NoGrant
    issuedTo,     \* history: client that a code was made for, or NoClient
    grantOf,      \* history: client and code that a token was made for, or NoGrant
    withdrawn     \* history: tokens that were revoked or lost in a restart

oauthVars == <<clients, codes, tokens, age, exchange, issuedTo, grantOf, withdrawn>>

Grants == [client : Clients, code : Codes]

OAuthTypeOK ==
    /\ clients \in SUBSET Clients /\ codes \in SUBSET Codes /\ tokens \in SUBSET Tokens
    /\ age \in [Tokens -> 0..TokenLife]
    /\ exchange \in [Exchanges -> Grants \cup {NoGrant}]
    /\ issuedTo \in [Codes -> Clients \cup {NoClient}]
    /\ grantOf \in [Tokens -> Grants \cup {NoGrant}]
    /\ withdrawn \in SUBSET Tokens

OAuthInit ==
    /\ clients = {} /\ codes = {} /\ tokens = {}
    /\ age = [t \in Tokens |-> 0]
    /\ exchange = [x \in Exchanges |-> NoGrant]
    /\ issuedTo = [k \in Codes |-> NoClient]
    /\ grantOf = [t \in Tokens |-> NoGrant]
    /\ withdrawn = {}

-----------------------------------------------------------------------------
RegisterClient(a) ==
    /\ a \notin clients
    /\ clients' = clients \cup {a}
    /\ UNCHANGED <<codes, tokens, age, exchange, issuedTo, grantOf, withdrawn>>

Authorize(a, k) ==
    /\ a \in clients /\ issuedTo[k] = NoClient
    /\ codes' = codes \cup {k}
    /\ issuedTo' = [issuedTo EXCEPT ![k] = a]
    /\ UNCHANGED <<clients, tokens, age, exchange, grantOf, withdrawn>>

(* The check of challengeForAuthorizationCode and exchangeAuthorizationCode. *)
ValidCode(a, k) == k \in codes /\ issuedTo[k] = a

ChallengeForAuthorizationCode(x, a, k) ==
    /\ exchange[x] = NoGrant /\ a \in clients
    /\ ValidCode(a, k)
    /\ exchange' = [exchange EXCEPT ![x] = [client |-> a, code |-> k]]
    /\ UNCHANGED <<clients, codes, tokens, age, issuedTo, grantOf, withdrawn>>

MakeToken_NoClient(grant) ==
    \E t \in Tokens :
        /\ t = CHOOSE u \in Tokens : grantOf[u] = NoGrant
        /\ grantOf[t] = NoGrant
        /\ tokens' = tokens \cup {t}
        /\ grantOf' = [grantOf EXCEPT ![t] = [grant EXCEPT !.client = NoClient]]

(* randomUUID: some token that was not made before.                        *)
MakeToken(grant) ==
    \E t \in Tokens :
        /\ t = CHOOSE u \in Tokens : grantOf[u] = NoGrant
        /\ grantOf[t] = NoGrant
        /\ tokens' = tokens \cup {t}
        /\ grantOf' = [grantOf EXCEPT ![t] = grant]

ExchangeAuthorizationCode_Again(x) ==
    /\ exchange[x] # NoGrant
    /\ exchange' = [exchange EXCEPT ![x] = NoGrant]
    /\ MakeToken(exchange[x])
    /\ codes' = codes \ {exchange[x].code}
    /\ UNCHANGED <<clients, age, issuedTo, withdrawn>>

(* The code is checked again: another exchange may have taken it.          *)
ExchangeAuthorizationCode(x) ==
    /\ exchange[x] # NoGrant
    /\ exchange' = [exchange EXCEPT ![x] = NoGrant]
    /\ IF ValidCode(exchange[x].client, exchange[x].code)
       THEN /\ codes' = codes \ {exchange[x].code}
            /\ MakeToken(exchange[x])
       ELSE UNCHANGED <<codes, tokens, grantOf>>
    /\ UNCHANGED <<clients, age, issuedTo, withdrawn>>

(* Expired tokens stay in the map until they are revoked.                  *)
VerifyAccessToken_NoExpiry(t) == t \in tokens

VerifyAccessToken(t) == t \in tokens /\ age[t] < TokenLife

RevokeToken(t) ==
    /\ grantOf[t] # NoGrant
    /\ tokens' = tokens \ {t}
    /\ withdrawn' = withdrawn \cup {t}
    /\ UNCHANGED <<clients, codes, age, exchange, issuedTo, grantOf>>

TokensAge ==
    /\ age' = [t \in Tokens |-> IF t \in tokens /\ age[t] < TokenLife THEN age[t] + 1 ELSE age[t]]
    /\ UNCHANGED <<clients, codes, tokens, exchange, issuedTo, grantOf, withdrawn>>

(* A new process starts with empty maps.                                   *)
LoseMemory ==
    /\ clients' = {} /\ codes' = {} /\ tokens' = {}
    /\ exchange' = [x \in Exchanges |-> NoGrant]
    /\ withdrawn' = {t \in Tokens : grantOf[t] # NoGrant}
    /\ UNCHANGED <<age, issuedTo, grantOf>>

OAuthStep ==
    \/ \E a \in Clients :
         \/ RegisterClient(a)
         \/ \E k \in Codes :
              Authorize(a, k) \/ \E x \in Exchanges : ChallengeForAuthorizationCode(x, a, k)
    \/ \E x \in Exchanges : ExchangeAuthorizationCode(x)
    \/ \E t \in Tokens : RevokeToken(t)
    \/ TokensAge

-----------------------------------------------------------------------------
(* A code is worth one token, for the client it was made for, however many *)
(* exchanges of it are past their challenge, and across restarts.          *)
OneTokenPerCode ==
    \A t \in Tokens : grantOf[t] # NoGrant =>
        /\ issuedTo[grantOf[t].code] = grantOf[t].client
        /\ grantOf[t].code \notin codes
        /\ \A u \in Tokens \ {t} : grantOf[u] # NoGrant => grantOf[u].code # grantOf[t].code

=============================================================================
