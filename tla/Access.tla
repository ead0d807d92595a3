-------------------------------- MODULE Access --------------------------------
(***************************************************************************)
(* The local server's request chain (internal/localserver/middleware.go,    *)
(* server.go) and the connect flow for apps on other sites (connect.go):     *)
(* host, authentication, cross-origin protection, CORS and the routes, in    *)
(* that order, and the codes and tokens an approval leads to.                *)
(*                                                                         *)
(* A request is authenticated in one step and served in another: in between *)
(* the person may sign out and a token may be revoked.  openvaultdb-go keeps *)
(* the codes and tokens and is modelled by what the server asks of it.      *)
(***************************************************************************)
EXTENDS Naturals, FiniteSets

CONSTANTS
    App,        \* apps on other sites that ask to connect
    None,
    MaxTokens   \* bound on codes and tokens minted

Method == {"GET", "OPTIONS", "POST", "PUT", "DELETE"}
Safe == {"GET", "OPTIONS"}

\* The local API: what a route requires, and whether a read-only server
\* refuses it.
Endpoint(m, p, a, d) == [method |-> m, path |-> p, access |-> a, data |-> d]
Endpoints ==
    {Endpoint("GET", "api/status", "owner", FALSE),
     Endpoint("PUT", "api/config", "owner", FALSE),
     Endpoint("POST", "api/databases", "owner", TRUE),
     Endpoint("DELETE", "api/databases", "owner", TRUE),
     Endpoint("POST", "api/shutdown", "secret", FALSE)}
\* None stands for no endpoint.
AccessAssumption == None \notin Endpoints /\ MaxTokens \in Nat

Path == {e.path : e \in Endpoints}
        \cup {"api/unknown", "v1/data", "v1/query", "v1/tokens", "login", "authorize", "token", "console"}

\* What a browser or a tool sends: an Authorization header, a cookie, where
\* the page that sends it is from, and what it asks of the connect flow.
Request ==
    [path : Path, method : Method,
     bearer : {"no", "secret", "token", "wrong"}, cookie : BOOLEAN,
     site : {"tool", "same", "listed", "other"}, host : BOOLEAN, json : BOOLEAN]
Ask == [app : App, redirect : {"web", "loopback", "plain"}, server : BOOLEAN]  \* server: databases:create

VARIABLES
    config,    \* config.yaml: [readOnly, cors]
    serving,   \* what New read of it at the start
    session,   \* whether the console session is signed in
    tokens,    \* app tokens in auth.json, with where they come from
    codes,     \* one-time codes approved and not exchanged
    request,   \* the request in progress, with its credential
    did,       \* what the last step did for a request
    minted

vars == <<config, serving, session, tokens, codes, request, did, minted>>

Settings == [readOnly : BOOLEAN, cors : BOOLEAN]  \* cors: whether site "listed" is listed
Credential == {"none", "invalid", "secret", "token", "session"}
AppToken == [app : App, from : {"owner", "consent", "nobody"}, server : BOOLEAN]
Nothing == [what |-> "nothing", endpoint |-> None, credential |-> "none", site |-> "tool"]

AccessTypeOK ==
    /\ config \in Settings /\ serving \in Settings /\ session \in BOOLEAN
    /\ tokens \subseteq AppToken /\ codes \subseteq AppToken
    /\ request = None \/ request.credential \in Credential
    /\ did.what \in {"nothing", "local", "read", "write", "mint", "approve", "exchange", "cors"}
    /\ minted \in 0 .. MaxTokens

Init ==
    /\ config \in Settings /\ serving = config
    /\ session \in BOOLEAN
    /\ tokens = {} /\ codes = {} /\ request = None /\ did = Nothing /\ minted = 0

-----------------------------------------------------------------------------
(* The chain *)

\* authenticate: an Authorization header wins over the cookie, even when it
\* is invalid.
CredentialOf(r) ==
    CASE r.bearer = "secret" -> "secret"
      [] r.bearer = "token" -> IF tokens # {} THEN "token" ELSE "invalid"
      [] r.bearer = "wrong" -> "invalid"
      [] r.bearer = "no" -> IF r.cookie /\ session THEN "session" ELSE "none"

\* hostAllowlist answers before anything is looked at.
Arrive ==
    /\ request = None
    /\ \E r \in Request :
          /\ r.host
          /\ r.cookie => r.site # "tool" /\ r.bearer \in {"no", "wrong"}
          /\ r.bearer = "secret" => r.site = "tool"
          /\ r.json \/ r.method = "POST"
          /\ r.path \in {"login", "console"} => r.method \in {"GET", "POST"}
          /\ request' = [asked |-> r, credential |-> CredentialOf(r)]
    /\ did' = Nothing
    /\ UNCHANGED <<config, serving, session, tokens, codes, minted>>

\* Mutant: requests with a body from other sites pass.
CrossOriginPost(r, c) == c = "session" /\ r.method \in {"PUT", "DELETE"} /\ r.site \in {"listed", "other"}

\* crossOrigin: requests that are not safe and carry the session's cookie, or
\* sign in or out, come from the console itself.
CrossOrigin(r, c) ==
    /\ c = "session" \/ r.path = "login"
    /\ r.method \notin Safe /\ r.site \in {"listed", "other"}

\* cors: a preflight of a listed site is answered before any route.
Preflight(r) ==
    /\ r.path \in {"v1/data", "v1/query", "v1/tokens", "token"}
    /\ r.site = "listed" /\ serving.cors /\ r.method = "OPTIONS"

\* The page that asked may read the answer: bearers, and code exchanges.
Readable(r, c) ==
    /\ r.path \in {"v1/data", "v1/query", "v1/tokens", "token"}
    /\ r.site = "listed" /\ serving.cors
    /\ c \in {"invalid", "secret", "token"} \/ (r.path = "token" /\ c = "none")

\* allow: what a credential may use of the local API.
Allow(c, access) == c = "secret" \/ (c = "session" /\ access = "owner")

Does(what, e) == did' = [what |-> what, endpoint |-> e, credential |-> request.credential, site |-> request.asked.site]

-----------------------------------------------------------------------------
(* The routes *)

\* localAPI: the endpoint, its access, the read-only server, then the body;
\* callers that are not the owner learn nothing about what exists.
LocalAPI(r, c) ==
    /\ \E e \in Endpoints :
          /\ e.path = r.path /\ e.method = r.method
          /\ Allow(c, e.access)
          /\ ~(serving.readOnly /\ e.data)
          /\ r.method \in {"GET", "DELETE"} \/ r.json
          /\ Does("local", e)
    /\ UNCHANGED <<tokens, codes, minted>>

\* /v1/tokens: never for a console session; openvaultdb-go gives tokens to
\* the owner only.
Tokens(r, c) ==
    /\ r.path = "v1/tokens" /\ r.method = "POST" /\ c = "secret"
    /\ minted < MaxTokens /\ minted' = minted + 1
    /\ \E app \in App, server \in BOOLEAN :
          tokens' = tokens \cup {[app |-> app, from |-> "owner", server |-> server]}
    /\ Does("mint", None)
    /\ UNCHANGED codes

\* isWrite: a query is a POST that only reads.
IsWrite(r) == r.method \notin Safe /\ r.path # "v1/query"

\* /v1: the console acts as the owner; openvaultdb-go refuses writes when it
\* is read-only, and unknown callers.
Data(r, c) ==
    /\ r.path \in {"v1/data", "v1/query"} /\ c \in {"secret", "token", "session"}
    /\ r.method = "OPTIONS" \/ ~(IsWrite(r) /\ serving.readOnly)
    /\ Does(IF IsWrite(r) THEN "write" ELSE "read", None)
    /\ UNCHANGED <<tokens, codes, minted>>

\* webRedirectOnly and databaseCapabilitiesOnly.
Connectable(ask) == ask.redirect \in {"web", "loopback"} /\ ~ask.server

\* Mutant: whoever may see the consent page may approve.
AuthorizeAnyone(r, c) ==
    /\ r.path = "authorize" /\ r.method = "POST" /\ c \in {"secret", "session", "none"}
    /\ minted < MaxTokens /\ minted' = minted + 1
    /\ \E ask \in Ask :
          /\ Connectable(ask)
          /\ codes' = codes \cup
               {[app |-> ask.app, from |-> IF c = "session" THEN "consent" ELSE "nobody", server |-> FALSE]}
    /\ Does("approve", None)
    /\ UNCHANGED tokens

\* authorize and decide: a console session approves or denies, and an
\* approval mints a code.
Authorize(r, c) ==
    /\ r.path = "authorize" /\ r.method = "POST" /\ c = "session"
    /\ \E ask \in Ask, approve \in BOOLEAN :
          /\ Connectable(ask)
          /\ IF approve
             THEN /\ minted < MaxTokens /\ minted' = minted + 1
                  /\ codes' = codes \cup {[app |-> ask.app, from |-> "consent", server |-> ask.server]}
             ELSE UNCHANGED <<codes, minted>>
    /\ Does("approve", None)
    /\ UNCHANGED tokens

\* /token: the code is the credential, once.
Exchange(r, c) ==
    /\ r.path = "token" /\ r.method = "POST"
    /\ \E code \in codes : codes' = codes \ {code} /\ tokens' = tokens \cup {code}
    /\ Does("exchange", None)
    /\ UNCHANGED minted

\* Anything else is a page or a refusal, and changes nothing.
Routed(r, c) == LocalAPI(r, c) \/ Tokens(r, c) \/ Data(r, c) \/ Authorize(r, c) \/ Exchange(r, c)

Serve ==
    /\ request # None
    /\ LET r == request.asked
           c == request.credential IN
       \/ ~CrossOrigin(r, c) /\ ~Preflight(r) /\ Routed(r, c)
       \/ Preflight(r) /\ Does("cors", None) /\ UNCHANGED <<tokens, codes, minted>>
       \/ did' = Nothing /\ UNCHANGED <<tokens, codes, minted>>
    /\ request' = None
    /\ UNCHANGED <<config, serving, session>>

-----------------------------------------------------------------------------
(* Meanwhile *)

\* The person signs in or out in the browser (module SignIn).
Sign ==
    /\ session' = ~session
    /\ did' = Nothing
    /\ UNCHANGED <<config, serving, tokens, codes, request, minted>>

\* ovdb token revoke.
Revoke ==
    /\ \E t \in tokens : tokens' = tokens \ {t}
    /\ did' = Nothing
    /\ UNCHANGED <<config, serving, session, codes, request, minted>>

\* config.yaml changes (module Settings); a server reads it when it starts,
\* and codes are kept in its memory.
Configure ==
    /\ config' \in Settings \ {config}
    /\ did' = Nothing
    /\ UNCHANGED <<serving, session, tokens, codes, request, minted>>

Restart ==
    /\ serving' = config
    /\ codes' = {} /\ request' = None /\ did' = Nothing
    /\ UNCHANGED <<config, session, tokens, minted>>

Next == Arrive \/ Serve \/ Sign \/ Revoke \/ Configure \/ Restart

Spec == Init /\ [][Next]_vars

-----------------------------------------------------------------------------
(* Properties *)

\* Every token of an app comes from the owner's command or from one approval
\* in the console, and an app never gets a server-level capability by
\* connecting (connect.go:19-31, server.go:280-287).
TokensComeFromConsent ==
    \A t \in tokens \cup codes : t.from \in {"owner", "consent"} /\ (t.from = "consent" => ~t.server)

\* The credential table: what a page of another site gets the browser to
\* send changes nothing with the console's session, a token reaches data
\* only, shutdown is the owner's processes', and a server that started
\* read-only changes no database (middleware.go:19-27, 206-236).
CallersKeepToTheTable ==
    /\ did.what \in {"local", "write", "approve", "mint"} /\ did.credential = "session"
         => \/ did.site \in {"tool", "same"}
            \/ did.endpoint # None /\ did.endpoint.method \in Safe
    /\ did.what \in {"local", "mint", "approve"} => did.credential \in {"secret", "session"}
    /\ did.endpoint # None /\ did.endpoint.access = "secret" => did.credential = "secret"
    /\ serving.readOnly => did.what # "write" /\ ~(did.endpoint # None /\ did.endpoint.data)
=============================================================================
