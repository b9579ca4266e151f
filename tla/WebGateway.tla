------------------------------ MODULE WebGateway ------------------------------
(***************************************************************************)
(* A request to the gateways micro web and micro api: the auth wrapper     *)
(* (client/api/auth) resolves and verifies it, the server answers it, or   *)
(* hands it to a proxy that picks the service - while services come and go *)
(* in the registry.                                                        *)
(*                                                                         *)
(* Hosts, namespaces and names of services are the sequences of their      *)
(* labels, a path that of its segments ("/" is <<"">>).  The domain of a   *)
(* host is its last two labels.  Of a resource, its name is kept.          *)
(***************************************************************************)
EXTENDS Naturals, Sequences, SequencesExt

CONSTANTS
  Hosts,             \* hosts of requests; <<>> if none is given
  Addresses,         \* those that are IP addresses
  Hostname,          \* the name of the machine (Host), <<>> if it has none
  Paths,             \* paths of requests
  PathNames,         \* segments that are names: letters, digits and hyphens
  VersionNames,      \* segments that are versions, "v1"
  WebServices,       \* services that come and go
  MaxWebChanges      \* bound on changes of the registry

HostLabels == UNION {ToSet(host) : host \in Hosts}
WebLabels == {""} \cup UNION {ToSet(s) : s \in WebServices}

ASSUME WebAssumption ==
  /\ MaxWebChanges \in Nat /\ VersionNames \subseteq PathNames
  /\ Hosts \subseteq Seq(HostLabels) /\ WebServices \subseteq Seq(WebLabels)

VARIABLES
  gateway,        \* its command (Type); the flags resolver (for api, the one that its
                  \* handler selects) and namespace
  webRegistry,    \* services in the registry
  webChanges,     \* changes of it so far
  request,        \* host, path, namespace in the header, account, where it is
  answer          \* how it was answered

webVars == <<gateway, webRegistry, webChanges, request, answer>>

GoMicro == <<"go", "micro">>
MicroMu == <<"micro", "mu">>
Dashboard == <<"web", "micro", "mu">>

DomainOf(host) == IF Len(host) > 2 THEN SubSeq(host, Len(host) - 1, Len(host)) ELSE host
SubdomainOf(host) == IF Len(host) > 2 THEN SubSeq(host, 1, Len(host) - 2) ELSE host
Local(host) == host = <<"localhost">> \/ host = <<"127", "0", "0", "1">>

-----------------------------------------------------------------------------
(***************************************************************************)
(* internal/namespace: the namespace of a request.                         *)
(***************************************************************************)
ResolveNamespace(host) ==
  IF gateway.namespace # "domain" THEN GoMicro
  ELSE IF \/ host \in Addresses \/ Local(host) \/ Len(host) < 2
          \/ DomainOf(host) = host \/ DomainOf(host) = MicroMu THEN GoMicro
  ELSE Reverse(SubdomainOf(host))

ResolveWithType(host) == ResolveNamespace(host) \o <<gateway.type>>

-----------------------------------------------------------------------------
(***************************************************************************)
(* internal/resolver/web.  An endpoint has a name, for the resource, and a *)
(* service, whose node is selected.  The selector may fail.                *)
(***************************************************************************)
NoEndpoint(err) == [err |-> err, name |-> <<>>, service |-> <<>>]

InfoHost(host) == IF Local(host) THEN Dashboard ELSE host

IsWeb(host, path) ==
  \/ gateway.resolver = "path"
  \/ ResolveWithType(host) # GoMicro \o <<"web">>
  \/ /\ ~ (/\ gateway.resolver = "subdomain" /\ InfoHost(host) # Dashboard
           /\ Len(host) > 2 /\ DomainOf(host) = MicroMu)
     /\ (path[1] = "service" /\ Len(path) > 1) \/ Len(path) = 1

\* The service by the first segment of the path, and the one by the host.
ByPath(host, path) == ResolveWithType(host) \o <<path[1]>>

Alias(host) == Reverse(SubdomainOf(host))

ByHost(host, path) ==
  IF Len(host) > 2 /\ DomainOf(host) = MicroMu THEN GoMicro \o <<"web">> \o Alias(host)
  ELSE Alias(host) \o <<"web", path[1]>>

resolveWithPath(host, path) ==
  IF path[1] \notin PathNames THEN NoEndpoint("invalid path")
  ELSE IF ByPath(host, path) \notin webRegistry THEN NoEndpoint("not found")
  ELSE [err |-> "none", name |-> <<path[1]>>, service |-> ByPath(host, path)]

PathOnly(host) == gateway.resolver = "path" \/ InfoHost(host) = Dashboard

WebResolve(host, path) ==
  IF PathOnly(host) THEN resolveWithPath(host, path)
  ELSE IF Len(host) < 2 THEN NoEndpoint("no domain")
  ELSE IF ByHost(host, path) \notin webRegistry THEN resolveWithPath(host, path)
  ELSE [err |-> "none", name |-> Alias(host), service |-> ByHost(host, path)]

-----------------------------------------------------------------------------
(***************************************************************************)
(* internal/resolver/api: always an endpoint, registered or not.           *)
(***************************************************************************)
apiRoute(path) ==
  LET parts == IF Len(path) > 1 THEN SelectSeq(path, LAMBDA part : part # "") ELSE path
      n == Len(parts)
  IN IF n <= 2 THEN <<parts[1]>>
     ELSE IF n = 3 /\ parts[1] \in VersionNames THEN SubSeq(parts, 1, 2)
     ELSE SubSeq(parts, 1, n - 2)

proxyRoute(path) ==
  LET service == IF Len(path) > 1 /\ path[1] \in VersionNames THEN SubSeq(path, 1, 2)
                 ELSE <<path[1]>>
  IN IF Last(service) \in PathNames THEN service ELSE <<"">>

ApiResolve(host, path) ==
  LET service == ResolveWithType(host) \o
                   (IF gateway.resolver = "micro" THEN apiRoute(path) ELSE proxyRoute(path))
  IN [err |-> "none", name |-> service, service |-> service]

Resolve(host, path) ==
  IF gateway.type = "web" THEN WebResolve(host, path) ELSE ApiResolve(host, path)

-----------------------------------------------------------------------------
(***************************************************************************)
(* The auth wrapper.  The namespace is the header's, if there is one; an   *)
(* account of another issuer counts as none.                               *)
(***************************************************************************)
WebRegistryChanges(s) ==
  /\ webChanges < MaxWebChanges /\ webChanges' = webChanges + 1
  /\ webRegistry' = IF s \in webRegistry THEN webRegistry \ {s} ELSE webRegistry \cup {s}
  /\ UNCHANGED <<gateway, request, answer>>

Answer(code, from) == answer' = [code |-> code, from |-> from]

WrapRequest(host, path, header, issuer) ==
  /\ request.at = "new"
  /\ LET ns == IF header = <<>> THEN ResolveNamespace(host) ELSE header IN
     \E e \in {Resolve(host, path), NoEndpoint("selector")} :
       IF e.err \in {"none", "invalid path", "not found"}
         THEN /\ request' = [at |-> "verify", host |-> host, path |-> path, account |-> issuer = ns,
                             endpoint |-> e, resource |-> ResolveWithType(host) \o e.name,
                             had |-> webRegistry]
              /\ UNCHANGED answer
         ELSE Answer(500, <<>>) /\ request' = [request EXCEPT !.at = "done"]
  /\ UNCHANGED <<gateway, webRegistry, webChanges>>

\* Verify lets it pass, or the answer depends on the account and the login URL.
VerifyRequest ==
  /\ request.at = "verify"
  /\ \/ request' = [request EXCEPT !.at = "serve"] /\ UNCHANGED answer
     \/ /\ request' = [request EXCEPT !.at = "done"]
        /\ \E code \in IF request.account THEN {403} ELSE {401, 307} : Answer(code, <<>>)
  /\ UNCHANGED <<gateway, webRegistry, webChanges>>

-----------------------------------------------------------------------------
(***************************************************************************)
(* The server of micro web: its own pages or, by the host, the proxy.      *)
(***************************************************************************)
ServesDashboard(host, path) ==
  \/ host = <<>> \/ host = Hostname \/ host \in Addresses \/ Len(host) < 2 \/ DomainOf(host) = host
  \/ gateway.namespace # "domain" /\ host = Dashboard
  \/ IsWeb(host, path)

WebPages(path) ==
  \/ path \in {<<"">>, <<"favicon.ico">>, <<"client">>, <<"services">>, <<"rpc">>}
  \/ path[1] = "service" /\ Len(path) = 2 /\ path[2] # ""

\* /rpc: the request is checked in order, and the service called.
RPCBodies == [decodes : BOOLEAN, service : {"", "s"}, endpoint : {"", "e"}]
BadRequest(body) == ~body.decodes \/ body.service = "" \/ body.endpoint = ""

RPC(method, body) ==
  IF method = "OPTIONS" THEN {200}
  ELSE IF method # "POST" THEN {405}
  ELSE IF BadRequest(body) THEN {400}
  ELSE {200, 404, 500}

RPCAnswers ==
  UNION {UNION {RPC(method, body) : body \in RPCBodies} : method \in {"OPTIONS", "GET", "POST"}}

\* indexHandler: the services with ".web." in the name, by the label after it,
\* to which the page links as /label/ with the resolver path.
indexHandler ==
  UNION {{[name |-> SubSeq(s, i + 1, Len(s)), service |-> s] :
            i \in {j \in 2 .. Len(s) - 1 : s[j] = "web"}} : s \in webRegistry}

\* registryHandler of a name.  (For JSON it encodes the server, not the service.)
registryHandler(service) == IF service \in webRegistry THEN {200, 500} ELSE {404, 500}

\* A list that fails is logged and shown as empty.
PageCodes(path) ==
  IF path = <<"rpc">> THEN RPCAnswers
  ELSE IF Len(path) = 2 THEN registryHandler(<<path[2]>>)
  ELSE {200}

ServeWeb ==
  /\ request.at = "serve" /\ gateway.type = "web"
  /\ IF ServesDashboard(request.host, request.path) /\ WebPages(request.path)
       THEN /\ \E code \in PageCodes(request.path) : Answer(code, <<>>)
            /\ request' = [request EXCEPT !.at = "done"]
       ELSE request' = [request EXCEPT !.at = "direct"] /\ UNCHANGED answer
  /\ UNCHANGED <<gateway, webRegistry, webChanges>>

\* Mutant: the director resolves each request again.
DirectAgain ==
  /\ request.at = "direct"
  /\ LET e == Resolve(request.host, request.path) IN
       IF e.err # "none" THEN \E code \in {500, 502} : Answer(code, <<>>)
       ELSE Answer(200, e.service)
  /\ request' = [request EXCEPT !.at = "done"]
  /\ UNCHANGED <<gateway, webRegistry, webChanges>>

\* The director: the endpoint that the wrapper put into the context or, if it
\* had none, the one found now, if the selector does not fail.  Without one the
\* request is killed, which the reverse proxy answers with 502 and the web
\* socket's with 500.
Direct ==
  /\ request.at = "direct"
  /\ \E e \in IF request.endpoint.err = "none" THEN {request.endpoint}
              ELSE {Resolve(request.host, request.path), NoEndpoint("selector")} :
       IF e.err # "none" THEN \E code \in {500, 502} : Answer(code, <<>>)
       ELSE Answer(200, e.service)
  /\ request' = [request EXCEPT !.at = "done"]
  /\ UNCHANGED <<gateway, webRegistry, webChanges>>

\* micro api: its version and favicon, or the handler, which routes again with
\* the resolver; a service that is not registered is an error.
ServeApi ==
  /\ request.at = "serve" /\ gateway.type = "api"
  /\ LET service == Resolve(request.host, request.path).service IN
       IF request.path \in {<<"">>, <<"favicon.ico">>} THEN Answer(200, <<>>)
       ELSE IF service \notin webRegistry THEN Answer(500, <<>>)
       ELSE Answer(200, service)
  /\ request' = [request EXCEPT !.at = "done"]
  /\ UNCHANGED <<gateway, webRegistry, webChanges>>

-----------------------------------------------------------------------------
Gateways ==
  [type : {"web"}, resolver : {"path", "subdomain", "domain"}, namespace : {"go.micro", "domain"}] \cup
  [type : {"api"}, resolver : {"micro", "proxy"}, namespace : {"go.micro", "domain"}]

WebInit ==
  /\ gateway \in Gateways
  /\ webRegistry \in SUBSET WebServices /\ webChanges = 0
  /\ request = [at |-> "new"]
  /\ answer = [code |-> 0, from |-> <<>>]

WebNext ==
  \/ \E s \in WebServices : WebRegistryChanges(s)
  \/ \E host \in Hosts, path \in Paths, header, issuer \in {<<>>, GoMicro} :
       WrapRequest(host, path, header, issuer)
  \/ VerifyRequest \/ ServeWeb \/ Direct \/ ServeApi

-----------------------------------------------------------------------------
WebTypeOK ==
  /\ gateway \in Gateways
  /\ webRegistry \subseteq WebServices
  /\ request.at \in {"new", "verify", "serve", "direct", "done"}
  /\ answer.code \in {0, 200, 307, 400, 401, 403, 404, 405, 500, 502}

(***************************************************************************)
(* The wrapper and the proxies: a request reaches the service of the       *)
(* endpoint that was verified, however the registry changes in between -   *)
(* or, if the wrapper found none, one that was not there at that time.     *)
(***************************************************************************)
ForwardedWhereVerified ==
  answer.from # <<>> =>
    IF request.endpoint.err = "none"
      THEN /\ answer.from = request.endpoint.service
           /\ request.resource = ResolveWithType(request.host) \o request.endpoint.name
      ELSE answer.from \notin request.had /\ request.resource = ResolveWithType(request.host)

(***************************************************************************)
(* indexHandler and the resolver path: a link of the index page leads to   *)
(* the service it stands for, if that is one of the request's namespace    *)
(* with a name of one label.                                               *)
(***************************************************************************)
LinksLeadToServices ==
  gateway.type = "web" /\ gateway.resolver = "path" =>
    \A host \in Hosts, link \in indexHandler :
      LET path == Append(link.name, "") IN
        /\ ~WebPages(path)
        /\ link.name[1] \in PathNames /\ link.service = ResolveWithType(host) \o <<link.name[1]>>
             => WebResolve(host, path).service = link.service

-----------------------------------------------------------------------------
(***************************************************************************)
(* What the first rests on: a request carries the endpoint that the        *)
(* wrapper resolved, and one that has none carries a host and a path for   *)
(* which nothing was registered that the director may find later.          *)
(***************************************************************************)
\* The services that the web resolver may select.
Selectable(host, path) ==
  (IF path[1] \in PathNames THEN {ByPath(host, path)} ELSE {}) \cup
  (IF PathOnly(host) \/ Len(host) < 2 THEN {} ELSE {ByHost(host, path)})

RequestCarries ==
  request.at \in {"verify", "serve", "direct"} =>
    /\ request = [at |-> request.at, host |-> request.host, path |-> request.path,
                  account |-> request.account, endpoint |-> request.endpoint,
                  resource |-> request.resource, had |-> request.had]
    /\ request.host \in Hosts
    /\ request.resource = ResolveWithType(request.host) \o request.endpoint.name
    /\ gateway.type = "api" => request.endpoint = ApiResolve(request.host, request.path)
    /\ gateway.type = "web" /\ request.endpoint.err # "none" =>
         request.endpoint.name = <<>> /\ Selectable(request.host, request.path) \cap request.had = {}

WebIInv ==
  /\ WebTypeOK /\ RequestCarries /\ ForwardedWhereVerified
  /\ request.at = "new" => request = [at |-> "new"]
  /\ request.at # "done" => answer.from = <<>>
=============================================================================
