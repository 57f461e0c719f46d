------------------------------- MODULE Routing -------------------------------
(***************************************************************************)
(* How a request finds its upstream: verifyAPIKey (proxy/auth.go),         *)
(* findUpstreamForProtocol and visibleModelsForProtocol                    *)
(* (proxy/routing_logic.go), resolveSoftToolPromptConfig and the headers,  *)
(* over the configurations Validate lets through and the table             *)
(* BuildRoutingTable makes of them (config/config.go).                     *)
(*                                                                         *)
(* The running configuration is behind an atomic pointer that every        *)
(* Config() and Routing() loads anew: a request loads it about a dozen     *)
(* times, and a reload can come between any two.  One action is what is    *)
(* done with one load.  A request has no other state that another shares,  *)
(* so one request is modelled.                                             *)
(*                                                                         *)
(* A service is named by its place in the order of names, in which         *)
(* ListUpstreams returns them.  Definitions ending in _Bug are the         *)
(* plausible slips the properties are tested against; nothing here uses    *)
(* them.                                                                   *)
(***************************************************************************)
EXTENDS Naturals, FiniteSets, Functions

CONSTANTS
  Key,         \* client keys
  Model,       \* names of models
  Profile,     \* ids of soft tool prompt profiles
  Candidate,   \* configurations an administrator may submit
  MaxInForce,  \* configurations that are in force while one request is served
  None

UpstreamProtocol == {"openai_compat", "responses", "anthropic"}
SoftToolProtocol == {"", "xml", "sentinel_json", "markdown_block"}

\* An entry "a:b" of a service's models is requested as a and sent as b.
ModelEntry == [requested : Model, actual : Model]

ServiceConfig ==
  [clientKeys : SUBSET Key, models : SUBSET ModelEntry,
   upstreamProtocol : UpstreamProtocol, isDefault : BOOLEAN, apiKey : BOOLEAN,
   softToolProtocol : SoftToolProtocol, profile : Profile \union {None}]

Status == {"400", "401", "413", "422", "503", "ambiguous", "no API key", "listed", "sent"}

Credential == {"client key", "API key", "blank"}

PromptProfile == [enabled : BOOLEAN, protocol : SoftToolProtocol, template : BOOLEAN]

IsConfig(c) ==
  /\ DOMAIN c.services \in SUBSET Nat
  /\ IsFiniteSet(DOMAIN c.services)
  /\ c.services \in [DOMAIN c.services -> ServiceConfig]
  /\ c.profiles \in [DOMAIN c.profiles -> PromptProfile]
  /\ DOMAIN c.profiles \subseteq Profile
  /\ c.defaultProfile \in Profile \union {None}
  /\ c.softToolProtocol \in SoftToolProtocol \ {""}
  /\ c.keyPassthrough \in BOOLEAN
  /\ c.modelPassthrough \in BOOLEAN

ASSUME ConfigAssumption ==
  /\ \A c \in Candidate : IsConfig(c)
  /\ None \notin Profile \union Status \union Credential \union Nat
  /\ MaxInForce \in Nat \ {0}

VARIABLES
  cfg,         \* AppState
  pc,          \* what the request does next
  endpoint, key, model,  \* the request
  allowed,     \* services the client key may use at this endpoint
  matches,     \* routes of the model to them, by the name of the service
  upstream,    \* the name and the record of the service that was found
  actual,      \* the model it is asked for
  prompt,      \* the soft tool prompt
  credential,  \* the key in the headers
  answer,
  listed,      \* the models /v1/models answers with
  inForce      \* history: configurations in force since the request arrived

request == <<endpoint, key, model>>
found   == <<allowed, matches, upstream, actual>>
built   == <<prompt, credential, listed>>
vars    == <<cfg, pc, request, found, built, answer, inForce>>

First(S) == CHOOSE n \in S : \A other \in S : n <= other

-----------------------------------------------------------------------------
(* Configurations                                                          *)

HasServices(c)     == DOMAIN c.services # {}
EnabledProfiles(c) == {p \in DOMAIN c.profiles : c.profiles[p].enabled}
Requested(s)       == {e.requested : e \in s.models}
Defaults(c)        == {n \in DOMAIN c.services : c.services[n].isDefault}

\* Two services may have the same model for the same client key.
UniqueOwner_Bug(c) == TRUE

\* Per client key and upstream protocol, a model has one owner.
UniqueOwner(c) ==
  \A n, other \in DOMAIN c.services :
    n # other =>
      \/ c.services[n].clientKeys \cap c.services[other].clientKeys = {}
      \/ Requested(c.services[n]) \cap Requested(c.services[other]) = {}
      \/ c.services[n].upstreamProtocol # c.services[other].upstreamProtocol

ProfilesUsable(c) ==
  /\ c.defaultProfile \in EnabledProfiles(c) \union {None}
  /\ \A s \in Range(c.services) : s.profile \in EnabledProfiles(c) \union {None}

\* AppConfig.Validate.  Without services only the profiles are looked at, the default.
Validate(c) ==
  /\ ProfilesUsable(c)
  /\ HasServices(c) =>
       /\ \A s \in Range(c.services) :
            /\ s.models # {}
            /\ \A e, other \in s.models : e.requested = other.requested => e = other
       /\ UniqueOwner(c)
       /\ Cardinality(Defaults(c)) = 1
       /\ ~c.keyPassthrough => \E s \in Range(c.services) : s.clientKeys # {}

\* What LoadAppConfig returns and ReloadConfig, or main, goes on with.
Valid == {c \in Candidate : Validate(c)}

\* KeyToServices[k], by name.
KeyToServices(c, k) ==
  [n \in {m \in DOMAIN c.services : k \in c.services[m].clientKeys} |-> c.services[n]]

\* Services of the endpoint's protocol only.
ForProtocol_Bug(services, p) ==
  [n \in {m \in DOMAIN services : services[m].upstreamProtocol = p} |-> services[n]]

\* Services at an endpoint: openai_compat serves every protocol.
ForProtocol(services, p) ==
  [n \in {m \in DOMAIN services :
            services[m].upstreamProtocol \in {p, "openai_compat"}} |-> services[n]]

\* Every service that lists the model will do.
Matching_Bug(routes, services) == DOMAIN routes

Matching(routes, services) == DOMAIN routes \cap DOMAIN services

OwnProtocol(routes, usable, p) == {n \in usable : routes[n].service.upstreamProtocol = p}

Route == [service : ServiceConfig, actual : Model]

\* An alias is not resolved.
Routes_Bug(c, m) ==
  [n \in {o \in DOMAIN c.services : m \in Requested(c.services[o])} |->
     [service |-> c.services[n], actual |-> m]]

\* RequestedModelToRoutes[m]
Routes(c, m) ==
  [n \in {o \in DOMAIN c.services : m \in Requested(c.services[o])} |->
     [service |-> c.services[n],
      actual  |-> (CHOOSE e \in c.services[n].models : e.requested = m).actual]]

VisibleModels(services) == UNION {Requested(s) : s \in Range(services)}

-----------------------------------------------------------------------------
(* The request and the reload                                              *)

Endpoint == {"models", "chat", "responses", "messages"}

\* The protocol an endpoint asks findUpstreamForProtocol for.
Spoken(e) ==
  CASE e = "responses" -> "responses"
    [] e = "messages"  -> "anthropic"
    [] OTHER           -> "openai_compat"

NoService == [n \in {} |-> None]

NotFound == [name |-> None, service |-> None]

NoPrompt == [profile |-> None, protocol |-> "", custom |-> FALSE]

Init ==
  /\ cfg \in Valid
  /\ inForce = {cfg}
  /\ pc = "idle"
  /\ endpoint = "models" /\ key = None /\ model = None
  /\ allowed = NoService /\ matches = NoService /\ upstream = NotFound /\ actual = None
  /\ prompt = NoPrompt /\ credential = None /\ answer = None /\ listed = {}

Arrive(e, k, m) ==
  /\ pc = "idle"
  /\ pc' = "verify"
  /\ endpoint' = e /\ key' = k /\ model' = m
  /\ inForce' = {cfg}
  /\ UNCHANGED <<cfg, found, built, answer>>

\* The request has been answered, and what it knew is dropped.
Finish ==
  /\ pc = "answered"
  /\ pc' = "idle"
  /\ endpoint' = "models" /\ key' = None /\ model' = None
  /\ allowed' = NoService /\ matches' = NoService /\ upstream' = NotFound /\ actual' = None
  /\ prompt' = NoPrompt /\ credential' = None /\ answer' = None /\ listed' = {}
  /\ inForce' = {cfg}
  /\ UNCHANGED cfg

\* ReloadConfig stores the new state, and table, in one step.
Reload(c) ==
  /\ IF pc = "idle"
     THEN inForce' = {c}
     ELSE /\ Cardinality(inForce \union {c}) <= MaxInForce
          /\ inForce' = inForce \union {c}
  /\ cfg' = c
  /\ UNCHANGED <<pc, request, found, built, answer>>

Answer(status) == pc' = "answered" /\ answer' = status
Goto(label)    == pc' = label /\ UNCHANGED answer

-----------------------------------------------------------------------------
(* verifyAPIKey, verifyAnthropicAPIKey                                     *)

\* No key at all is a request that cannot be read.
MissingAuthorization ==
  /\ pc = "verify"
  /\ Answer("422")
  /\ UNCHANGED <<cfg, request, found, built, inForce>>

VerifyPassthrough ==
  /\ pc = "verify"
  /\ Goto(IF cfg.keyPassthrough THEN "verified" ELSE "verify empty")
  /\ UNCHANGED <<cfg, request, found, built, inForce>>

VerifyNoServices ==
  /\ pc = "verify empty"
  /\ Goto(IF HasServices(cfg) THEN "verify key" ELSE "verified")
  /\ UNCHANGED <<cfg, request, found, built, inForce>>

VerifyKey ==
  /\ pc = "verify key"
  /\ IF DOMAIN KeyToServices(cfg, key) # {} THEN Goto("verified") ELSE Answer("401")
  /\ UNCHANGED <<cfg, request, found, built, inForce>>

\* The body is too large, or not a request.
BadBody ==
  /\ pc = "verified" /\ endpoint # "models"
  /\ \E status \in {"413", "422"} : Answer(status)
  /\ UNCHANGED <<cfg, request, found, built, inForce>>

\* handleModels and findUpstreamForProtocol ask the same first question.
AnyUpstream ==
  /\ pc = "verified"
  /\ IF HasServices(cfg) THEN Goto("scope") ELSE Answer("503")
  /\ UNCHANGED <<cfg, request, found, built, inForce>>

-----------------------------------------------------------------------------
(* servicesForClientKeyAndProtocol                                         *)

ScopePassthrough ==
  /\ pc = "scope"
  /\ Goto(IF cfg.keyPassthrough THEN "scope all" ELSE "scope empty")
  /\ UNCHANGED <<cfg, request, found, built, inForce>>

\* What is done with the services of the client key.
Scoped(services) ==
  LET usable == ForProtocol(services, Spoken(endpoint)) IN
  /\ allowed' = usable
  /\ listed' = IF endpoint = "models" THEN VisibleModels(usable) ELSE {}
  /\ IF endpoint = "models" THEN Answer("listed")
     ELSE IF DOMAIN usable = {} THEN Answer("400")
     ELSE Goto("mode")
  /\ UNCHANGED <<cfg, request, matches, upstream, actual, prompt, credential, inForce>>

ScopeAll == pc = "scope all" /\ Scoped(cfg.services)

ScopeEmpty ==
  /\ pc = "scope empty"
  /\ \/ HasServices(cfg) /\ Goto("scope key") /\ UNCHANGED <<cfg, request, found, built, inForce>>
     \/ ~HasServices(cfg) /\ Scoped(NoService)

ScopeKey == pc = "scope key" /\ Scoped(KeyToServices(cfg, key))

-----------------------------------------------------------------------------
(* findUpstreamForProtocol                                                 *)

\* Responses requests get their headers before their prompt, the others after it.
Headed == IF endpoint = "responses" THEN "headers" ELSE "prompt"

\* An upstream without an API key is used as it is.
Choose_Bug(n, s, m) ==
  /\ upstream' = [name |-> n, service |-> s]
  /\ actual' = m
  /\ Goto(Headed)
  /\ UNCHANGED <<cfg, request, allowed, built, inForce>>

\* A service without an API key is not used, unless keys are passed through.
Choose(n, s, m) ==
  /\ upstream' = [name |-> n, service |-> s]
  /\ actual' = m
  /\ Goto(IF s.apiKey THEN Headed ELSE "api key")
  /\ UNCHANGED <<cfg, request, allowed, built, inForce>>

ModelPassthrough ==
  /\ pc = "mode"
  /\ \/ /\ cfg.modelPassthrough
        /\ LET n == First(DOMAIN allowed) IN Choose(n, allowed[n], model)
     \/ ~cfg.modelPassthrough /\ Goto("route") /\ UNCHANGED <<cfg, request, allowed, upstream, actual, built, inForce>>
  /\ UNCHANGED matches

\* The only route, or the first one of the endpoint's own protocol.
\* allowed is of the configuration loaded before, the routes of this one.
ChooseRoute ==
  /\ pc = "route"
  /\ LET routes == Routes(cfg, model)
         usable == Matching(routes, allowed)
         own    == OwnProtocol(routes, usable, Spoken(endpoint))
         Use(n) == Choose(n, routes[n].service, routes[n].actual) /\ UNCHANGED matches
     IN
     \/ /\ Cardinality(usable) = 1
        /\ Use(First(usable))
     \/ /\ Cardinality(usable) > 1 /\ own # {}
        /\ Use(First(own))
     \/ /\ Cardinality(usable) > 1 /\ own = {}
        /\ matches' = [n \in usable |-> routes[n]]
        /\ Goto("match")
        /\ UNCHANGED <<cfg, request, allowed, upstream, actual, built, inForce>>
     \/ /\ usable = {} /\ Cardinality(DOMAIN allowed) = 1
        /\ LET n == First(DOMAIN allowed) IN Choose(n, allowed[n], model)
        /\ UNCHANGED matches
     \/ /\ usable = {} /\ Cardinality(DOMAIN allowed) # 1
        /\ Goto("default")
        /\ UNCHANGED <<cfg, request, found, built, inForce>>

\* The route to the default service, asked for match by match.
TryMatch ==
  /\ pc = "match" /\ DOMAIN matches # {}
  /\ LET n == First(DOMAIN matches) IN
     \/ /\ n \in Defaults(cfg)
        /\ Choose(n, matches[n].service, matches[n].actual)
        /\ UNCHANGED matches
     \/ /\ n \notin Defaults(cfg)
        /\ matches' = [o \in DOMAIN matches \ {n} |-> matches[o]]
        /\ UNCHANGED <<cfg, pc, request, allowed, upstream, actual, built, answer, inForce>>

\* The model resolves to several upstreams.
Ambiguous ==
  /\ pc = "match" /\ DOMAIN matches = {}
  /\ Answer("ambiguous")
  /\ UNCHANGED <<cfg, request, found, built, inForce>>

\* A model nobody lists goes to the default service, if the key may use it.
ChooseDefault ==
  /\ pc = "default"
  /\ \/ \E n \in Defaults(cfg) \cap DOMAIN allowed : Choose(n, allowed[n], model)
     \/ /\ Defaults(cfg) \cap DOMAIN allowed = {}
        /\ Answer("400")
        /\ UNCHANGED <<cfg, request, allowed, upstream, actual, built, inForce>>
  /\ UNCHANGED matches

CheckAPIKey ==
  /\ pc = "api key"
  /\ IF cfg.keyPassthrough THEN Goto(Headed) ELSE Answer("no API key")
  /\ UNCHANGED <<cfg, request, found, built, inForce>>

-----------------------------------------------------------------------------
(* The request to the upstream                                             *)

\* The first format that is given, of the profile, the service and the features.
Format(p, s, c) ==
  IF p # "" THEN p ELSE IF s # "" THEN s ELSE c

\* resolveSoftToolPromptConfig: a profile that is not there, or not enabled, is passed
\* over, and the template of the features used.
Prompt ==
  /\ pc = "prompt"
  /\ LET s      == upstream.service
         wanted == IF s.profile # None THEN s.profile ELSE cfg.defaultProfile
         usable == wanted \in EnabledProfiles(cfg)
     IN prompt' = IF usable
                  THEN [profile  |-> wanted,
                        protocol |-> Format(cfg.profiles[wanted].protocol, s.softToolProtocol, cfg.softToolProtocol),
                        custom   |-> cfg.profiles[wanted].template]
                  ELSE [profile  |-> None,
                        protocol |-> Format("", s.softToolProtocol, cfg.softToolProtocol),
                        custom   |-> FALSE]
  /\ IF endpoint = "responses" THEN Answer("sent") ELSE Goto("headers")
  /\ UNCHANGED <<cfg, request, found, credential, listed, inForce>>

\* The request cannot be written for this upstream.
CannotConvert ==
  /\ pc = "prompt" /\ endpoint # "chat"
  /\ CASE upstream.service.upstreamProtocol = "openai_compat" -> Answer("422")
       [] upstream.service.upstreamProtocol = "responses"     -> Answer("400")
       [] OTHER -> FALSE
  /\ UNCHANGED <<cfg, request, found, built, inForce>>

\* buildUpstreamHeaders, buildAnthropicUpstreamHeaders
Headers ==
  /\ pc = "headers"
  /\ credential' = IF cfg.keyPassthrough THEN "client key"
                   ELSE IF upstream.service.apiKey THEN "API key" ELSE "blank"
  /\ IF endpoint = "responses" THEN Goto("prompt") ELSE Answer("sent")
  /\ UNCHANGED <<cfg, request, found, prompt, listed, inForce>>

Handler ==
  \/ MissingAuthorization \/ VerifyPassthrough \/ VerifyNoServices \/ VerifyKey
  \/ BadBody \/ AnyUpstream
  \/ ScopePassthrough \/ ScopeAll \/ ScopeEmpty \/ ScopeKey
  \/ ModelPassthrough \/ ChooseRoute \/ TryMatch \/ Ambiguous \/ ChooseDefault \/ CheckAPIKey
  \/ Prompt \/ CannotConvert \/ Headers

Next ==
  \/ \E e \in Endpoint, k \in Key, m \in Model : Arrive(e, k, m)
  \/ Handler
  \/ Finish
  \/ \E c \in Valid : Reload(c)

Spec == Init /\ [][Next]_vars

-----------------------------------------------------------------------------
(* Properties                                                              *)

ConfigTypeOK == cfg \in Valid /\ cfg \in inForce /\ inForce \subseteq Valid

RequestTypeOK ==
  /\ pc \in {"idle", "verify", "verify empty", "verify key", "verified", "scope", "scope all",
             "scope empty", "scope key", "mode", "route", "match", "default", "api key",
             "prompt", "headers", "answered"}
  /\ endpoint \in Endpoint /\ key \in Key \union {None} /\ model \in Model \union {None}
  /\ answer \in Status \union {None}

FoundTypeOK ==
  /\ allowed \in [DOMAIN allowed -> ServiceConfig]
  /\ matches \in [DOMAIN matches -> Route]
  /\ upstream \in {NotFound} \union [name : DOMAIN allowed, service : ServiceConfig]
  /\ actual \in Model \union {None}

BuiltTypeOK ==
  /\ prompt \in {NoPrompt} \union [profile : Profile \union {None}, protocol : SoftToolProtocol \ {""}, custom : BOOLEAN]
  /\ credential \in Credential \union {None}
  /\ listed \in SUBSET Model

\* The request, what was found out about it and its answer keep their types; a format
\* for the tool calls is always settled.
TypeOK == ConfigTypeOK /\ RequestTypeOK /\ FoundTypeOK /\ BuiltTypeOK

Found  == upstream # NotFound
Steady == inForce = {cfg}

\* Configuration c lets the client key use service n at this endpoint.
Serves(c, n) ==
  /\ n \in DOMAIN c.services
  /\ c.keyPassthrough \/ key \in c.services[n].clientKeys
  /\ c.services[n].upstreamProtocol \in {Spoken(endpoint), "openai_compat"}

\* Services of configuration c that list the model for this request.
Listers(c) == {n \in DOMAIN c.services : Serves(c, n) /\ model \in Requested(c.services[n])}

OnlyLister(c, n) ==
  /\ Serves(c, n) /\ key \in c.services[n].clientKeys
  /\ {o \in DOMAIN c.services : model \in Requested(c.services[o])} = {n}

Refused == answer \in {"401", "503", "ambiguous"} \/ (answer = "400" /\ ~Found)

\* findUpstreamForProtocol only finds services that are assigned to the client key and
\* speak a protocol of the endpoint, in a configuration that was in force while the
\* request was served, whatever is reloaded meanwhile; of a key that is not assigned
\* it finds one only if keys were passed through for a part of that time.
KeysKeepToServices ==
  Found =>
    \E c \in inForce :
      /\ upstream.name \in DOMAIN c.services
      /\ c.services[upstream.name].upstreamProtocol \in {Spoken(endpoint), "openai_compat"}
      /\ \/ key \in c.services[upstream.name].clientKeys
         \/ \E d \in inForce : d.keyPassthrough

\* A model that is listed for the client key at an endpoint is not refused there; only
\* without keys of our own can it be assigned to too many services, and then only at
\* an endpoint that is not /chat/completions, whose services handleModels lists.
ListedModelsServed ==
  Steady /\ Refused /\ ~cfg.modelPassthrough /\ endpoint # "models" /\ Listers(cfg) # {} =>
    answer = "ambiguous" /\ cfg.keyPassthrough /\ Spoken(endpoint) # "openai_compat"

\* A model that services list for the client key is sent to one of them, under the name
\* that service knows it by; those of the endpoint's own protocol go before the default
\* and before those of openai_compat.
RoutedByEntry ==
  LET own == {n \in Listers(cfg) : cfg.services[n].upstreamProtocol = Spoken(endpoint)} IN
  Steady /\ Found /\ ~cfg.modelPassthrough /\ Listers(cfg) # {} =>
    /\ upstream.name \in IF own = {} THEN Listers(cfg) ELSE own
    /\ [requested |-> model, actual |-> actual] \in upstream.service.models

\* A reload does not disturb the requests for a model that, before and after it, one
\* and the same service lists and has assigned to the client key: they are not refused
\* and reach that service, though the other keys and services, the default and the
\* passing through of keys change between any two loads.
UndisturbedByReload ==
  \A n \in DOMAIN cfg.services :
    (\A c \in inForce : ~c.modelPassthrough /\ OnlyLister(c, n)) =>
      ~Refused /\ (Found => upstream.name = n)

\* What is sent is made with what the settings say.  The headers carry the API key of the
\* service unless keys are passed through, and the client's key only if they are; never no
\* key at all.  The prompt is of the profile the service is bound to, or the default one:
\* Validate leaves no service, and no default, with a profile that is not enabled.
SentAsConfigured ==
  /\ TypeOK
  /\ answer = "sent" =>
       /\ credential = "client key" => \E c \in inForce : c.keyPassthrough
       /\ (\A c \in inForce : ~c.keyPassthrough) => credential = "API key"
       /\ Steady => credential # "blank"
  /\ Steady /\ prompt # NoPrompt =>
       prompt.profile = IF upstream.service.profile # None THEN upstream.service.profile
                        ELSE cfg.defaultProfile

=============================================================================
