--------------------------- MODULE Routing_proofs ---------------------------
(***************************************************************************)
(* Proofs about Routing, for any keys, models, profiles, candidate         *)
(* configurations and any number of reloads during one request: that keys  *)
(* keep to their services (KeysKept), that a reload does not disturb who   *)
(* is not concerned (Undisturbed), that what is sent is as configured      *)
(* (Sent), and that listed models are served (Served), by their entry      *)
(* (Entries).                                                              *)
(*                                                                         *)
(* BaseInv says of which configuration what was found so far is from; the  *)
(* others are inductive relative to it.  The steps are taken in the groups *)
(* of Steps.  A request takes many of them, and each loads the             *)
(* configuration anew, so CourseInv and SteadyInv have to say at every     *)
(* place what the answers that were got there still mean: for a service    *)
(* that all configurations in force agree on, and for a configuration that *)
(* stayed the only one.                                                    *)
(***************************************************************************)
EXTENDS Routing, FiniteSetTheorems, TLAPS

\* What a service that a request uses has to do with the configurations.
Usable(c, n) ==
  /\ n \in DOMAIN c.services
  /\ c.services[n].upstreamProtocol \in {Spoken(endpoint), "openai_compat"}
  /\ \/ key \in c.services[n].clientKeys
     \/ \E d \in inForce : d.keyPassthrough

\* Where a request does not know its services yet.
Early == {"idle", "verify", "verify empty", "verify key", "verified",
          "scope", "scope all", "scope empty", "scope key"}

\* Until its services are known nothing has been found for a request, and until one is
\* chosen nothing is made for it.
FreshInv ==
  /\ pc \in Early =>
       allowed = NoService /\ matches = NoService /\ upstream = NotFound /\ actual = None
       /\ prompt = NoPrompt /\ credential = None /\ listed = {}
  /\ pc \in {"mode", "route", "match", "default"} =>
       DOMAIN allowed # {} /\ upstream = NotFound /\ prompt = NoPrompt /\ credential = None
  /\ pc # "answered" => answer = None

\* Where what was found is from: the services allowed are those of one configuration, a
\* match or the upstream is of one that was loaded then or later.
FoundInv ==
  /\ \E c \in inForce : \A n \in DOMAIN allowed : Usable(c, n) /\ allowed[n] = c.services[n]
  /\ DOMAIN matches \subseteq DOMAIN allowed
  /\ \A n \in DOMAIN matches :
       \E c \in inForce : n \in DOMAIN c.services /\ matches[n].service = c.services[n]
  /\ Found => \E c \in inForce :
                upstream.name \in DOMAIN c.services /\ upstream.service = c.services[upstream.name]
  /\ pc = "scope all" => \E d \in inForce : d.keyPassthrough
  /\ pc \in {"api key", "prompt", "headers"} => Found

\* What IsConfig says of a configuration that is in force.
LEMMA Configs ==
  ASSUME NEW c \in Valid
  PROVE  /\ DOMAIN c.services \subseteq Nat /\ IsFiniteSet(DOMAIN c.services)
         /\ \A n \in DOMAIN c.services : c.services[n] \in ServiceConfig
         /\ c.services \in [DOMAIN c.services -> ServiceConfig]
BY ConfigAssumption DEF Valid, IsConfig

\* A set of names that is not empty has a first one, which CHOOSE takes.
LEMMA FirstOf ==
  ASSUME NEW S \in SUBSET Nat, S # {}
  PROVE  First(S) \in S
<1> DEFINE R == {ss \in Nat \X Nat : ss[1] < ss[2]}
<1>1. IsWellFoundedOn(OpToRel(<, Nat), Nat)
  BY NatLessThanWellFounded
<1>2. OpToRel(<, Nat) = R
  BY DEF OpToRel
<1>3. PICK n \in S : \A other \in S : ~(<<other, n>> \in R)
  BY <1>1, <1>2, WFMin
<1>4. ASSUME NEW other \in S
      PROVE  n <= other
  <2>1. ~(<<other, n>> \in R) /\ n \in Nat /\ other \in Nat
    BY <1>3
  <2>2. ~(other < n)
    BY <2>1
  <2> QED
    BY <2>1, <2>2
<1> QED
  BY <1>4 DEF First

\* The route to a service is to its record, by the entry of the model.
LEMMA RouteOf ==
  ASSUME NEW c \in Valid, NEW m, NEW n \in DOMAIN Routes(c, m)
  PROVE  /\ n \in DOMAIN c.services /\ m \in Requested(c.services[n])
         /\ Routes(c, m)[n].service = c.services[n]
         /\ [requested |-> m, actual |-> Routes(c, m)[n].actual] \in c.services[n].models
         /\ Routes(c, m)[n] \in Route
<1>1. /\ n \in DOMAIN c.services /\ m \in Requested(c.services[n])
      /\ Routes(c, m)[n] =
           [service |-> c.services[n],
            actual  |-> (CHOOSE e \in c.services[n].models : e.requested = m).actual]
  BY DEF Routes
<1> DEFINE e == CHOOSE e \in c.services[n].models : e.requested = m
<1>2. e \in c.services[n].models /\ e.requested = m
  BY <1>1 DEF Requested
<1>3. c.services[n] \in ServiceConfig
  BY <1>1, Configs
<1>4. e \in ModelEntry
  BY <1>2, <1>3 DEF ServiceConfig
<1>5. e = [requested |-> m, actual |-> e.actual] /\ e.actual \in Model
  BY <1>2, <1>4 DEF ModelEntry
<1>6. Routes(c, m)[n] = [service |-> c.services[n], actual |-> e.actual]
  BY <1>1
<1> HIDE DEF e
<1>7. [requested |-> m, actual |-> e.actual] \in c.services[n].models
  BY <1>2, <1>5
<1>8. Routes(c, m)[n] \in Route
  BY <1>3, <1>5, <1>6 DEF Route
<1> QED
  BY <1>1, <1>6, <1>7, <1>8

\* A request that is given an upstream goes on with it, or to the question of its key.
LEMMA Chosen ==
  ASSUME NEW n, NEW s, NEW m, Choose(n, s, m)
  PROVE  /\ upstream' = [name |-> n, service |-> s] /\ actual' = m
         /\ \/ pc' = "api key" /\ ~s.apiKey
            \/ pc' = "headers" /\ s.apiKey /\ endpoint = "responses"
            \/ pc' = "prompt" /\ s.apiKey /\ endpoint # "responses"
         /\ UNCHANGED <<cfg, request, allowed, built, inForce, answer>>
BY DEF Choose, Goto, Headed

-----------------------------------------------------------------------------
(* Where what was found is from                                            *)

\* What the other invariants rest on.
BaseInv == TypeOK /\ FreshInv /\ FoundInv

\* BaseInv holds before the first request arrives.
LEMMA BaseInit == Init => BaseInv
<1> SUFFICES ASSUME Init
             PROVE  BaseInv
  OBVIOUS
<1>1. TypeOK
  BY DEF Init, TypeOK, ConfigTypeOK, RequestTypeOK, FoundTypeOK, BuiltTypeOK,
         NoService, NotFound, NoPrompt, Endpoint
<1>2. FreshInv
  BY DEF Init, FreshInv, Early
<1>3. FoundInv
  BY ConfigAssumption DEF Init, FoundInv, Found, NoService
<1> QED
  BY <1>1, <1>2, <1>3 DEF BaseInv

\* What a request is told of the services of one configuration.
LEMMA ScopedTo ==
  ASSUME BaseInv, NEW c \in inForce, NEW services,
         \A n \in DOMAIN services : n \in DOMAIN c.services /\ services[n] = c.services[n],
         \A n \in DOMAIN services : key \in c.services[n].clientKeys \/ \E d \in inForce : d.keyPassthrough,
         pc \in {"scope all", "scope key", "scope empty"},
         Scoped(services)
  PROVE  BaseInv'
<1> DEFINE usable == ForProtocol(services, Spoken(endpoint))
<1>1. c \in Valid
  BY DEF BaseInv, TypeOK, ConfigTypeOK
<1>2. \A n \in DOMAIN usable :
        n \in DOMAIN services /\ usable[n] = services[n]
        /\ services[n].upstreamProtocol \in {Spoken(endpoint), "openai_compat"}
  BY DEF ForProtocol
<1>3. \A n \in DOMAIN usable : usable[n] = c.services[n] /\ Usable(c, n)
  BY <1>2 DEF Usable
<1>4. usable \in [DOMAIN usable -> ServiceConfig]
  <2>1. usable = [n \in DOMAIN usable |-> usable[n]]
    BY DEF ForProtocol
  <2>2. \A n \in DOMAIN usable : usable[n] \in ServiceConfig
    BY <1>1, <1>3, Configs DEF Usable
  <2> HIDE DEF usable
  <2> QED
    BY <2>1, <2>2
<1>5. VisibleModels(usable) \in SUBSET Model
  <2>1. ASSUME NEW n \in DOMAIN usable
        PROVE  Requested(usable[n]) \subseteq Model
    <3>1. usable[n] \in ServiceConfig
      BY <1>4
    <3>2. usable[n].models \subseteq ModelEntry
      BY <3>1 DEF ServiceConfig
    <3> QED
      BY <3>2 DEF ModelEntry, Requested
  <2> HIDE DEF usable
  <2> QED
    BY <2>1 DEF VisibleModels, Range
<1>6. /\ allowed' = usable
      /\ listed' = IF endpoint = "models" THEN VisibleModels(usable) ELSE {}
      /\ \/ pc' = "answered" /\ answer' \in {"listed", "400"}
         \/ pc' = "mode" /\ answer' = answer /\ DOMAIN usable # {}
      /\ UNCHANGED <<cfg, request, matches, upstream, actual, prompt, credential, inForce>>
  BY DEF Scoped, Answer, Goto
<1> HIDE DEF usable
<1>7. upstream = NotFound /\ matches = NoService /\ answer = None /\ actual = None
      /\ prompt = NoPrompt /\ credential = None
  BY DEF BaseInv, FreshInv, Early
<1>8. TypeOK'
  <2>1. ConfigTypeOK' /\ BuiltTypeOK'
    BY <1>5, <1>6 DEF BaseInv, TypeOK, ConfigTypeOK, BuiltTypeOK
  <2>2. RequestTypeOK'
    BY <1>6 DEF BaseInv, TypeOK, RequestTypeOK, Status, request
  <2>3. FoundTypeOK'
    BY <1>4, <1>6, <1>7 DEF BaseInv, TypeOK, FoundTypeOK
  <2> QED
    BY <2>1, <2>2, <2>3 DEF TypeOK
<1>9. FreshInv'
  BY <1>6, <1>7 DEF FreshInv, Early
<1>10. FoundInv'
  <2>1. \A n \in DOMAIN usable : Usable(c, n)' /\ usable[n] = c.services[n]
    BY <1>3, <1>6 DEF Usable, request
  <2>2. c \in inForce'
    BY <1>6
  <2>3. DOMAIN matches' = {} /\ ~Found'
    BY <1>6, <1>7 DEF NoService, Found
  <2> QED
    BY <1>6, <2>1, <2>2, <2>3 DEF FoundInv
<1> QED
  BY <1>8, <1>9, <1>10 DEF BaseInv

\* A service that is chosen is one of those allowed.
LEMMA ChosenFrom ==
  ASSUME BaseInv, NEW n \in DOMAIN allowed, NEW c \in inForce, n \in DOMAIN c.services,
         NEW s, s = c.services[n], NEW m \in Model \union {None},
         pc \in {"mode", "route", "match", "default"},
         Choose(n, s, m), matches' = matches
  PROVE  BaseInv'
<1>1. /\ upstream' = [name |-> n, service |-> s] /\ actual' = m
      /\ pc' \in {"api key", "headers", "prompt"}
      /\ UNCHANGED <<cfg, request, allowed, built, inForce, answer>>
  BY Chosen
<1>2. c \in Valid /\ s \in ServiceConfig
  BY Configs DEF BaseInv, TypeOK, ConfigTypeOK
<1>3. upstream' \in [name : DOMAIN allowed', service : ServiceConfig]
  BY <1>1, <1>2
<1>4. TypeOK'
  <2>1. ConfigTypeOK' /\ BuiltTypeOK'
    BY <1>1 DEF BaseInv, TypeOK, ConfigTypeOK, BuiltTypeOK, built
  <2>2. RequestTypeOK'
    BY <1>1 DEF BaseInv, TypeOK, RequestTypeOK, request
  <2>3. FoundTypeOK'
    BY <1>1, <1>3 DEF BaseInv, TypeOK, FoundTypeOK
  <2> QED
    BY <2>1, <2>2, <2>3 DEF TypeOK
<1>5. FreshInv'
  BY <1>1 DEF BaseInv, FreshInv, Early
<1>6. Found'
  <2>1. n \in Nat /\ n # None
    BY <1>2, Configs, ConfigAssumption
  <2> QED
    BY <1>1, <2>1 DEF Found, NotFound
<1>7. \E d \in inForce' :
        upstream'.name \in DOMAIN d.services /\ upstream'.service = d.services[upstream'.name]
  BY <1>1
<1>8. FoundInv'
  BY <1>1, <1>6, <1>7 DEF BaseInv, FoundInv, Usable, request
<1> QED
  BY <1>4, <1>5, <1>8 DEF BaseInv

\* The steps of a request, and of a reload, by what the proofs have to say of them.
Outside == Finish \/ \E e \in Endpoint, k \in Key, m \in Model : Arrive(e, k, m)

Reloads == \E c \in Valid : Reload(c)

Scopes == ScopeAll \/ ScopeKey \/ (ScopeEmpty /\ ~HasServices(cfg) /\ Scoped(NoService))

\* The steps that choose a service without looking for a route.
ChoosesAllowed ==
  \/ ModelPassthrough /\ cfg.modelPassthrough
  \/ ChooseDefault /\ Defaults(cfg) \cap DOMAIN allowed # {}

\* Services are named by numbers.
LEMMA AllowedNames == ASSUME BaseInv PROVE DOMAIN allowed \subseteq Nat
<1>1. PICK c \in inForce : \A n \in DOMAIN allowed : Usable(c, n)
  BY DEF BaseInv, FoundInv
<1>2. c \in Valid
  BY DEF BaseInv, TypeOK, ConfigTypeOK
<1> QED
  BY <1>1, <1>2, Configs DEF Usable

\* Steps that settle nothing but how the request goes on.
LEMMA GoesOn ==
  ASSUME BaseInv, UNCHANGED <<cfg, request, found, built, inForce>>, RequestTypeOK',
         pc' \in Early => pc \in Early,
         pc' \in {"mode", "route", "match", "default"} => pc \in {"mode", "route", "match", "default"},
         pc' # "answered" => answer' = answer /\ pc # "answered",
         pc' = "scope all" => \E d \in inForce : d.keyPassthrough,
         pc' \in {"api key", "prompt", "headers"} => Found
  PROVE  BaseInv'
<1>1. UNCHANGED <<cfg, endpoint, key, model, allowed, matches, upstream, actual,
                  prompt, credential, listed, inForce>>
  BY DEF request, found, built
<1>2. TypeOK'
  BY <1>1 DEF BaseInv, TypeOK, ConfigTypeOK, FoundTypeOK, BuiltTypeOK
<1>3. FreshInv'
  BY <1>1 DEF BaseInv, FreshInv
<1>4. FoundInv'
  BY <1>1, ZenonT(30) DEF BaseInv, FoundInv, Usable, Spoken, Found
<1> QED
  BY <1>2, <1>3, <1>4 DEF BaseInv

\* More configurations in force take nothing away from what was found.
LEMMA ReloadBase ==
  ASSUME BaseInv, NEW c \in Valid, Reload(c)
  PROVE  BaseInv'
<1>1. UNCHANGED <<pc, endpoint, key, model, answer, allowed, matches, upstream, actual,
                  prompt, credential, listed>>
  BY DEF Reload, request, found, built
<1>2. cfg' = c /\ c \in inForce' /\ inForce' \subseteq inForce \union {c}
      /\ (pc # "idle" => inForce \subseteq inForce')
  BY DEF Reload
<1>3. TypeOK'
  <2>1. ConfigTypeOK'
    BY <1>2 DEF BaseInv, TypeOK, ConfigTypeOK
  <2>2. RequestTypeOK'
    BY <1>1 DEF BaseInv, TypeOK, RequestTypeOK
  <2>3. FoundTypeOK'
    BY <1>1 DEF BaseInv, TypeOK, FoundTypeOK
  <2>4. BuiltTypeOK'
    BY <1>1 DEF BaseInv, TypeOK, BuiltTypeOK
  <2> QED
    BY <2>1, <2>2, <2>3, <2>4 DEF TypeOK
<1>4. FreshInv'
  BY <1>1 DEF BaseInv, FreshInv
<1>5. FoundInv'
  <2>1. CASE pc = "idle"
    <3>1. DOMAIN allowed' = {} /\ DOMAIN matches' = {} /\ ~Found'
      BY <1>1, <2>1 DEF BaseInv, FreshInv, Early, NoService, Found
    <3> QED
      BY <1>1, <1>2, <2>1, <3>1 DEF FoundInv
  <2>2. CASE pc # "idle"
    <3>1. inForce \subseteq inForce'
      BY <1>2, <2>2
    <3>2. \A d, n : Usable(d, n) => Usable(d, n)'
      BY <1>1, <3>1 DEF Usable, Spoken
    <3>3. \E d \in inForce' : \A n \in DOMAIN allowed' : Usable(d, n)' /\ allowed'[n] = d.services[n]
      BY <1>1, <3>1, <3>2 DEF BaseInv, FoundInv
    <3>4. \A n \in DOMAIN matches' :
            \E d \in inForce' : n \in DOMAIN d.services /\ matches'[n].service = d.services[n]
      BY <1>1, <3>1 DEF BaseInv, FoundInv
    <3>5. Found' => \E d \in inForce' :
                upstream'.name \in DOMAIN d.services /\ upstream'.service = d.services[upstream'.name]
      BY <1>1, <3>1 DEF BaseInv, FoundInv, Found
    <3>6. pc' = "scope all" => \E d \in inForce' : d.keyPassthrough
      BY <1>1, <3>1 DEF BaseInv, FoundInv
    <3>7. pc' \in {"api key", "prompt", "headers"} => Found'
      BY <1>1 DEF BaseInv, FoundInv, Found
    <3>8. DOMAIN matches' \subseteq DOMAIN allowed'
      BY <1>1 DEF BaseInv, FoundInv
    <3> QED
      BY <3>3, <3>4, <3>5, <3>6, <3>7, <3>8 DEF FoundInv
  <2> QED
    BY <2>1, <2>2
<1> QED
  BY <1>3, <1>4, <1>5 DEF BaseInv

\* The services of the client key are of the configuration that is loaded.
LEMMA ScopeBase ==
  ASSUME BaseInv, Scopes
  PROVE  BaseInv'
<1>1. cfg \in inForce
  BY DEF BaseInv, TypeOK, ConfigTypeOK
<1>2. CASE ScopeAll
  <2>1. pc = "scope all" /\ Scoped(cfg.services) /\ \E d \in inForce : d.keyPassthrough
    BY <1>2 DEF ScopeAll, BaseInv, FoundInv
  <2> QED
    BY <1>1, <2>1, ScopedTo
<1>3. CASE ScopeKey
  <2>1. pc = "scope key" /\ Scoped(KeyToServices(cfg, key))
    BY <1>3 DEF ScopeKey
  <2>2. \A n \in DOMAIN KeyToServices(cfg, key) :
          /\ n \in DOMAIN cfg.services /\ KeyToServices(cfg, key)[n] = cfg.services[n]
          /\ key \in cfg.services[n].clientKeys
    BY DEF KeyToServices
  <2> QED
    BY <1>1, <2>1, <2>2, ScopedTo
<1>4. CASE ScopeEmpty /\ Scoped(NoService)
  <2>1. pc = "scope empty" /\ DOMAIN NoService = {}
    BY <1>4 DEF ScopeEmpty, NoService
  <2> QED
    BY <1>1, <1>4, <2>1, ScopedTo
<1> QED
  BY <1>2, <1>3, <1>4 DEF Scopes

\* What findUpstreamForProtocol looks at when it looks for a route.
Routed    == Routes(cfg, model)
Matches   == Matching(Routed, allowed)
OwnRoutes == OwnProtocol(Routed, Matches, Spoken(endpoint))

\* The outcomes of ChooseRoute.
LEMMA RouteCases ==
  ASSUME BaseInv, ChooseRoute
  PROVE  /\ pc = "route"
         /\ \/ \E n \in Matches :
                 /\ OwnRoutes # {} => n \in OwnRoutes
                 /\ Choose(n, Routed[n].service, Routed[n].actual) /\ matches' = matches
            \/ /\ OwnRoutes = {} /\ Cardinality(Matches) > 1
               /\ matches' = [n \in Matches |-> Routed[n]]
               /\ pc' = "match" /\ answer' = answer
               /\ UNCHANGED <<cfg, request, allowed, upstream, actual, built, inForce>>
            \/ /\ Matches = {}
               /\ \E n \in DOMAIN allowed : Choose(n, allowed[n], model) /\ matches' = matches
            \/ /\ Matches = {}
               /\ pc' = "default" /\ answer' = answer
               /\ UNCHANGED <<cfg, request, found, built, inForce>>
<1>1. pc = "route" /\ DOMAIN allowed # {}
  BY DEF ChooseRoute, BaseInv, FreshInv
<1>2. DOMAIN allowed \subseteq Nat
  BY AllowedNames
<1>3. OwnRoutes \subseteq Matches /\ Matches \subseteq DOMAIN allowed
  BY DEF OwnRoutes, OwnProtocol, Matches, Matching
<1>4. First(DOMAIN allowed) \in DOMAIN allowed
  BY <1>1, <1>2, FirstOf
<1>5. Matches # {} => First(Matches) \in Matches
  BY <1>2, <1>3, FirstOf
<1>6. OwnRoutes # {} => First(OwnRoutes) \in OwnRoutes
  BY <1>2, <1>3, FirstOf
<1>7. CASE /\ Cardinality(Matches) = 1
           /\ Choose(First(Matches), Routed[First(Matches)].service, Routed[First(Matches)].actual)
           /\ matches' = matches
  <2>1. First(Matches) \in Matches /\ (OwnRoutes # {} => Matches = OwnRoutes)
    <3>1. IsFiniteSet(Matches)
      <4>1. cfg \in Valid
        BY DEF BaseInv, TypeOK, ConfigTypeOK
      <4>2. Matches \subseteq DOMAIN cfg.services
        BY DEF Matches, Matching, Routed, Routes
      <4> QED
        BY <4>1, <4>2, Configs, FS_Subset
    <3>2. PICK x : Matches = {x}
      BY <1>7, <3>1, FS_Singleton
    <3> QED
      BY <1>3, <1>5, <3>2
  <2> QED
    BY <1>1, <1>7, <2>1
<1>8. CASE /\ OwnRoutes # {}
           /\ Choose(First(OwnRoutes), Routed[First(OwnRoutes)].service, Routed[First(OwnRoutes)].actual)
           /\ matches' = matches
  BY <1>1, <1>3, <1>6, <1>8
<1>9. CASE /\ Matches = {}
           /\ Choose(First(DOMAIN allowed), allowed[First(DOMAIN allowed)], model)
           /\ matches' = matches
  BY <1>1, <1>4, <1>9
<1>10. \/ /\ Cardinality(Matches) = 1
          /\ Choose(First(Matches), Routed[First(Matches)].service, Routed[First(Matches)].actual)
          /\ matches' = matches
       \/ /\ OwnRoutes # {}
          /\ Choose(First(OwnRoutes), Routed[First(OwnRoutes)].service, Routed[First(OwnRoutes)].actual)
          /\ matches' = matches
       \/ /\ OwnRoutes = {} /\ Cardinality(Matches) > 1
          /\ matches' = [n \in Matches |-> Routed[n]]
          /\ pc' = "match" /\ answer' = answer
          /\ UNCHANGED <<cfg, request, allowed, upstream, actual, built, inForce>>
       \/ /\ Matches = {}
          /\ Choose(First(DOMAIN allowed), allowed[First(DOMAIN allowed)], model)
          /\ matches' = matches
       \/ /\ Matches = {}
          /\ pc' = "default" /\ answer' = answer
          /\ UNCHANGED <<cfg, request, found, built, inForce>>
  BY DEF ChooseRoute, Goto, Routed, Matches, OwnRoutes
<1> QED
  BY <1>1, <1>7, <1>8, <1>9, <1>10

\* ChooseRoute takes a service, and a route to it, of those that are allowed.
LEMMA ChooseRouteBase ==
  ASSUME BaseInv, ChooseRoute
  PROVE  BaseInv'
<1>1. cfg \in inForce /\ cfg \in Valid /\ pc = "route" /\ model \in Model \union {None}
  BY RouteCases DEF BaseInv, TypeOK, ConfigTypeOK, RequestTypeOK
<1>2. \A n \in Matches : n \in DOMAIN allowed /\ n \in DOMAIN Routed
  BY DEF Matches, Matching
<1>3. \A n \in Matches :
        /\ n \in DOMAIN cfg.services /\ Routed[n].service = cfg.services[n]
        /\ Routed[n] \in Route /\ Routed[n].actual \in Model
  BY <1>1, <1>2, RouteOf DEF Routed, Route
<1>4. ASSUME NEW n \in Matches,
             Choose(n, Routed[n].service, Routed[n].actual), matches' = matches
      PROVE  BaseInv'
  BY <1>1, <1>2, <1>3, <1>4, ChosenFrom
<1>5. ASSUME NEW n \in DOMAIN allowed, Choose(n, allowed[n], model), matches' = matches
      PROVE  BaseInv'
  <2>1. PICK c \in inForce : n \in DOMAIN c.services /\ allowed[n] = c.services[n]
    BY DEF BaseInv, FoundInv, Usable
  <2> QED
    BY <1>1, <1>5, <2>1, ChosenFrom
<1>6. ASSUME pc' = "default", answer' = answer, UNCHANGED <<cfg, request, found, built, inForce>>
      PROVE  BaseInv'
  <2>1. RequestTypeOK'
    BY <1>6 DEF BaseInv, TypeOK, RequestTypeOK, request
  <2> QED
    BY <1>1, <1>6, <2>1, GoesOn DEF Early
<1>7. ASSUME matches' = [n \in Matches |-> Routed[n]], pc' = "match", answer' = answer,
             UNCHANGED <<cfg, request, allowed, upstream, actual, built, inForce>>
      PROVE  BaseInv'
  <2>1. UNCHANGED <<cfg, endpoint, key, model, allowed, upstream, actual,
                    prompt, credential, listed, inForce>>
    BY <1>7 DEF request, built
  <2>2. matches' \in [DOMAIN matches' -> Route]
    BY <1>3, <1>7
  <2>3. ConfigTypeOK' /\ RequestTypeOK' /\ BuiltTypeOK'
    <3>1. ConfigTypeOK'
      BY <2>1 DEF BaseInv, TypeOK, ConfigTypeOK
    <3>2. RequestTypeOK'
      BY <1>7, <2>1 DEF BaseInv, TypeOK, RequestTypeOK
    <3>3. BuiltTypeOK'
      BY <2>1 DEF BaseInv, TypeOK, BuiltTypeOK
    <3> QED
      BY <3>1, <3>2, <3>3
  <2>4. FoundTypeOK'
    BY <2>1, <2>2 DEF BaseInv, TypeOK, FoundTypeOK
  <2>5. FreshInv'
    BY <1>1, <1>7, <2>1 DEF BaseInv, FreshInv, Early
  <2>6. DOMAIN matches' = Matches /\ \A n \in Matches : matches'[n].service = cfg.services[n]
    BY <1>3, <1>7
  <2>7. FoundInv'
    BY <1>1, <1>2, <1>3, <1>7, <2>1, <2>6 DEF BaseInv, FoundInv, Usable, Spoken, Found
  <2> QED
    BY <2>3, <2>4, <2>5, <2>7 DEF BaseInv, TypeOK
<1> QED
  BY <1>4, <1>5, <1>6, <1>7, RouteCases

\* TryMatch takes the first match, or leaves it out.
LEMMA TryMatchBase ==
  ASSUME BaseInv, TryMatch
  PROVE  BaseInv'
<1> DEFINE n == First(DOMAIN matches)
<1>1. pc = "match" /\ DOMAIN matches # {}
  BY DEF TryMatch
<1>2. n \in DOMAIN matches /\ n \in DOMAIN allowed
  <2>1. DOMAIN matches \subseteq Nat /\ DOMAIN matches \subseteq DOMAIN allowed
    BY AllowedNames DEF BaseInv, FoundInv
  <2> QED
    BY <1>1, <2>1, FirstOf
<1>3. /\ matches[n] \in Route
      /\ \E c \in inForce : n \in DOMAIN c.services /\ matches[n].service = c.services[n]
  BY <1>2 DEF BaseInv, FoundInv, TypeOK, FoundTypeOK
<1>4. matches[n].actual \in Model \union {None}
  BY <1>3 DEF Route
<1>5. CASE Choose(n, matches[n].service, matches[n].actual) /\ matches' = matches
  BY <1>1, <1>2, <1>3, <1>4, <1>5, ChosenFrom
<1>6. CASE /\ matches' = [o \in DOMAIN matches \ {n} |-> matches[o]]
           /\ UNCHANGED <<cfg, pc, request, allowed, upstream, actual, built, answer, inForce>>
  <2>1. UNCHANGED <<cfg, pc, endpoint, key, model, allowed, upstream, actual,
                    prompt, credential, listed, inForce, answer>>
    BY <1>6 DEF request, built
  <2>2. \A o \in DOMAIN matches \ {n} : matches[o] \in Route
    BY DEF BaseInv, TypeOK, FoundTypeOK
  <2>3. matches' \in [DOMAIN matches' -> Route]
    BY <1>6, <2>2
  <2>4. ConfigTypeOK' /\ RequestTypeOK' /\ BuiltTypeOK'
    <3>1. ConfigTypeOK'
      BY <2>1 DEF BaseInv, TypeOK, ConfigTypeOK
    <3>2. RequestTypeOK'
      BY <2>1 DEF BaseInv, TypeOK, RequestTypeOK
    <3>3. BuiltTypeOK'
      BY <2>1 DEF BaseInv, TypeOK, BuiltTypeOK
    <3> QED
      BY <3>1, <3>2, <3>3
  <2>5. FoundTypeOK'
    BY <2>1, <2>3 DEF BaseInv, TypeOK, FoundTypeOK
  <2>6. FreshInv'
    BY <1>1, <2>1 DEF BaseInv, FreshInv, Early
  <2>7. DOMAIN matches' \subseteq DOMAIN matches /\ \A o \in DOMAIN matches' : matches'[o] = matches[o]
    BY <1>6
  <2>8. FoundInv'
    <3>1. \A c, o : Usable(c, o)' <=> Usable(c, o)
      BY <2>1 DEF Usable, Spoken
    <3>2. \E c \in inForce' : \A o \in DOMAIN allowed' : Usable(c, o)' /\ allowed'[o] = c.services[o]
      BY <2>1, <3>1 DEF BaseInv, FoundInv
    <3>3. ASSUME NEW o \in DOMAIN matches'
          PROVE  \E c \in inForce' : o \in DOMAIN c.services /\ matches'[o].service = c.services[o]
      <4>1. o \in DOMAIN matches /\ matches'[o] = matches[o]
        BY <2>7
      <4>2. \E c \in inForce : o \in DOMAIN c.services /\ matches[o].service = c.services[o]
        BY <4>1 DEF BaseInv, FoundInv
      <4> QED
        BY <2>1, <4>1, <4>2
    <3>4. DOMAIN matches' \subseteq DOMAIN allowed'
      BY <2>1, <2>7 DEF BaseInv, FoundInv
    <3>5. ~Found'
      BY <1>1, <2>1 DEF BaseInv, FreshInv, Found
    <3>6. pc' = "match"
      BY <1>1, <2>1
    <3> QED
      BY <3>2, <3>3, <3>4, <3>5, <3>6 DEF FoundInv
  <2> QED
    BY <2>4, <2>5, <2>6, <2>8 DEF BaseInv, TypeOK
<1> QED
  BY <1>5, <1>6 DEF TryMatch

\* What is chosen without a route is the record that was allowed.
LEMMA ChooseAllowedBase ==
  ASSUME BaseInv, ChoosesAllowed
  PROVE  BaseInv'
<1>1. pc \in {"mode", "default"} /\ DOMAIN allowed # {} /\ model \in Model \union {None}
  BY DEF ChoosesAllowed, ModelPassthrough, ChooseDefault, BaseInv, FreshInv, TypeOK, RequestTypeOK
<1>2. First(DOMAIN allowed) \in DOMAIN allowed
  BY <1>1, AllowedNames, FirstOf
<1>3. \E n \in DOMAIN allowed : Choose(n, allowed[n], model) /\ matches' = matches
  BY <1>2 DEF ChoosesAllowed, ModelPassthrough, ChooseDefault
<1>4. PICK n \in DOMAIN allowed : Choose(n, allowed[n], model) /\ matches' = matches
  BY <1>3
<1>5. PICK c \in inForce : n \in DOMAIN c.services /\ allowed[n] = c.services[n]
  BY DEF BaseInv, FoundInv, Usable
<1> QED
  BY <1>1, <1>4, <1>5, ChosenFrom

\* The settled format is one: the features' is never empty.
LEMMA PromptBase ==
  ASSUME BaseInv, Prompt
  PROVE  BaseInv'
<1>1. /\ pc = "prompt" /\ pc' \in {"answered", "headers"}
      /\ answer' = IF pc' = "answered" THEN "sent" ELSE answer
      /\ UNCHANGED <<cfg, request, found, credential, listed, inForce>>
  BY DEF Prompt, Answer, Goto
<1>2. UNCHANGED <<cfg, endpoint, key, model, allowed, matches, upstream, actual,
                  credential, listed, inForce>>
  BY <1>1 DEF request, found
<1>3. prompt' \in [profile : Profile \union {None}, protocol : SoftToolProtocol \ {""}, custom : BOOLEAN]
  <2>1. IsConfig(cfg)
    BY ConfigAssumption DEF BaseInv, TypeOK, ConfigTypeOK, Valid
  <2>2. upstream.service \in ServiceConfig
    BY <1>1 DEF BaseInv, FoundInv, TypeOK, FoundTypeOK, Found
  <2>3. upstream.service.softToolProtocol \in SoftToolProtocol
    BY <2>2 DEF ServiceConfig
  <2>4. cfg.softToolProtocol \in SoftToolProtocol \ {""} /\ DOMAIN cfg.profiles \subseteq Profile
    BY <2>1 DEF IsConfig
  <2>5. \A p \in DOMAIN cfg.profiles :
          cfg.profiles[p].protocol \in SoftToolProtocol /\ cfg.profiles[p].template \in BOOLEAN
    <3>1. \A p \in DOMAIN cfg.profiles : cfg.profiles[p] \in PromptProfile
      BY <2>1 DEF IsConfig
    <3> QED
      BY <3>1 DEF PromptProfile
  <2>6. EnabledProfiles(cfg) \subseteq DOMAIN cfg.profiles
    BY DEF EnabledProfiles
  <2>7. \A p, s, c \in SoftToolProtocol : c # "" => Format(p, s, c) \in SoftToolProtocol \ {""}
    BY DEF Format
  <2>8. "" \in SoftToolProtocol
    BY DEF SoftToolProtocol
  <2> DEFINE s      == upstream.service
             wanted == IF s.profile # None THEN s.profile ELSE cfg.defaultProfile
  <2>9. CASE wanted \in EnabledProfiles(cfg)
    <3>1. prompt' = [profile  |-> wanted,
                     protocol |-> Format(cfg.profiles[wanted].protocol, s.softToolProtocol, cfg.softToolProtocol),
                     custom   |-> cfg.profiles[wanted].template]
      BY <2>9 DEF Prompt
    <3>2. wanted \in DOMAIN cfg.profiles /\ wanted \in Profile
      BY <2>4, <2>6, <2>9
    <3> HIDE DEF s, wanted
    <3>3. Format(cfg.profiles[wanted].protocol, s.softToolProtocol, cfg.softToolProtocol)
            \in SoftToolProtocol \ {""}
      BY <2>3, <2>4, <2>5, <2>7, <3>2 DEF s
    <3> QED
      BY <2>5, <3>1, <3>2, <3>3
  <2>10. CASE wanted \notin EnabledProfiles(cfg)
    <3>1. prompt' = [profile  |-> None,
                     protocol |-> Format("", s.softToolProtocol, cfg.softToolProtocol),
                     custom   |-> FALSE]
      BY <2>10 DEF Prompt
    <3> HIDE DEF s, wanted
    <3>2. Format("", s.softToolProtocol, cfg.softToolProtocol) \in SoftToolProtocol \ {""}
      BY <2>3, <2>4, <2>7, <2>8 DEF s
    <3> QED
      BY <3>1, <3>2
  <2> QED
    BY <2>9, <2>10
<1>4. TypeOK'
  <2>1. ConfigTypeOK'
    BY <1>2 DEF BaseInv, TypeOK, ConfigTypeOK
  <2>2. RequestTypeOK'
    BY <1>1, <1>2 DEF BaseInv, TypeOK, RequestTypeOK, Status
  <2>3. FoundTypeOK'
    BY <1>2 DEF BaseInv, TypeOK, FoundTypeOK
  <2>4. BuiltTypeOK'
    BY <1>2, <1>3 DEF BaseInv, TypeOK, BuiltTypeOK
  <2> QED
    BY <2>1, <2>2, <2>3, <2>4 DEF TypeOK
<1>5. FreshInv'
  BY <1>1, <1>2 DEF BaseInv, FreshInv, Early
<1>6. FoundInv'
  BY <1>1, <1>2, ZenonT(30) DEF BaseInv, FoundInv, Usable, Spoken, Found
<1> QED
  BY <1>4, <1>5, <1>6 DEF BaseInv

\* Headers only decides on a credential.
LEMMA HeadersBase ==
  ASSUME BaseInv, Headers
  PROVE  BaseInv'
<1>1. /\ pc = "headers" /\ pc' \in {"answered", "prompt"}
      /\ answer' = IF pc' = "answered" THEN "sent" ELSE answer
      /\ credential' \in {"client key", "API key", "blank"}
      /\ UNCHANGED <<cfg, request, found, prompt, listed, inForce>>
  BY DEF Headers, Answer, Goto
<1>2. UNCHANGED <<cfg, endpoint, key, model, allowed, matches, upstream, actual,
                  prompt, listed, inForce>>
  BY <1>1 DEF request, found
<1>3. TypeOK'
  <2>1. ConfigTypeOK'
    BY <1>2 DEF BaseInv, TypeOK, ConfigTypeOK
  <2>2. RequestTypeOK'
    BY <1>1, <1>2 DEF BaseInv, TypeOK, RequestTypeOK, Status
  <2>3. FoundTypeOK'
    BY <1>2 DEF BaseInv, TypeOK, FoundTypeOK
  <2>4. BuiltTypeOK'
    BY <1>1, <1>2 DEF BaseInv, TypeOK, BuiltTypeOK, Credential
  <2> QED
    BY <2>1, <2>2, <2>3, <2>4 DEF TypeOK
<1>4. FreshInv'
  BY <1>1, <1>2 DEF BaseInv, FreshInv, Early
<1>5. FoundInv'
  BY <1>1, <1>2, ZenonT(30) DEF BaseInv, FoundInv, Usable, Spoken, Found
<1> QED
  BY <1>3, <1>4, <1>5 DEF BaseInv

\* The steps that only say how a request goes on.
Onward ==
  \/ MissingAuthorization \/ VerifyPassthrough \/ VerifyNoServices \/ VerifyKey \/ BadBody
  \/ AnyUpstream \/ ScopePassthrough \/ Ambiguous \/ CheckAPIKey \/ CannotConvert
  \/ ScopeEmpty /\ HasServices(cfg)
  \/ ModelPassthrough /\ ~cfg.modelPassthrough
  \/ ChooseDefault /\ Defaults(cfg) \cap DOMAIN allowed = {}

\* They change nothing but pc and answer.
LEMMA OnwardUnchanged ==
  ASSUME Onward
  PROVE  UNCHANGED <<cfg, request, found, built, inForce>>
BY DEF Onward, MissingAuthorization, VerifyPassthrough, VerifyNoServices, VerifyKey, BadBody,
       AnyUpstream, ScopePassthrough, Ambiguous, CheckAPIKey, CannotConvert, ScopeEmpty,
       ModelPassthrough, ChooseDefault, found, built

\* Where those steps go.
LEMMA OnwardTo ==
  ASSUME Onward
  PROVE  /\ \/ pc' = "answered"
               /\ answer' \in Status \ {"listed", "sent"}
            \/ pc # "answered" /\ answer' = answer /\ pc' \in Early /\ pc \in Early
            \/ pc # "answered" /\ answer' = answer
               /\ pc' \in {"mode", "route", "match", "default"} /\ pc \in {"mode", "route", "match", "default"}
            \/ pc = "api key" /\ answer' = answer /\ pc' = Headed /\ cfg.keyPassthrough
         /\ pc' = "scope all" => cfg.keyPassthrough
<1> USE DEF Goto, Answer, Status
<1>1. CASE MissingAuthorization
  BY <1>1 DEF MissingAuthorization
<1>2. CASE VerifyPassthrough
  BY <1>2 DEF VerifyPassthrough, Early
<1>3. CASE VerifyNoServices
  BY <1>3 DEF VerifyNoServices, Early
<1>4. CASE VerifyKey
  BY <1>4 DEF VerifyKey, Early
<1>5. CASE BadBody
  BY <1>5 DEF BadBody
<1>6. CASE AnyUpstream
  BY <1>6 DEF AnyUpstream, Early
<1>7. CASE ScopePassthrough
  BY <1>7 DEF ScopePassthrough, Early
<1>8. CASE Ambiguous
  BY <1>8 DEF Ambiguous
<1>9. CASE CheckAPIKey
  BY <1>9 DEF CheckAPIKey, Headed
<1>10. CASE CannotConvert
  <2>1. UpstreamProtocol = {"openai_compat", "responses", "anthropic"}
    BY DEF UpstreamProtocol
  <2> QED
    BY <1>10 DEF CannotConvert
<1>11. CASE ScopeEmpty /\ HasServices(cfg)
  BY <1>11 DEF ScopeEmpty, Early
<1>12. CASE ModelPassthrough /\ ~cfg.modelPassthrough
  BY <1>12 DEF ModelPassthrough
<1>13. CASE ChooseDefault /\ Defaults(cfg) \cap DOMAIN allowed = {}
  BY <1>13 DEF ChooseDefault
<1> QED
  BY <1>1, <1>2, <1>3, <1>4, <1>5, <1>6, <1>7, <1>8, <1>9, <1>10, <1>11, <1>12, <1>13 DEF Onward

\* They go on to questions whose answer is still open.
LEMMA OnwardBase ==
  ASSUME BaseInv, Onward
  PROVE  BaseInv'
<1>1. UNCHANGED <<cfg, request, found, built, inForce>>
  BY OnwardUnchanged
<1>2. cfg \in inForce
  BY DEF BaseInv, TypeOK, ConfigTypeOK
<1>3. /\ \/ pc' = "answered"
            /\ answer' \in Status \ {"listed", "sent"}
         \/ pc # "answered" /\ answer' = answer /\ pc' \in Early /\ pc \in Early
         \/ pc # "answered" /\ answer' = answer
            /\ pc' \in {"mode", "route", "match", "default"} /\ pc \in {"mode", "route", "match", "default"}
         \/ pc = "api key" /\ answer' = answer /\ pc' \in {"prompt", "headers"}
      /\ pc' = "scope all" => cfg.keyPassthrough
  BY OnwardTo DEF Headed
<1>4. RequestTypeOK'
  <2>1. UNCHANGED <<endpoint, key, model>>
    BY <1>1 DEF request
  <2>2. pc' \in {"idle", "verify", "verify empty", "verify key", "verified", "scope", "scope all",
                 "scope empty", "scope key", "mode", "route", "match", "default", "api key",
                 "prompt", "headers", "answered"}
    BY <1>3 DEF Early
  <2>3. answer' = answer \/ answer' \in Status \ {"listed", "sent"}
    BY <1>3
  <2> QED
    BY <2>1, <2>2, <2>3 DEF BaseInv, TypeOK, RequestTypeOK
<1>5. pc' \in {"prompt", "headers"} => Found
  BY <1>3 DEF BaseInv, FoundInv, Early
<1> QED
  BY <1>1, <1>2, <1>3, <1>4, <1>5, GoesOn DEF Early

\* A request arrives without anything of the one before.
LEMMA ArriveBase ==
  ASSUME BaseInv, NEW e \in Endpoint, NEW k \in Key, NEW m \in Model, Arrive(e, k, m)
  PROVE  BaseInv'
<1>1. /\ pc = "idle" /\ pc' = "verify" /\ endpoint' = e /\ key' = k /\ model' = m
      /\ inForce' = {cfg}
      /\ UNCHANGED <<cfg, allowed, matches, upstream, actual, prompt, credential, listed, answer>>
  BY DEF Arrive, found, built
<1>2. TypeOK'
  <2>1. ConfigTypeOK'
    BY <1>1 DEF BaseInv, TypeOK, ConfigTypeOK
  <2>2. RequestTypeOK'
    BY <1>1 DEF BaseInv, TypeOK, RequestTypeOK
  <2>3. FoundTypeOK'
    BY <1>1 DEF BaseInv, TypeOK, FoundTypeOK
  <2>4. BuiltTypeOK'
    BY <1>1 DEF BaseInv, TypeOK, BuiltTypeOK
  <2> QED
    BY <2>1, <2>2, <2>3, <2>4 DEF TypeOK
<1>3. FreshInv'
  BY <1>1 DEF BaseInv, FreshInv, Early
<1>4. DOMAIN allowed' = {} /\ DOMAIN matches' = {} /\ ~Found'
  BY <1>1 DEF BaseInv, FreshInv, Early, NoService, Found
<1>5. FoundInv'
  BY <1>1, <1>4 DEF FoundInv
<1> QED
  BY <1>2, <1>3, <1>5 DEF BaseInv

\* What a request knew is dropped with it.
LEMMA FinishBase ==
  ASSUME BaseInv, Finish
  PROVE  BaseInv'
<1>1. TypeOK'
  <2>1. ConfigTypeOK'
    BY DEF Finish, BaseInv, TypeOK, ConfigTypeOK
  <2>2. RequestTypeOK'
    BY DEF Finish, RequestTypeOK, Endpoint
  <2>3. FoundTypeOK'
    BY DEF Finish, FoundTypeOK, NoService
  <2>4. BuiltTypeOK'
    BY DEF Finish, BuiltTypeOK
  <2> QED
    BY <2>1, <2>2, <2>3, <2>4 DEF TypeOK
<1>2. FreshInv'
  BY DEF Finish, FreshInv, Early
<1>3. DOMAIN allowed' = {} /\ DOMAIN matches' = {} /\ ~Found' /\ pc' = "idle" /\ inForce' # {}
  BY DEF Finish, NoService, Found
<1>4. FoundInv'
  BY <1>3 DEF FoundInv
<1> QED
  BY <1>1, <1>2, <1>4 DEF BaseInv

\* Everything that happens is one of those steps.
LEMMA Steps ==
  ASSUME Next
  PROVE  \/ Outside \/ Reloads \/ Onward \/ Scopes
         \/ ChooseRoute \/ TryMatch \/ ChoosesAllowed
         \/ Prompt \/ Headers
<1>1. ScopeEmpty => \/ ScopeEmpty /\ HasServices(cfg)
                    \/ ScopeEmpty /\ ~HasServices(cfg) /\ Scoped(NoService)
  BY DEF ScopeEmpty
<1> QED
  BY <1>1 DEF Next, Handler, Onward, Outside, Reloads, Scopes, ChoosesAllowed

\* BaseInv is inductive.
LEMMA BaseNext ==
  ASSUME BaseInv, [Next]_vars
  PROVE  BaseInv'
<1>1. CASE UNCHANGED vars
  <2>1. UNCHANGED <<cfg, pc, endpoint, key, model, allowed, matches, upstream, actual,
                    prompt, credential, listed, answer, inForce>>
    BY <1>1 DEF vars, request, found, built
  <2>2. TypeOK'
    <3>1. ConfigTypeOK'
      BY <2>1 DEF BaseInv, TypeOK, ConfigTypeOK
    <3>2. RequestTypeOK'
      BY <2>1 DEF BaseInv, TypeOK, RequestTypeOK
    <3>3. FoundTypeOK'
      BY <2>1 DEF BaseInv, TypeOK, FoundTypeOK
    <3>4. BuiltTypeOK'
      BY <2>1 DEF BaseInv, TypeOK, BuiltTypeOK
    <3> QED
      BY <3>1, <3>2, <3>3, <3>4 DEF TypeOK
  <2>3. FreshInv'
    BY <2>1 DEF BaseInv, FreshInv
  <2>4. FoundInv'
    BY <2>1 DEF BaseInv, FoundInv, Usable, Spoken, Found
  <2> QED
    BY <2>2, <2>3, <2>4 DEF BaseInv
<1>2. CASE Outside
  BY <1>2, ArriveBase, FinishBase DEF Outside
<1>3. CASE Reloads
  BY <1>3, ReloadBase DEF Reloads
<1> QED
  BY <1>1, <1>2, <1>3, Steps, OnwardBase, ScopeBase, ChooseRouteBase,
     TryMatchBase, ChooseAllowedBase, PromptBase, HeadersBase

\* Whatever is reloaded meanwhile, a request is only sent to a service that its client key may
\* use, at an endpoint whose protocol the service speaks.
THEOREM KeysKept == Spec => []KeysKeepToServices
<1>1. BaseInv => KeysKeepToServices
  <2> SUFFICES ASSUME BaseInv, Found
               PROVE  \E c \in inForce : Usable(c, upstream.name)
    BY DEF KeysKeepToServices, Usable
  <2>1. upstream.name \in DOMAIN allowed
    BY DEF BaseInv, TypeOK, FoundTypeOK, Found
  <2> QED
    BY <2>1 DEF BaseInv, FoundInv
<1> QED
  BY <1>1, BaseInit, BaseNext, PTL DEF Spec

-----------------------------------------------------------------------------
(* What the steps do                                                       *)

\* A reload leaves the request as it is.
LEMMA Reloaded ==
  ASSUME Reloads
  PROVE  /\ UNCHANGED <<pc, endpoint, key, model, allowed, matches, upstream, actual,
                        prompt, credential, listed, answer>>
         /\ pc # "idle" => inForce' = inForce \union {cfg'}
BY DEF Reloads, Reload, request, found, built

\* The services of the client key at the endpoint, and what the request does with them.
LEMMA ScopedFrom ==
  ASSUME BaseInv, Scopes
  PROVE  /\ UNCHANGED <<cfg, request, matches, upstream, actual, prompt, credential, inForce>>
         /\ \/ /\ pc = "scope all"
               /\ allowed' = ForProtocol(cfg.services, Spoken(endpoint))
            \/ /\ pc = "scope key"
               /\ allowed' = ForProtocol(KeyToServices(cfg, key), Spoken(endpoint))
            \/ /\ pc = "scope empty" /\ ~HasServices(cfg)
               /\ allowed' = ForProtocol(NoService, Spoken(endpoint))
         /\ \/ pc' = "answered" /\ answer' = "listed" /\ endpoint = "models"
            \/ pc' = "answered" /\ answer' = "400" /\ DOMAIN allowed' = {}
            \/ pc' = "mode" /\ answer' = answer
<1>1. ASSUME NEW services, Scoped(services)
      PROVE  /\ UNCHANGED <<cfg, request, matches, upstream, actual, prompt, credential, inForce>>
             /\ allowed' = ForProtocol(services, Spoken(endpoint))
             /\ \/ pc' = "answered" /\ answer' = "listed" /\ endpoint = "models"
                \/ pc' = "answered" /\ answer' = "400" /\ DOMAIN allowed' = {}
                \/ pc' = "mode" /\ answer' = answer
  BY <1>1 DEF Scoped, Answer, Goto
<1>2. CASE ScopeAll
  BY <1>1, <1>2 DEF ScopeAll
<1>3. CASE ScopeKey
  BY <1>1, <1>3 DEF ScopeKey
<1>4. CASE ScopeEmpty /\ ~HasServices(cfg) /\ Scoped(NoService)
  BY <1>1, <1>4 DEF ScopeEmpty
<1> QED
  BY <1>2, <1>3, <1>4 DEF Scopes

\* A match is tried, and chosen or passed over.
LEMMA Tried ==
  ASSUME BaseInv, TryMatch
  PROVE  /\ pc = "match"
         /\ \/ \E n \in DOMAIN matches :
                 Choose(n, matches[n].service, matches[n].actual) /\ matches' = matches
            \/ /\ UNCHANGED <<cfg, pc, request, allowed, upstream, actual, built, answer, inForce>>
               /\ DOMAIN matches' \subseteq DOMAIN matches
               /\ \A n \in DOMAIN matches' : matches'[n] = matches[n]
<1> DEFINE n == First(DOMAIN matches)
<1>1. pc = "match" /\ DOMAIN matches # {}
  BY DEF TryMatch
<1>2. n \in DOMAIN matches
  <2>1. DOMAIN matches \subseteq Nat
    BY AllowedNames DEF BaseInv, FoundInv
  <2> QED
    BY <1>1, <2>1, FirstOf
<1>3. CASE Choose(n, matches[n].service, matches[n].actual) /\ matches' = matches
  BY <1>1, <1>2, <1>3
<1>4. CASE /\ matches' = [o \in DOMAIN matches \ {n} |-> matches[o]]
           /\ UNCHANGED <<cfg, pc, request, allowed, upstream, actual, built, answer, inForce>>
  <2>1. DOMAIN matches' = DOMAIN matches \ {n} /\ \A o \in DOMAIN matches' : matches'[o] = matches[o]
    BY <1>4
  <2> QED
    BY <1>1, <1>4, <2>1
<1> QED
  BY <1>3, <1>4 DEF TryMatch

\* A service that is allowed is chosen for the model.
LEMMA ChosenAllowed ==
  ASSUME BaseInv, ChoosesAllowed
  PROVE  /\ \/ pc = "mode" /\ cfg.modelPassthrough
            \/ pc = "default"
         /\ \E n \in DOMAIN allowed : Choose(n, allowed[n], model) /\ matches' = matches
<1>1. pc \in {"mode", "default"} /\ DOMAIN allowed # {}
  BY DEF ChoosesAllowed, ModelPassthrough, ChooseDefault, BaseInv, FreshInv
<1>2. First(DOMAIN allowed) \in DOMAIN allowed
  BY <1>1, AllowedNames, FirstOf
<1> QED
  BY <1>2 DEF ChoosesAllowed, ModelPassthrough, ChooseDefault

\* A request that has not arrived is only waited for, while configurations are loaded.
LEMMA IdleOnly ==
  ASSUME BaseInv, Next, pc = "idle", ~Outside
  PROVE  Reloads
<1>1. ~Onward
  BY DEF Onward, MissingAuthorization, VerifyPassthrough, VerifyNoServices, VerifyKey, BadBody,
         AnyUpstream, ScopePassthrough, Ambiguous, CheckAPIKey, CannotConvert, ScopeEmpty,
         ModelPassthrough, ChooseDefault
<1>2. ~Scopes
  BY DEF Scopes, ScopeAll, ScopeKey, ScopeEmpty
<1>3. ~ChooseRoute /\ ~TryMatch /\ ~ChoosesAllowed
  BY DEF ChooseRoute, TryMatch, ChoosesAllowed, ModelPassthrough, ChooseDefault
<1>4. ~Prompt /\ ~Headers
  BY DEF Prompt, Headers
<1> QED
  BY <1>1, <1>2, <1>3, <1>4, Steps

\* While a request is served it stays the same request, and the configurations that were
\* in force stay in the record.
LEMMA Moves ==
  ASSUME BaseInv, Next, pc # "idle", ~Outside
  PROVE  /\ UNCHANGED <<endpoint, key, model>>
         /\ inForce \subseteq inForce'
         /\ Reloads \/ (cfg' = cfg /\ inForce' = inForce)
<1> DEFINE Kept == UNCHANGED <<endpoint, key, model, cfg, inForce>>
<1>1. CASE Reloads
  BY <1>1, Reloaded
<1>2. CASE Onward
  <2>1. Kept
    BY <1>2, OnwardUnchanged DEF request
  <2> QED
    BY <2>1
<1>3. CASE Scopes
  <2>1. Kept
    BY <1>3, ScopedFrom DEF request
  <2> QED
    BY <2>1
<1>4. ASSUME NEW n, NEW s, NEW m, Choose(n, s, m)
      PROVE  Kept
  BY <1>4, Chosen DEF request
<1>5. CASE ChooseRoute
  <2>1. Kept
    BY <1>4, <1>5, RouteCases DEF request
  <2> QED
    BY <2>1
<1>6. CASE TryMatch
  <2>1. Kept
    BY <1>4, <1>6, Tried DEF request
  <2> QED
    BY <2>1
<1>7. CASE ChoosesAllowed
  <2>1. Kept
    BY <1>4, <1>7, ChosenAllowed
  <2> QED
    BY <2>1
<1>8. CASE Prompt \/ Headers
  BY <1>8 DEF Prompt, Headers, request
<1> QED
  BY <1>1, <1>2, <1>3, <1>5, <1>6, <1>7, <1>8, Steps

\* A configuration that is the only one in force after a step was so before it.
LEMMA SteadyBefore ==
  ASSUME BaseInv, Next, pc # "idle", ~Outside, Steady'
  PROVE  Steady /\ cfg' = cfg /\ inForce' = inForce
<1>1. cfg \in inForce
  BY DEF BaseInv, TypeOK, ConfigTypeOK
<1>2. CASE Reloads
  BY <1>1, <1>2, Reloaded DEF Steady
<1> QED
  BY <1>2, Moves DEF Steady

-----------------------------------------------------------------------------
(* A service that lists the model throughout                               *)

\* One and the same service lists the model for the client key in every configuration
\* that was in force while the request was served.
Sole(n) == \A c \in inForce : ~c.modelPassthrough /\ OnlyLister(c, n)

\* A request on its way to service n, or answered without having been refused.
OnCourse(n) ==
  /\ pc \in {"mode", "route"} => n \in DOMAIN allowed
  /\ pc \notin {"match", "default"}
  /\ ~Refused
  /\ Found => upstream.name = n

CourseInv == \A n : Sole(n) => OnCourse(n)

\* Such a service is one of the configuration that is loaded, and the only match.
LEMMA SoleServed ==
  ASSUME BaseInv, NEW n, Sole(n)
  PROVE  /\ ~cfg.modelPassthrough
         /\ n \in DOMAIN cfg.services /\ key \in cfg.services[n].clientKeys
         /\ cfg.services[n].upstreamProtocol \in {Spoken(endpoint), "openai_compat"}
         /\ DOMAIN Routed = {n}
<1>1. ~cfg.modelPassthrough /\ OnlyLister(cfg, n)
  BY DEF BaseInv, TypeOK, ConfigTypeOK, Sole
<1>2. DOMAIN Routed = {o \in DOMAIN cfg.services : model \in Requested(cfg.services[o])}
  BY DEF Routed, Routes
<1> QED
  BY <1>1, <1>2 DEF OnlyLister, Serves

\* Nothing can have gone wrong for a request that nothing has been done for.
LEMMA FreshCourse ==
  ASSUME BaseInv', pc' \in {"idle", "verify"}
  PROVE  CourseInv'
<1>1. answer' = None /\ upstream' = NotFound
  BY DEF BaseInv, FreshInv, Early
<1>2. None \notin Status
  BY ConfigAssumption
<1>3. ~Refused' /\ ~Found'
  BY <1>1, <1>2 DEF Refused, Found, Status
<1> QED
  BY <1>3 DEF CourseInv, OnCourse

\* The checks of the key, of the services and of the allowed ones all find service n.
LEMMA OnwardCourse ==
  ASSUME BaseInv, Onward, NEW n, Sole(n), OnCourse(n)
  PROVE  OnCourse(n)'
<1>1. UNCHANGED <<allowed, upstream>> /\ (Found' <=> Found)
  BY OnwardUnchanged DEF found, Found
<1>2. /\ ~cfg.modelPassthrough
      /\ n \in DOMAIN cfg.services /\ key \in cfg.services[n].clientKeys
  BY SoleServed
<1>3. /\ pc \in {"mode", "route"} => n \in DOMAIN allowed
      /\ pc \notin {"match", "default"}
      /\ answer \notin {"401", "503", "ambiguous"} /\ (answer = "400" => Found)
      /\ Found => upstream.name = n
  BY DEF OnCourse, Refused
<1> DEFINE Good == /\ pc' \in {"mode", "route"} => pc \in {"mode", "route"}
                   /\ pc' \notin {"match", "default"}
                   /\ answer' \notin {"401", "503", "ambiguous"} /\ (answer' = "400" => Found)
<1>a. Good => OnCourse(n)'
  BY <1>1, <1>3 DEF OnCourse, Refused
<1> SUFFICES Good
  BY <1>a
<1> USE DEF Goto, Answer
<1>4. CASE MissingAuthorization
  BY <1>4 DEF MissingAuthorization
<1>5. CASE VerifyPassthrough
  BY <1>3, <1>5 DEF VerifyPassthrough
<1>6. CASE VerifyNoServices
  BY <1>3, <1>6 DEF VerifyNoServices
<1>7. CASE VerifyKey
  <2>1. n \in DOMAIN KeyToServices(cfg, key)
    BY <1>2 DEF KeyToServices
  <2> QED
    BY <1>3, <1>7, <2>1 DEF VerifyKey
<1>8. CASE BadBody
  BY <1>8 DEF BadBody
<1>9. CASE AnyUpstream
  BY <1>2, <1>3, <1>9 DEF AnyUpstream, HasServices
<1>10. CASE ScopePassthrough
  BY <1>3, <1>10 DEF ScopePassthrough
<1>11. CASE Ambiguous
  BY <1>3, <1>11 DEF Ambiguous
<1>12. CASE CheckAPIKey
  BY <1>3, <1>12 DEF CheckAPIKey, Headed
<1>13. CASE CannotConvert
  <2>1. pc = "prompt" /\ Found
    BY <1>13 DEF CannotConvert, BaseInv, FoundInv
  <2> QED
    BY <1>13, <2>1 DEF CannotConvert
<1>14. CASE ScopeEmpty /\ HasServices(cfg)
  BY <1>3, <1>14 DEF ScopeEmpty
<1>15. CASE ModelPassthrough /\ ~cfg.modelPassthrough
  BY <1>3, <1>15 DEF ModelPassthrough
<1>16. CASE ChooseDefault /\ Defaults(cfg) \cap DOMAIN allowed = {}
  BY <1>3, <1>16 DEF ChooseDefault
<1> QED
  BY <1>4, <1>5, <1>6, <1>7, <1>8, <1>9, <1>10, <1>11, <1>12, <1>13, <1>14, <1>15, <1>16 DEF Onward

\* Service n is among those the client key may use.
LEMMA ScopesCourse ==
  ASSUME BaseInv, Scopes, NEW n, Sole(n), OnCourse(n)
  PROVE  OnCourse(n)'
<1>1. /\ n \in DOMAIN cfg.services /\ key \in cfg.services[n].clientKeys
      /\ cfg.services[n].upstreamProtocol \in {Spoken(endpoint), "openai_compat"}
  BY SoleServed
<1>2. n \in DOMAIN ForProtocol(cfg.services, Spoken(endpoint))
  BY <1>1 DEF ForProtocol
<1>3. n \in DOMAIN ForProtocol(KeyToServices(cfg, key), Spoken(endpoint))
  BY <1>1 DEF ForProtocol, KeyToServices
<1>4. HasServices(cfg)
  BY <1>1 DEF HasServices
<1>5. n \in DOMAIN allowed'
  BY <1>2, <1>3, <1>4, ScopedFrom
<1>6. upstream' = upstream
  BY ScopedFrom
<1> QED
  BY <1>5, <1>6, ScopedFrom DEF OnCourse, Refused, Found

\* Service n has the only route, so it is the one that is chosen.
LEMMA ChooseCourse ==
  ASSUME BaseInv, ChooseRoute \/ TryMatch \/ ChoosesAllowed, NEW n, Sole(n), OnCourse(n)
  PROVE  OnCourse(n)'
<1>1. /\ ~cfg.modelPassthrough /\ DOMAIN Routed = {n}
  BY SoleServed
<1>2. pc = "route" /\ ChooseRoute /\ n \in DOMAIN allowed
  BY <1>1, RouteCases, Tried, ChosenAllowed DEF OnCourse
<1>3. Matches = {n}
  BY <1>1, <1>2 DEF Matches, Matching
<1>4. Cardinality(Matches) = 1
  BY <1>3, FS_Singleton
<1>5. \E o \in Matches : Choose(o, Routed[o].service, Routed[o].actual)
  BY <1>2, <1>3, <1>4, RouteCases
<1>6. Choose(n, Routed[n].service, Routed[n].actual)
  BY <1>3, <1>5
<1> DEFINE s == Routed[n].service
<1> HIDE DEF s
<1>7. Choose(n, s, Routed[n].actual)
  BY <1>6 DEF s
<1>8. /\ upstream' = [name |-> n, service |-> s] /\ pc' \in {"api key", "headers", "prompt"}
      /\ answer' = answer
  BY <1>7, Chosen
<1>9. upstream = NotFound
  BY <1>2 DEF BaseInv, FreshInv
<1> QED
  BY <1>8, <1>9 DEF OnCourse, Refused, Found

\* CourseInv is inductive, relative to BaseInv.
LEMMA CourseNext ==
  ASSUME BaseInv, CourseInv, BaseInv', [Next]_vars
  PROVE  CourseInv'
<1>1. CASE UNCHANGED vars
  <2>1. UNCHANGED <<pc, endpoint, key, model, allowed, upstream, answer, inForce>>
    BY <1>1 DEF vars, request, found
  <2>2. \A n : Sole(n)' => Sole(n)
    BY <2>1 DEF Sole, OnlyLister, Serves, Spoken
  <2>3. \A n : OnCourse(n) => OnCourse(n)'
    BY <2>1 DEF OnCourse, Refused, Found
  <2> QED
    BY <2>2, <2>3 DEF CourseInv
<1>2. CASE Outside
  <2>1. pc' \in {"idle", "verify"}
    BY <1>2 DEF Outside, Finish, Arrive
  <2> QED
    BY <2>1, FreshCourse
<1>3. CASE Next /\ pc = "idle" /\ ~Outside
  <2>1. Reloads
    BY <1>3, IdleOnly
  <2> QED
    BY <1>3, <2>1, Reloaded, FreshCourse
<1>4. CASE Next /\ pc # "idle" /\ ~Outside
  <2>1. UNCHANGED <<endpoint, key, model>> /\ inForce \subseteq inForce'
    BY <1>4, Moves
  <2> SUFFICES ASSUME NEW n, Sole(n)'
               PROVE  OnCourse(n)'
    BY DEF CourseInv
  <2>2. Sole(n) /\ OnCourse(n)
    BY <2>1 DEF Sole, OnlyLister, Serves, Spoken, CourseInv
  <2>3. CASE Reloads
    BY <2>2, <2>3, Reloaded DEF OnCourse, Refused, Found
  <2>4. CASE Prompt \/ Headers
    <3>1. /\ pc \in {"prompt", "headers"} /\ pc' \in {"prompt", "headers", "answered"}
          /\ answer' \in {answer, "sent"} /\ upstream' = upstream
      BY <2>4 DEF Prompt, Headers, Goto, Answer, found
    <3> QED
      BY <2>2, <3>1 DEF OnCourse, Refused, Found
  <2> QED
    BY <1>4, <2>2, <2>3, <2>4, Steps, OnwardCourse, ScopesCourse, ChooseCourse
<1> QED
  BY <1>1, <1>2, <1>3, <1>4

\* A request for a model that one and the same service lists throughout is not refused, and
\* reaches that service, over any number of reloads.
THEOREM Undisturbed == Spec => []UndisturbedByReload
<1>1. Init => CourseInv
  <2> SUFFICES ASSUME Init
               PROVE  CourseInv
    OBVIOUS
  <2>1. answer = None /\ upstream = NotFound /\ pc = "idle" /\ None \notin Status
    BY ConfigAssumption DEF Init
  <2>2. ~Refused /\ ~Found
    BY <2>1 DEF Refused, Found, Status
  <2> QED
    BY <2>1, <2>2 DEF CourseInv, OnCourse
<1>2. BaseInv /\ CourseInv /\ [Next]_vars => (BaseInv /\ CourseInv)'
  BY BaseNext, CourseNext
<1>3. CourseInv => UndisturbedByReload
  BY DEF CourseInv, OnCourse, Sole, UndisturbedByReload
<1> QED
  BY <1>1, <1>2, <1>3, BaseInit, PTL DEF Spec

-----------------------------------------------------------------------------
(* What is sent                                                            *)

\* Keys were passed through, or were not, for a part of the time.
Passed   == \E c \in inForce : c.keyPassthrough
Withheld == \E c \in inForce : ~c.keyPassthrough

\* The profile a prompt is of, by the settings.
Bound == IF upstream.service.profile # None THEN upstream.service.profile
         ELSE cfg.defaultProfile

\* An upstream without an API key is gone on with only where keys were passed through,
\* and the headers only lack a key if both was true for a part of the time.
KeyInv ==
  /\ pc \in {"prompt", "headers"} => upstream.service.apiKey \/ Passed
  /\ credential = "client key" => Passed
  /\ credential = "blank" => Passed /\ Withheld
  /\ pc = "prompt" /\ endpoint = "responses" => credential # None
  /\ answer = "sent" => credential # None

PromptInv == Steady /\ prompt # NoPrompt => prompt.profile = Bound

SentInv == KeyInv /\ PromptInv

\* Nothing is sent of a request that nothing has been done for.
LEMMA FreshSent ==
  ASSUME BaseInv', pc' \in {"idle", "verify"}
  PROVE  SentInv'
<1>1. answer' = None /\ credential' = None /\ prompt' = NoPrompt
  BY DEF BaseInv, FreshInv, Early
<1>2. None \notin Status /\ None \notin Credential
  BY ConfigAssumption
<1> QED
  BY <1>1, <1>2 DEF SentInv, KeyInv, PromptInv, Status, Credential

\* With a reload there are more configurations in force, and never only the new one.
LEMMA ReloadSent ==
  ASSUME BaseInv, SentInv, Next, Reloads, pc # "idle", ~Outside
  PROVE  SentInv'
<1>1. UNCHANGED <<pc, endpoint, upstream, prompt, credential, answer>>
  BY Reloaded
<1>2. inForce \subseteq inForce'
  BY Moves
<1>3. (Passed => Passed') /\ (Withheld => Withheld')
  BY <1>2 DEF Passed, Withheld
<1>4. KeyInv'
  BY <1>1, <1>3 DEF SentInv, KeyInv
<1>5. PromptInv'
  BY <1>1, SteadyBefore DEF SentInv, PromptInv, Bound
<1> QED
  BY <1>4, <1>5 DEF SentInv

\* CheckAPIKey goes on without an API key only where keys are passed through.
LEMMA OnwardSent ==
  ASSUME BaseInv, SentInv, Onward
  PROVE  SentInv'
<1>1. UNCHANGED <<cfg, endpoint, upstream, prompt, credential, inForce>>
  BY OnwardUnchanged DEF request, found, built
<1>2. cfg \in inForce
  BY DEF BaseInv, TypeOK, ConfigTypeOK
<1>3. \/ pc' = "answered" /\ answer' # "sent"
      \/ answer' = answer /\ pc' \notin {"prompt", "headers"}
      \/ answer' = answer /\ pc' = Headed /\ cfg.keyPassthrough
  BY OnwardTo DEF Early
<1>4. KeyInv'
  BY <1>1, <1>2, <1>3 DEF SentInv, KeyInv, Passed, Withheld, Headed
<1>5. PromptInv'
  BY <1>1 DEF SentInv, PromptInv, Bound, Steady
<1> QED
  BY <1>4, <1>5 DEF SentInv

\* Nothing is made for a request while its services are looked for.
LEMMA ScopesSent ==
  ASSUME BaseInv, SentInv, Scopes
  PROVE  SentInv'
<1>1. UNCHANGED <<cfg, endpoint, upstream, prompt, credential, inForce>>
  BY ScopedFrom DEF request
<1>2. pc' \in {"answered", "mode"} /\ answer' \in {"listed", "400", answer}
  BY ScopedFrom
<1>3. KeyInv'
  BY <1>1, <1>2 DEF SentInv, KeyInv, Passed, Withheld
<1>4. PromptInv'
  BY <1>1 DEF SentInv, PromptInv, Bound, Steady
<1> QED
  BY <1>3, <1>4 DEF SentInv

\* A service is gone on with if it has an API key.
LEMMA ChosenSent ==
  ASSUME BaseInv, SentInv, pc \in {"mode", "route", "match", "default"},
         NEW n, NEW s, NEW m, Choose(n, s, m)
  PROVE  SentInv'
<1>1. prompt = NoPrompt /\ credential = None /\ answer = None
  BY DEF BaseInv, FreshInv
<1>2. /\ upstream' = [name |-> n, service |-> s]
      /\ \/ pc' = "api key"
         \/ pc' = "headers" /\ s.apiKey
         \/ pc' = "prompt" /\ s.apiKey /\ endpoint # "responses"
      /\ UNCHANGED <<endpoint, prompt, credential, answer>>
  BY Chosen DEF request, built
<1>3. None \notin Status /\ None \notin Credential
  BY ConfigAssumption
<1>4. KeyInv'
  BY <1>1, <1>2, <1>3 DEF KeyInv, Status, Credential
<1>5. PromptInv'
  BY <1>1, <1>2 DEF PromptInv
<1> QED
  BY <1>4, <1>5 DEF SentInv

\* So it is with each of the steps that choose a service.
LEMMA ChooseSent ==
  ASSUME BaseInv, SentInv, ChooseRoute \/ TryMatch \/ ChoosesAllowed
  PROVE  SentInv'
<1>1. ASSUME UNCHANGED <<cfg, request, upstream, built, answer, inForce>>,
             pc' \notin {"prompt", "headers"}
      PROVE  SentInv'
  <2>1. UNCHANGED <<cfg, endpoint, upstream, prompt, credential, answer, inForce>>
    BY <1>1 DEF request, built
  <2>2. KeyInv'
    BY <1>1, <2>1 DEF SentInv, KeyInv, Passed, Withheld
  <2>3. PromptInv'
    BY <2>1 DEF SentInv, PromptInv, Bound, Steady
  <2> QED
    BY <2>2, <2>3 DEF SentInv
<1>2. CASE ChooseRoute
  <2>1. \/ \E n, s, m : Choose(n, s, m)
        \/ /\ UNCHANGED <<cfg, request, upstream, built, answer, inForce>>
           /\ pc' \in {"match", "default"}
    BY <1>2, RouteCases DEF found
  <2>2. pc = "route"
    BY <1>2, RouteCases
  <2> QED
    BY <1>1, <2>1, <2>2, ChosenSent
<1>3. CASE TryMatch
  <2>1. \/ \E n, s, m : Choose(n, s, m)
        \/ /\ UNCHANGED <<cfg, request, upstream, built, answer, inForce>>
           /\ pc' = pc
    BY <1>3, Tried
  <2>2. pc = "match"
    BY <1>3, Tried
  <2> QED
    BY <1>1, <2>1, <2>2, ChosenSent
<1>4. CASE ChoosesAllowed
  <2>1. pc \in {"mode", "default"} /\ \E n, s, m : Choose(n, s, m)
    BY <1>4, ChosenAllowed
  <2> QED
    BY <2>1, ChosenSent
<1> QED
  BY <1>2, <1>3, <1>4

\* Validate leaves no service, and no default, with a profile that is not enabled.
LEMMA PromptSent ==
  ASSUME BaseInv, SentInv, Prompt
  PROVE  SentInv'
<1>1. /\ pc = "prompt"
      /\ \/ endpoint = "responses" /\ pc' = "answered" /\ answer' = "sent"
         \/ endpoint # "responses" /\ pc' = "headers" /\ answer' = answer
      /\ UNCHANGED <<cfg, endpoint, upstream, credential, inForce>>
  BY DEF Prompt, Answer, Goto, request, found
<1>2. KeyInv'
  BY <1>1 DEF SentInv, KeyInv, Passed, Withheld
<1>3. ASSUME Steady
      PROVE  prompt'.profile = Bound
  <2>1. cfg \in Valid /\ IsConfig(cfg) /\ Validate(cfg)
    BY ConfigAssumption DEF BaseInv, TypeOK, ConfigTypeOK, Valid
  <2>2. /\ upstream.name \in DOMAIN cfg.services
        /\ upstream.service = cfg.services[upstream.name]
    BY <1>1, <1>3 DEF BaseInv, FoundInv, Steady
  <2>3. upstream.service \in Range(cfg.services)
    BY <2>2 DEF Range
  <2>4. /\ cfg.defaultProfile \in EnabledProfiles(cfg) \union {None}
        /\ upstream.service.profile \in EnabledProfiles(cfg) \union {None}
    BY <2>1, <2>3 DEF Validate, ProfilesUsable
  <2>5. None \notin EnabledProfiles(cfg)
    BY <2>1, ConfigAssumption DEF IsConfig, EnabledProfiles
  <2>6. Bound \in EnabledProfiles(cfg) \/ Bound = None
    BY <2>4 DEF Bound
  <2>7. prompt'.profile = IF Bound \in EnabledProfiles(cfg) THEN Bound ELSE None
    BY DEF Prompt, Bound
  <2> QED
    BY <2>5, <2>6, <2>7
<1>4. PromptInv'
  BY <1>1, <1>3 DEF PromptInv, Bound, Steady
<1> QED
  BY <1>2, <1>4 DEF SentInv

\* Headers without a key need one configuration that passes keys through and one that does not.
LEMMA HeadersSent ==
  ASSUME BaseInv, SentInv, Headers
  PROVE  SentInv'
<1>1. /\ pc = "headers"
      /\ pc' \in {"answered", "prompt"}
      /\ UNCHANGED <<cfg, endpoint, upstream, prompt, inForce>>
      /\ credential' = IF cfg.keyPassthrough THEN "client key"
                       ELSE IF upstream.service.apiKey THEN "API key" ELSE "blank"
  BY DEF Headers, Answer, Goto, request, found
<1>2. cfg \in inForce
  BY DEF BaseInv, TypeOK, ConfigTypeOK
<1>3. None \notin Credential
  BY ConfigAssumption
<1>4. upstream.service.apiKey \/ Passed
  BY <1>1 DEF SentInv, KeyInv
<1>5. credential' # None
  BY <1>1, <1>3 DEF Credential
<1>6. KeyInv'
  <2>1. (Passed' <=> Passed) /\ (Withheld' <=> Withheld)
    BY <1>1 DEF Passed, Withheld
  <2>2. CASE cfg.keyPassthrough
    <3>1. Passed /\ credential' = "client key"
      BY <1>1, <1>2, <2>2 DEF Passed
    <3> QED
      BY <1>5, <2>1, <3>1 DEF KeyInv
  <2>3. CASE ~cfg.keyPassthrough
    <3>1. Withheld /\ credential' = IF upstream.service.apiKey THEN "API key" ELSE "blank"
      BY <1>1, <1>2, <2>3 DEF Withheld
    <3> QED
      BY <1>1, <1>4, <1>5, <2>1, <3>1 DEF KeyInv
  <2> QED
    BY <2>2, <2>3
<1>7. PromptInv'
  BY <1>1 DEF SentInv, PromptInv, Bound, Steady
<1> QED
  BY <1>6, <1>7 DEF SentInv

\* SentInv is inductive, relative to BaseInv.
LEMMA SentNext ==
  ASSUME BaseInv, SentInv, BaseInv', [Next]_vars
  PROVE  SentInv'
<1>1. CASE UNCHANGED vars
  <2>1. UNCHANGED <<cfg, pc, endpoint, upstream, prompt, credential, answer, inForce>>
    BY <1>1 DEF vars, request, found, built
  <2>2. KeyInv'
    BY <2>1 DEF SentInv, KeyInv, Passed, Withheld
  <2>3. PromptInv'
    BY <2>1 DEF SentInv, PromptInv, Bound, Steady
  <2> QED
    BY <2>2, <2>3 DEF SentInv
<1>2. CASE Outside
  <2>1. pc' \in {"idle", "verify"}
    BY <1>2 DEF Outside, Finish, Arrive
  <2> QED
    BY <2>1, FreshSent
<1>3. CASE Next /\ pc = "idle" /\ ~Outside
  <2>1. pc' = "idle"
    BY <1>3, IdleOnly, Reloaded
  <2> QED
    BY <2>1, FreshSent
<1>4. CASE Next /\ pc # "idle" /\ ~Outside
  BY <1>4, Steps, ReloadSent, OnwardSent, ScopesSent, ChooseSent, PromptSent, HeadersSent
<1> QED
  BY <1>1, <1>2, <1>3, <1>4

\* What is sent carries the key and the prompt that the settings say.
THEOREM Sent == Spec => []SentAsConfigured
<1>1. Init => SentInv
  <2> SUFFICES ASSUME Init
               PROVE  SentInv
    OBVIOUS
  <2>1. answer = None /\ credential = None /\ prompt = NoPrompt /\ pc = "idle"
    BY DEF Init
  <2>2. None \notin Status /\ None \notin Credential
    BY ConfigAssumption
  <2> QED
    BY <2>1, <2>2 DEF SentInv, KeyInv, PromptInv, Status, Credential
<1>2. BaseInv /\ SentInv /\ [Next]_vars => (BaseInv /\ SentInv)'
  BY BaseNext, SentNext
<1>3. BaseInv /\ SentInv => SentAsConfigured
  <2> SUFFICES ASSUME BaseInv, SentInv
               PROVE  SentAsConfigured
    OBVIOUS
  <2>1. TypeOK /\ credential \in {"client key", "API key", "blank", None}
    BY DEF BaseInv, TypeOK, BuiltTypeOK, Credential
  <2>2. Steady => ~(Passed /\ Withheld)
    BY DEF Steady, Passed, Withheld
  <2>3. ASSUME answer = "sent"
        PROVE  /\ credential = "client key" => Passed
               /\ ~Passed => credential = "API key"
               /\ Steady => credential # "blank"
    BY <2>1, <2>2, <2>3 DEF SentInv, KeyInv
  <2>4. Steady /\ prompt # NoPrompt => prompt.profile = Bound
    BY DEF SentInv, PromptInv
  <2> QED
    BY <2>1, <2>3, <2>4 DEF SentAsConfigured, Passed, Bound
<1> QED
  BY <1>1, <1>2, <1>3, BaseInit, PTL DEF Spec

-----------------------------------------------------------------------------
(* While the configuration stays                                           *)

\* What a request is entitled to under the configuration that is loaded.
Entitled   == {n \in DOMAIN cfg.services : Serves(cfg, n)}
OwnListers == {n \in Listers(cfg) : cfg.services[n].upstreamProtocol = Spoken(endpoint)}

\* What the questions that were asked have told, as long as the configuration stays.
AskedInv ==
  /\ pc \in {"verify empty", "verify key", "scope empty", "scope key"} => ~cfg.keyPassthrough
  /\ pc \in {"scope", "scope all", "scope empty", "scope key"} => HasServices(cfg)
  /\ pc = "scope all" => cfg.keyPassthrough

\* The routes that are tried are those of the listers, if it was not settled which.
MatchInv ==
  /\ pc \in {"mode", "route", "match", "default"} => DOMAIN allowed = Entitled
  /\ pc = "default" => Listers(cfg) = {}
  /\ pc = "match" =>
       /\ DOMAIN matches \subseteq Listers(cfg)
       /\ \A n \in DOMAIN matches : matches[n] = Routed[n]
       /\ OwnListers = {}
       /\ cfg.keyPassthrough /\ Spoken(endpoint) # "openai_compat"

\* Why a request for a listed model is refused.
ServedInv ==
  Refused /\ endpoint # "models" /\ Listers(cfg) # {} =>
    answer = "ambiguous" /\ cfg.keyPassthrough /\ Spoken(endpoint) # "openai_compat"

\* Where a request for a listed model is sent.
EntryInv ==
  Found /\ Listers(cfg) # {} =>
    /\ upstream.name \in IF OwnListers = {} THEN Listers(cfg) ELSE OwnListers
    /\ [requested |-> model, actual |-> actual] \in upstream.service.models

SteadyInv ==
  Steady /\ ~cfg.modelPassthrough => AskedInv /\ MatchInv /\ ServedInv /\ EntryInv

\* A step that loads the configuration the request has had all along.
Same == UNCHANGED <<cfg, endpoint, key, model, inForce>>

\* What a request is entitled to depends on the request and the configuration alone.
LEMMA SameListers ==
  ASSUME UNCHANGED <<cfg, endpoint, key, model>>
  PROVE  /\ Listers(cfg)' = Listers(cfg) /\ OwnListers' = OwnListers /\ Entitled' = Entitled
         /\ Spoken(endpoint)' = Spoken(endpoint) /\ Routed' = Routed
<1>1. \A c, n : Serves(c, n)' <=> Serves(c, n)
  BY DEF Serves, Spoken
<1>2. Spoken(endpoint)' = Spoken(endpoint)
  BY DEF Spoken
<1>3. \A c : Listers(c)' = Listers(c)
  BY <1>1 DEF Listers
<1>4. Listers(cfg)' = Listers(cfg)
  BY <1>3
<1>5. Entitled' = Entitled
  BY <1>1 DEF Entitled
<1>6. OwnListers' = OwnListers
  BY <1>2, <1>4 DEF OwnListers
<1>7. Routed' = Routed
  BY DEF Routed, Routes
<1> QED
  BY <1>2, <1>4, <1>5, <1>6, <1>7

\* The routes of the model to the services allowed are those to its listers.
LEMMA MatchesAreListers ==
  ASSUME BaseInv, DOMAIN allowed = Entitled
  PROVE  /\ Matches = Listers(cfg) /\ OwnRoutes = OwnListers
         /\ \A n \in Matches :
              /\ Routed[n].service = cfg.services[n]
              /\ [requested |-> model, actual |-> Routed[n].actual] \in cfg.services[n].models
<1>1. cfg \in Valid
  BY DEF BaseInv, TypeOK, ConfigTypeOK
<1>2. DOMAIN Routed = {n \in DOMAIN cfg.services : model \in Requested(cfg.services[n])}
  BY DEF Routed, Routes
<1>3. Matches = Listers(cfg)
  BY <1>2 DEF Matches, Matching, Listers, Entitled
<1>4. \A n \in Matches :
        /\ Routed[n].service = cfg.services[n]
        /\ [requested |-> model, actual |-> Routed[n].actual] \in cfg.services[n].models
  BY <1>1, RouteOf DEF Matches, Matching, Routed
<1>5. OwnRoutes = OwnListers
  BY <1>3, <1>4 DEF OwnRoutes, OwnProtocol, OwnListers
<1> QED
  BY <1>3, <1>4, <1>5

\* Two services of openai_compat do not list a model for one client key, so two listers
\* without one of the endpoint's own protocol need keys that are passed through.
LEMMA TwoListers ==
  ASSUME BaseInv, OwnListers = {}, Cardinality(Listers(cfg)) > 1
  PROVE  cfg.keyPassthrough /\ Spoken(endpoint) # "openai_compat"
<1>1. cfg \in Valid /\ Validate(cfg)
  BY DEF BaseInv, TypeOK, ConfigTypeOK, Valid
<1>2. PICK n, other \in Listers(cfg) : n # other
  <2>1. Listers(cfg) # {}
    BY FS_EmptySet
  <2>2. PICK n \in Listers(cfg) : TRUE
    BY <2>1
  <2>3. Listers(cfg) # {n}
    BY FS_Singleton
  <2> QED
    BY <2>2, <2>3
<1>3. /\ n \in DOMAIN cfg.services /\ Serves(cfg, n) /\ model \in Requested(cfg.services[n])
      /\ other \in DOMAIN cfg.services /\ Serves(cfg, other) /\ model \in Requested(cfg.services[other])
  BY <1>2 DEF Listers
<1>4. /\ cfg.services[n].upstreamProtocol # Spoken(endpoint)
      /\ cfg.services[other].upstreamProtocol # Spoken(endpoint)
  BY <1>2 DEF OwnListers
<1>5. /\ cfg.services[n].upstreamProtocol = "openai_compat"
      /\ cfg.services[other].upstreamProtocol = "openai_compat"
  BY <1>3, <1>4 DEF Serves
<1>6. UniqueOwner(cfg)
  BY <1>1, <1>3 DEF Validate, HasServices
<1>7. cfg.services[n].clientKeys \cap cfg.services[other].clientKeys = {}
  BY <1>2, <1>3, <1>5, <1>6 DEF UniqueOwner
<1>8. cfg.keyPassthrough
  BY <1>3, <1>7 DEF Serves
<1> QED
  BY <1>4, <1>5, <1>8

\* Nothing has been found, or refused, for a request that nothing has been done for.
LEMMA FreshSteady ==
  ASSUME BaseInv', pc' \in {"idle", "verify"}
  PROVE  SteadyInv'
<1>1. answer' = None /\ upstream' = NotFound
  BY DEF BaseInv, FreshInv, Early
<1>2. None \notin Status
  BY ConfigAssumption
<1>3. ~Refused' /\ ~Found'
  BY <1>1, <1>2 DEF Refused, Found, Status
<1>4. AskedInv' /\ MatchInv'
  BY DEF AskedInv, MatchInv
<1>5. ServedInv' /\ EntryInv'
  BY <1>3 DEF ServedInv, EntryInv
<1> QED
  BY <1>4, <1>5 DEF SteadyInv

\* A reload to the same configuration changes nothing; after another SteadyInv says nothing.
LEMMA ReloadSteady ==
  ASSUME BaseInv, SteadyInv, Next, Reloads, pc # "idle", ~Outside
  PROVE  SteadyInv'
<1> SUFFICES ASSUME Steady', ~cfg'.modelPassthrough
             PROVE  AskedInv' /\ MatchInv' /\ ServedInv' /\ EntryInv'
  BY DEF SteadyInv
<1>1. UNCHANGED <<cfg, endpoint, key, model>> /\ Steady
  BY SteadyBefore, Moves
<1>2. UNCHANGED <<pc, allowed, matches, upstream, actual, answer>>
  BY Reloaded
<1>3. AskedInv /\ MatchInv /\ ServedInv /\ EntryInv
  BY <1>1 DEF SteadyInv
<1>4. AskedInv'
  BY <1>1, <1>2, <1>3 DEF AskedInv, HasServices
<1>5. MatchInv'
  BY <1>1, <1>2, <1>3, SameListers DEF MatchInv
<1>6. ServedInv'
  BY <1>1, <1>2, <1>3, SameListers DEF ServedInv, Refused, Found
<1>7. EntryInv'
  BY <1>1, <1>2, <1>3, SameListers DEF EntryInv, Found
<1> QED
  BY <1>4, <1>5, <1>6, <1>7

\* The key is refused of which no service is assigned to the client, the services where
\* there are none, and the model that nobody lists.
LEMMA OnwardSteady ==
  ASSUME BaseInv, SteadyInv, Onward
  PROVE  SteadyInv'
<1>1. UNCHANGED <<cfg, endpoint, key, model, allowed, matches, upstream, actual, inForce>>
  BY OnwardUnchanged DEF request, found
<1> SUFFICES ASSUME Steady, ~cfg.modelPassthrough
             PROVE  AskedInv' /\ MatchInv' /\ ServedInv' /\ EntryInv'
  BY <1>1 DEF SteadyInv, Steady
<1>2. AskedInv /\ MatchInv /\ ServedInv /\ EntryInv
  BY DEF SteadyInv
<1>3. EntryInv'
  BY <1>1, <1>2, SameListers DEF EntryInv, Found
<1> DEFINE Because == answer' = "ambiguous" /\ cfg.keyPassthrough /\ Spoken(endpoint) # "openai_compat"
           Wrong   == answer' \in {"401", "503", "ambiguous"} \/ (answer' = "400" /\ ~Found)
           Told    == /\ pc' \in {"verify empty", "verify key", "scope empty", "scope key"} => ~cfg.keyPassthrough
                      /\ pc' \in {"scope", "scope all", "scope empty", "scope key"} => HasServices(cfg)
                      /\ pc' = "scope all" => cfg.keyPassthrough
           Ways    == pc' \in {"mode", "route", "match", "default"} => pc = "mode" /\ pc' = "route"
           Reasons == Wrong /\ endpoint # "models" /\ Listers(cfg) # {} => Because
<1> SUFFICES Told /\ Ways /\ Reasons
  <2>1. ASSUME Told
        PROVE  AskedInv'
    BY <1>1, <2>1 DEF AskedInv, HasServices
  <2>2. ASSUME Ways
        PROVE  MatchInv'
    BY <1>1, <1>2, <2>2, SameListers DEF MatchInv
  <2>3. ASSUME Reasons
        PROVE  ServedInv'
    BY <1>1, <2>3, SameListers DEF ServedInv, Refused, Found
  <2> QED
    BY <1>3, <2>1, <2>2, <2>3
<1>4. answer' = answer => (Wrong => Because) \/ endpoint = "models" \/ Listers(cfg) = {}
  BY <1>2 DEF ServedInv, Refused
<1>5. /\ pc \in {"verify empty", "verify key", "scope empty", "scope key"} => ~cfg.keyPassthrough
      /\ pc \in {"scope", "scope all", "scope empty", "scope key"} => HasServices(cfg)
      /\ pc = "scope all" => cfg.keyPassthrough
  BY <1>2 DEF AskedInv
<1> USE DEF Goto, Answer
<1>6. CASE MissingAuthorization
  BY <1>6 DEF MissingAuthorization
<1>7. CASE VerifyPassthrough
  BY <1>4, <1>7 DEF VerifyPassthrough
<1>8. CASE VerifyNoServices
  BY <1>4, <1>5, <1>8 DEF VerifyNoServices
<1>9. CASE VerifyKey
  <2>1. DOMAIN KeyToServices(cfg, key) = {} => Listers(cfg) = {}
    BY <1>5, <1>9 DEF VerifyKey, KeyToServices, Listers, Serves
  <2> QED
    BY <1>4, <1>9, <2>1 DEF VerifyKey
<1>10. CASE BadBody
  BY <1>10 DEF BadBody
<1>11. CASE AnyUpstream
  <2>1. ~HasServices(cfg) => Listers(cfg) = {}
    BY DEF HasServices, Listers
  <2> QED
    BY <1>4, <1>11, <2>1 DEF AnyUpstream
<1>12. CASE ScopePassthrough
  BY <1>4, <1>5, <1>12 DEF ScopePassthrough
<1>13. CASE Ambiguous
  <2>1. cfg.keyPassthrough /\ Spoken(endpoint) # "openai_compat"
    BY <1>2, <1>13 DEF Ambiguous, MatchInv
  <2> QED
    BY <1>13, <2>1 DEF Ambiguous
<1>14. CASE CheckAPIKey
  BY <1>4, <1>14 DEF CheckAPIKey, Headed
<1>15. CASE CannotConvert
  <2>1. pc = "prompt" /\ Found
    BY <1>15 DEF CannotConvert, BaseInv, FoundInv
  <2> QED
    BY <1>15, <2>1 DEF CannotConvert
<1>16. CASE ScopeEmpty /\ HasServices(cfg)
  BY <1>4, <1>5, <1>16 DEF ScopeEmpty
<1>17. CASE ModelPassthrough /\ ~cfg.modelPassthrough
  BY <1>4, <1>17 DEF ModelPassthrough
<1>18. CASE ChooseDefault /\ Defaults(cfg) \cap DOMAIN allowed = {}
  <2>1. Listers(cfg) = {}
    BY <1>2, <1>18 DEF ChooseDefault, MatchInv
  <2> QED
    BY <1>18, <2>1 DEF ChooseDefault
<1> QED
  BY <1>6, <1>7, <1>8, <1>9, <1>10, <1>11, <1>12, <1>13, <1>14, <1>15, <1>16, <1>17, <1>18 DEF Onward

\* The services of the client key at the endpoint are those it is entitled to.
LEMMA ScopesSteady ==
  ASSUME BaseInv, SteadyInv, Scopes
  PROVE  SteadyInv'
<1>1. UNCHANGED <<cfg, endpoint, key, model, matches, upstream, actual, inForce>>
  BY ScopedFrom DEF request
<1> SUFFICES ASSUME Steady, ~cfg.modelPassthrough
             PROVE  AskedInv' /\ MatchInv' /\ ServedInv' /\ EntryInv'
  BY <1>1 DEF SteadyInv, Steady
<1>2. AskedInv
  BY DEF SteadyInv
<1>3. upstream = NotFound /\ answer = None
  BY ScopedFrom DEF BaseInv, FreshInv, Early
<1>4. pc' \in {"answered", "mode"}
  BY ScopedFrom
<1>5. DOMAIN allowed' = Entitled
  <2>1. CASE pc = "scope all"
    <3>1. cfg.keyPassthrough /\ allowed' = ForProtocol(cfg.services, Spoken(endpoint))
      BY <1>2, <2>1, ScopedFrom DEF AskedInv
    <3> QED
      BY <3>1 DEF ForProtocol, Entitled, Serves
  <2>2. CASE pc = "scope key"
    <3>1. /\ ~cfg.keyPassthrough
          /\ allowed' = ForProtocol(KeyToServices(cfg, key), Spoken(endpoint))
      BY <1>2, <2>2, ScopedFrom DEF AskedInv
    <3> QED
      BY <3>1 DEF ForProtocol, KeyToServices, Entitled, Serves
  <2>3. CASE pc = "scope empty" /\ ~HasServices(cfg)
    BY <1>2, <2>3 DEF AskedInv
  <2> QED
    BY <2>1, <2>2, <2>3, ScopedFrom
<1>6. Listers(cfg) \subseteq Entitled
  BY DEF Listers, Entitled
<1>7. AskedInv'
  BY <1>4 DEF AskedInv
<1>8. MatchInv'
  BY <1>1, <1>4, <1>5, SameListers DEF MatchInv
<1>9. ServedInv'
  <2>1. None \notin Status
    BY ConfigAssumption
  <2>2. \/ answer' = "listed" /\ endpoint = "models"
        \/ answer' = "400" /\ DOMAIN allowed' = {}
        \/ answer' = None
    BY <1>3, ScopedFrom
  <2>3. Refused' => Listers(cfg) = {} \/ endpoint = "models"
    BY <1>5, <1>6, <2>1, <2>2 DEF Refused, Status
  <2> QED
    BY <1>1, <2>3, SameListers DEF ServedInv
<1>10. EntryInv'
  BY <1>1, <1>3 DEF EntryInv, Found
<1> QED
  BY <1>7, <1>8, <1>9, <1>10

\* What is to be shown of a service that is chosen.
LEMMA ChosenSteady ==
  ASSUME BaseInv, pc \in {"mode", "route", "match", "default"},
         NEW n, NEW s, NEW m, Choose(n, s, m),
         Listers(cfg) # {} =>
           /\ n \in IF OwnListers = {} THEN Listers(cfg) ELSE OwnListers
           /\ [requested |-> model, actual |-> m] \in s.models
  PROVE  AskedInv' /\ MatchInv' /\ ServedInv' /\ EntryInv'
<1>1. answer = None /\ None \notin Status
  BY ConfigAssumption DEF BaseInv, FreshInv
<1>2. /\ upstream' = [name |-> n, service |-> s] /\ actual' = m
      /\ pc' \in {"api key", "headers", "prompt"}
      /\ UNCHANGED <<cfg, endpoint, key, model, answer>>
  BY Chosen DEF request
<1>3. ~Refused'
  BY <1>1, <1>2 DEF Refused, Status
<1>4. upstream'.name = n /\ upstream'.service = s
  BY <1>2
<1>5. AskedInv' /\ MatchInv'
  BY <1>2 DEF AskedInv, MatchInv
<1>6. ServedInv'
  BY <1>3 DEF ServedInv
<1>7. EntryInv'
  BY <1>2, <1>4, SameListers DEF EntryInv
<1> QED
  BY <1>5, <1>6, <1>7

\* The routes of the model to the services that are allowed are those to its listers.
LEMMA ChooseRouteSteady ==
  ASSUME BaseInv, SteadyInv, ChooseRoute, Steady, ~cfg.modelPassthrough
  PROVE  AskedInv' /\ MatchInv' /\ ServedInv' /\ EntryInv'
<1>1. pc = "route" /\ DOMAIN allowed = Entitled /\ upstream = NotFound /\ answer = None
  BY RouteCases DEF SteadyInv, MatchInv, BaseInv, FreshInv
<1>2. /\ Matches = Listers(cfg) /\ OwnRoutes = OwnListers
      /\ \A n \in Matches :
           /\ Routed[n].service = cfg.services[n]
           /\ [requested |-> model, actual |-> Routed[n].actual] \in cfg.services[n].models
  BY <1>1, MatchesAreListers
<1>3. ASSUME NEW n \in Matches, OwnRoutes # {} => n \in OwnRoutes,
             Choose(n, Routed[n].service, Routed[n].actual)
      PROVE  AskedInv' /\ MatchInv' /\ ServedInv' /\ EntryInv'
  <2>1. n \in IF OwnListers = {} THEN Listers(cfg) ELSE OwnListers
    BY <1>2, <1>3
  <2>2. [requested |-> model, actual |-> Routed[n].actual] \in Routed[n].service.models
    BY <1>2
  <2> QED
    BY <1>1, <1>3, <2>1, <2>2, ChosenSteady
<1>4. ASSUME NEW n, NEW s, Choose(n, s, model), Matches = {}
      PROVE  AskedInv' /\ MatchInv' /\ ServedInv' /\ EntryInv'
  BY <1>1, <1>2, <1>4, ChosenSteady
<1>5. ASSUME UNCHANGED <<cfg, request, allowed, upstream, actual>>, answer' = answer,
             \/ pc' = "default" /\ Matches = {}
             \/ /\ pc' = "match" /\ OwnRoutes = {} /\ Cardinality(Matches) > 1
                /\ matches' = [n \in Matches |-> Routed[n]]
      PROVE  AskedInv' /\ MatchInv' /\ ServedInv' /\ EntryInv'
  <2>1. UNCHANGED <<cfg, endpoint, key, model, allowed, upstream, answer>>
    BY <1>5 DEF request
  <2>2. None \notin Status
    BY ConfigAssumption
  <2>3. ~Refused' /\ ~Found'
    BY <1>1, <2>1, <2>2 DEF Refused, Found, Status
  <2>4. AskedInv'
    BY <1>5 DEF AskedInv
  <2>5. pc' = "match" => cfg.keyPassthrough /\ Spoken(endpoint) # "openai_compat"
    BY <1>2, <1>5, TwoListers
  <2>6. pc' = "match" =>
          /\ DOMAIN matches' = Matches /\ \A n \in DOMAIN matches' : matches'[n] = Routed[n]
          /\ OwnListers = {}
    BY <1>2, <1>5
  <2>7. MatchInv'
    BY <1>1, <1>2, <1>5, <2>1, <2>5, <2>6, SameListers DEF MatchInv
  <2> QED
    BY <2>3, <2>4, <2>7 DEF ServedInv, EntryInv
<1> QED
  BY <1>3, <1>4, <1>5, RouteCases DEF found

\* The match that is chosen is a lister, and none is of the own protocol.
LEMMA TryMatchSteady ==
  ASSUME BaseInv, SteadyInv, TryMatch, Steady, ~cfg.modelPassthrough
  PROVE  AskedInv' /\ MatchInv' /\ ServedInv' /\ EntryInv'
<1>1. /\ pc = "match" /\ DOMAIN allowed = Entitled
      /\ DOMAIN matches \subseteq Listers(cfg)
      /\ \A n \in DOMAIN matches : matches[n] = Routed[n]
      /\ OwnListers = {}
      /\ cfg.keyPassthrough /\ Spoken(endpoint) # "openai_compat"
  BY Tried DEF SteadyInv, MatchInv
<1>2. upstream = NotFound /\ answer = None /\ None \notin Status
  BY <1>1, ConfigAssumption DEF BaseInv, FreshInv
<1>3. ASSUME NEW n \in DOMAIN matches, Choose(n, matches[n].service, matches[n].actual)
      PROVE  AskedInv' /\ MatchInv' /\ ServedInv' /\ EntryInv'
  <2>1. n \in Matches /\ matches[n] = Routed[n]
    BY <1>1, MatchesAreListers
  <2>2. [requested |-> model, actual |-> matches[n].actual] \in matches[n].service.models
    BY <1>1, <2>1, MatchesAreListers
  <2>3. n \in IF OwnListers = {} THEN Listers(cfg) ELSE OwnListers
    BY <1>1
  <2> QED
    BY <1>1, <1>3, <2>2, <2>3, ChosenSteady
<1>4. ASSUME UNCHANGED <<cfg, pc, request, allowed, upstream, actual, built, answer, inForce>>,
             DOMAIN matches' \subseteq DOMAIN matches,
             \A n \in DOMAIN matches' : matches'[n] = matches[n]
      PROVE  AskedInv' /\ MatchInv' /\ ServedInv' /\ EntryInv'
  <2>1. UNCHANGED <<cfg, pc, endpoint, key, model, allowed, upstream, answer>>
    BY <1>4 DEF request
  <2>2. ~Refused' /\ ~Found'
    BY <1>2, <2>1 DEF Refused, Found, Status
  <2>3. AskedInv'
    BY <1>1, <2>1 DEF AskedInv
  <2>4. \A n \in DOMAIN matches' : matches'[n] = Routed[n]
    BY <1>1, <1>4
  <2>5. MatchInv'
    BY <1>1, <1>4, <2>1, <2>4, SameListers DEF MatchInv
  <2> QED
    BY <2>2, <2>3, <2>5 DEF ServedInv, EntryInv
<1> QED
  BY <1>3, <1>4, Tried

\* Models are not passed through, and the default is asked for a model nobody lists.
LEMMA ChooseAllowedSteady ==
  ASSUME BaseInv, SteadyInv, ChoosesAllowed, Steady, ~cfg.modelPassthrough
  PROVE  AskedInv' /\ MatchInv' /\ ServedInv' /\ EntryInv'
<1>1. pc = "default"
  BY ChosenAllowed
<1>2. Listers(cfg) = {}
  BY <1>1 DEF SteadyInv, MatchInv
<1>3. PICK n \in DOMAIN allowed : Choose(n, allowed[n], model)
  BY ChosenAllowed
<1> QED
  BY <1>1, <1>2, <1>3, ChosenSteady

\* So the service that is chosen is one of those that RoutedByEntry allows.
LEMMA ChooseSteady ==
  ASSUME BaseInv, SteadyInv, Next, pc # "idle", ~Outside,
         ChooseRoute \/ TryMatch \/ ChoosesAllowed
  PROVE  SteadyInv'
<1> SUFFICES ASSUME Steady', ~cfg'.modelPassthrough
             PROVE  AskedInv' /\ MatchInv' /\ ServedInv' /\ EntryInv'
  BY DEF SteadyInv
<1>1. Steady /\ ~cfg.modelPassthrough
  BY SteadyBefore
<1> QED
  BY <1>1, ChooseRouteSteady, TryMatchSteady, ChooseAllowedSteady

\* Prompt and headers are made for the service that was found.
LEMMA BuildSteady ==
  ASSUME BaseInv, SteadyInv, Prompt \/ Headers
  PROVE  SteadyInv'
<1>1. /\ UNCHANGED <<cfg, endpoint, key, model, allowed, matches, upstream, actual, inForce>>
      /\ pc' \in {"answered", "headers", "prompt"} /\ answer' \in {"sent", answer}
  BY DEF Prompt, Headers, Answer, Goto, request, found
<1> SUFFICES ASSUME Steady, ~cfg.modelPassthrough
             PROVE  AskedInv' /\ MatchInv' /\ ServedInv' /\ EntryInv'
  BY <1>1 DEF SteadyInv, Steady
<1>2. ServedInv /\ EntryInv
  BY DEF SteadyInv
<1>3. AskedInv' /\ MatchInv'
  BY <1>1 DEF AskedInv, MatchInv
<1>4. ServedInv'
  BY <1>1, <1>2, SameListers DEF ServedInv, Refused, Found
<1>5. EntryInv'
  BY <1>1, <1>2, SameListers DEF EntryInv, Found
<1> QED
  BY <1>3, <1>4, <1>5

\* SteadyInv is inductive, relative to BaseInv.
LEMMA SteadyNext ==
  ASSUME BaseInv, SteadyInv, BaseInv', [Next]_vars
  PROVE  SteadyInv'
<1>1. CASE UNCHANGED vars
  <2>1. UNCHANGED <<cfg, pc, endpoint, key, model, allowed, matches, upstream, actual, answer, inForce>>
    BY <1>1 DEF vars, request, found
  <2> SUFFICES ASSUME Steady, ~cfg.modelPassthrough
               PROVE  AskedInv' /\ MatchInv' /\ ServedInv' /\ EntryInv'
    BY <2>1 DEF SteadyInv, Steady
  <2>2. AskedInv /\ MatchInv /\ ServedInv /\ EntryInv
    BY DEF SteadyInv
  <2>3. AskedInv'
    BY <2>1, <2>2 DEF AskedInv, HasServices
  <2>4. MatchInv'
    BY <2>1, <2>2, SameListers DEF MatchInv
  <2>5. ServedInv'
    BY <2>1, <2>2, SameListers DEF ServedInv, Refused, Found
  <2>6. EntryInv'
    BY <2>1, <2>2, SameListers DEF EntryInv, Found
  <2> QED
    BY <2>3, <2>4, <2>5, <2>6
<1>2. CASE Outside
  <2>1. pc' \in {"idle", "verify"}
    BY <1>2 DEF Outside, Finish, Arrive
  <2> QED
    BY <2>1, FreshSteady
<1>3. CASE Next /\ pc = "idle" /\ ~Outside
  <2>1. pc' = "idle"
    BY <1>3, IdleOnly, Reloaded
  <2> QED
    BY <2>1, FreshSteady
<1>4. CASE Next /\ pc # "idle" /\ ~Outside
  BY <1>4, Steps, ReloadSteady, OnwardSteady, ScopesSteady, ChooseSteady, BuildSteady
<1> QED
  BY <1>1, <1>2, <1>3, <1>4

\* Both invariants hold throughout.
LEMMA SteadyAlways == Spec => [](BaseInv /\ SteadyInv)
<1>1. Init => SteadyInv
  <2> SUFFICES ASSUME Init
               PROVE  SteadyInv
    OBVIOUS
  <2>1. answer = None /\ upstream = NotFound /\ pc = "idle" /\ None \notin Status
    BY ConfigAssumption DEF Init
  <2>2. ~Refused /\ ~Found
    BY <2>1 DEF Refused, Found, Status
  <2> QED
    BY <2>1, <2>2 DEF SteadyInv, AskedInv, MatchInv, ServedInv, EntryInv
<1>2. BaseInv /\ SteadyInv /\ [Next]_vars => (BaseInv /\ SteadyInv)'
  BY BaseNext, SteadyNext
<1> QED
  BY <1>1, <1>2, BaseInit, PTL DEF Spec

\* A model that is listed for the client key is not refused, but for the one way that is named.
THEOREM Served == Spec => []ListedModelsServed
<1>1. SteadyInv => ListedModelsServed
  BY DEF SteadyInv, ServedInv, ListedModelsServed
<1> QED
  BY <1>1, SteadyAlways, PTL

\* A model that is listed for the client key is sent to a service that lists it, under the name
\* that service knows it by.
THEOREM Entries == Spec => []RoutedByEntry
<1>1. SteadyInv => RoutedByEntry
  BY DEF SteadyInv, EntryInv, OwnListers, RoutedByEntry
<1> QED
  BY <1>1, SteadyAlways, PTL

=============================================================================
