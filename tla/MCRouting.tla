------------------------------- MODULE MCRouting -------------------------------
(* Model checking of Routing.                                              *)
EXTENDS Routing, TLC

CONSTANTS k1, k2, m1, m2, p1

Symmetry == Permutations(Key)

Entry(m, a) == [requested |-> m, actual |-> a]

Svc(keys, models, protocol, default, bound) ==
  [clientKeys |-> keys, models |-> models, upstreamProtocol |-> protocol,
   isDefault |-> default, apiKey |-> protocol # "anthropic",
   softToolProtocol |-> IF protocol = "responses" THEN "xml" ELSE "", profile |-> bound]

Cfg(services, enabled, keyPassthrough, modelPassthrough) ==
  [services |-> services,
   profiles |-> [p \in Profile |-> [enabled |-> enabled, protocol |-> "", template |-> TRUE]],
   defaultProfile |-> None, softToolProtocol |-> "sentinel_json",
   keyPassthrough |-> keyPassthrough, modelPassthrough |-> modelPassthrough]

Owners == {{k1}, {k2}}

\* Two services of openai_compat beside one of another protocol, each with one key.
Three ==
  {Cfg([n \in 1 .. 3 |->
          CASE n = 1 -> Svc(o[1], {Entry(m1, m2)}, "openai_compat", d = 1, None)
            [] n = 2 -> Svc(o[2], {Entry(m, m)}, "responses", d = 2, None)
            [] n = 3 -> Svc(o[3], {Entry(m1, m1), Entry(m2, m1)}, "openai_compat", d = 3, None)],
       TRUE, through, FALSE) :
     o \in [1 .. 3 -> Owners], m \in {m1, m2}, d \in 2 .. 3, through \in BOOLEAN}

\* One service, with and without a key to call it with, a profile or a mode.
One ==
  {Cfg([n \in {3} |-> Svc(o, {Entry(m1, m2)}, protocol, TRUE, p1)], enabled, through, free) :
     o \in Owners \union {{}}, protocol \in {"openai_compat", "anthropic"},
     enabled \in BOOLEAN, through \in BOOLEAN, free \in BOOLEAN}

Candidates == Three \union One \union {Cfg([n \in {} |-> None], TRUE, FALSE, FALSE)}

=============================================================================
