------------------------ MODULE Conversation_proofs ------------------------
(***************************************************************************)
(* Proofs about Conversation, for any settings, any pairs of protocols and *)
(* any number of turns and calls: its types, that what was said in all the *)
(* turns reaches the upstream (HistoryReaches), and that the prompt is     *)
(* where the settings want it (PromptPlaced).                              *)
(*                                                                         *)
(* Both sides are made of lists of lists: a request is a list of messages, *)
(* each with a list of parts, each with what is heard of it. FlattenSeq    *)
(* says how joining such a list goes with a change to each member          *)
(* (FlatMap) and with leaving members out (OnlySame), and that is all that *)
(* the conversions between the protocols do: they regroup the parts, move  *)
(* some into messages of their own, and drop what is empty. So for each    *)
(* handler there is a lemma about what is heard of one message when it has *)
(* become its messages (..Heard), and one about the whole request          *)
(* (ChatRequest, ResponsesRequest, AnthropicRequest), of which the prompt  *)
(* is no part wherever it was put (FrontSilent, LatestSilent). Reaches is  *)
(* composed of what becomes of each message (AllReaches).                  *)
(*                                                                         *)
(* The prompt is sought in what the upstream reads (Reading, of Entry      *)
(* records). Nothing that was said holds it (Promptless), so where a       *)
(* request is some text without it, the prompt, and some text without it,  *)
(* it is there and nowhere else (Places). It goes in front of the messages *)
(* (InFront), into the last message of a user (AtLatest), or into the      *)
(* system text, and a lemma for each path says that this is the place      *)
(* wanted (PromptInResponses, PromptInAnthropic, PromptInChat). The last   *)
(* message of a user is found again among the messages it was made into    *)
(* (LastInChat), because what comes after it is of no user (NotUser) and   *)
(* none before it is dropped (Kept).                                       *)
(*                                                                         *)
(* IInv says that the history is made of messages in the form their        *)
(* protocol has for them, that it opens with text, and that the request is *)
(* what Prepare made of it.                                                *)
(***************************************************************************)
EXTENDS Conversation, FiniteSetTheorems, SequenceTheorems, WellFoundedInduction, TLAPS

-----------------------------------------------------------------------------
(* Sequences *)

\* A set of natural numbers has a least one.
LEMMA LeastNatural ==
  ASSUME NEW T \in SUBSET Nat, T # {}
  PROVE  \E x \in T : \A y \in T : x <= y
<1> DEFINE R == {ss \in Nat \X Nat : ss[1] < ss[2]}
<1>1. IsWellFoundedOn(OpToRel(<, Nat), Nat)
  BY NatLessThanWellFounded
<1>2. OpToRel(<, Nat) = R
  BY DEF OpToRel
<1>3. PICK x \in T : \A y \in T : ~(<<y, x>> \in R)
  BY <1>1, <1>2, WFMin, ZenonT(30)
<1>4. ASSUME NEW y \in T
      PROVE  x <= y
  <2>1. x \in Nat /\ y \in Nat /\ ~(<<y, x>> \in R)
    BY <1>3
  <2>2. ~(y < x)
    BY <2>1
  <2> QED
    BY <2>1, <2>2
<1> QED
  BY <1>4

\* Flattening, step by step.
Joined(f, s) == f = [i \in 1..Len(s) |-> IF i = 1 THEN s[i] ELSE f[i - 1] \o s[i]]

\* There is one way to flatten.
LEMMA JoinedOnce ==
  ASSUME NEW s, Len(s) \in Nat, NEW f, Joined(f, s), NEW g, Joined(g, s)
  PROVE  \A i \in 1..Len(s) : f[i] = g[i]
<1> DEFINE differ == {i \in 1..Len(s) : f[i] # g[i]}
<1>1. SUFFICES ASSUME differ # {}
               PROVE  FALSE
  OBVIOUS
<1>2. differ \in SUBSET Nat
  OBVIOUS
<1>3. PICK x \in differ : \A y \in differ : x <= y
  BY <1>1, <1>2, LeastNatural
<1>4. x \in 1..Len(s) /\ f[x] # g[x]
  OBVIOUS
<1>5. /\ f[x] = IF x = 1 THEN s[x] ELSE f[x - 1] \o s[x]
      /\ g[x] = IF x = 1 THEN s[x] ELSE g[x - 1] \o s[x]
  BY <1>4 DEF Joined
<1>6. x # 1
  BY <1>4, <1>5
<1>7. x - 1 \in 1..Len(s) /\ ~(x <= x - 1)
  BY <1>4, <1>6
<1>8. f[x - 1] = g[x - 1]
  BY <1>3, <1>7
<1> QED
  BY <1>4, <1>5, <1>6, <1>8

LEMMA FlattenIs ==
  ASSUME NEW s, Len(s) \in Nat \ {0}, NEW g, Joined(g, s)
  PROVE  FlattenSeq(s) = g[Len(s)]
<1>1. FlattenSeq(s) = (CHOOSE f : f = [i \in 1..Len(s) |-> IF i = 1 THEN s[i] ELSE f[i - 1] \o s[i]])[Len(s)]
  BY DEF FlattenSeq
<1>2. PICK f : f = (CHOOSE h : Joined(h, s))
  OBVIOUS
<1>3. Joined(f, s)
  BY <1>2
<1>4. FlattenSeq(s) = f[Len(s)]
  BY <1>1, <1>2 DEF Joined
<1> QED
  BY <1>3, <1>4, JoinedOnce

\* What holds of 0, and of i + 1 if it does of i, holds up to n.
LEMMA StepByStep ==
  ASSUME NEW n \in Nat, NEW T, 0 \in T, \A i \in 0..n : i # n /\ i \in T => i + 1 \in T
  PROVE  \A i \in 0..n : i \in T
<1> DEFINE out == {i \in 0..n : i \notin T}
<1>1. SUFFICES ASSUME out # {}
               PROVE  FALSE
  OBVIOUS
<1>2. out \in SUBSET Nat
  OBVIOUS
<1>3. PICK x \in out : \A y \in out : x <= y
  BY <1>1, <1>2, LeastNatural
<1>4. x \in 0..n /\ x \notin T /\ x # 0
  OBVIOUS
<1>5. x - 1 \in 0..n /\ x - 1 # n /\ ~(x <= x - 1) /\ (x - 1) + 1 = x
  BY <1>4
<1>6. x - 1 \in T
  BY <1>3, <1>5
<1> QED
  BY <1>4, <1>5, <1>6

LEMMA AppendIs ==
  ASSUME NEW S, NEW s \in Seq(S), NEW x \in S
  PROVE  /\ Append(s, x) \in Seq(S) /\ Len(Append(s, x)) = Len(s) + 1
         /\ \A i \in 1..Len(s) : Append(s, x)[i] = s[i]
         /\ Append(s, x)[Len(s) + 1] = x
OBVIOUS

\* Flattening can be done.
LEMMA JoinedExists ==
  ASSUME NEW S, NEW s \in Seq(Seq(S))
  PROVE  \E f : Joined(f, s) /\ \A i \in 1..Len(s) : f[i] \in Seq(S)
<1> DEFINE Joins(f, n) == /\ f \in [1..n -> Seq(S)]
                         /\ \A i \in 1..n : f[i] = IF i = 1 THEN s[i] ELSE f[i - 1] \o s[i]
           T == {n \in 0..Len(s) : \E f : Joins(f, n)}
<1>1. Len(s) \in Nat
  OBVIOUS
<1>2. 0 \in T
  <2>1. PICK f : f = [i \in 1..0 |-> s[i]]
    OBVIOUS
  <2>2. Joins(f, 0)
    BY <2>1
  <2> HIDE DEF Joins
  <2> QED BY <1>1, <2>2
<1>3. ASSUME NEW n \in 0..Len(s), n # Len(s), n \in T
      PROVE  n + 1 \in T
  <2> HIDE DEF Joins
  <2>1. PICK f : Joins(f, n)
    BY <1>3
  <2> USE DEF Joins
  <2>2. PICK x : x = IF n = 0 THEN s[n + 1] ELSE f[n] \o s[n + 1]
    OBVIOUS
  <2>3. n + 1 \in 1..Len(s) /\ s[n + 1] \in Seq(S)
    BY <1>1, <1>3
  <2>4. x \in Seq(S)
    <3>1. CASE n = 0
      BY <2>2, <2>3, <3>1
    <3>2. CASE n # 0
      <4>1. f[n] \in Seq(S)
        BY <1>3, <2>1, <3>2
      <4> QED BY <2>2, <2>3, <3>2, <4>1
    <3> QED BY <3>1, <3>2
  <2>5. PICK g : g = [i \in 1..n + 1 |-> IF i = n + 1 THEN x ELSE f[i]]
    OBVIOUS
  <2>6. g \in [1..n + 1 -> Seq(S)]
    BY <2>1, <2>4, <2>5
  <2>7. ASSUME NEW i \in 1..n + 1
        PROVE  g[i] = IF i = 1 THEN s[i] ELSE g[i - 1] \o s[i]
    <3>1. CASE i = n + 1
      <4>1. g[i] = x
        BY <2>5, <3>1
      <4>2. i # 1 => n \in 1..n + 1 /\ n # n + 1 /\ i - 1 = n
        BY <3>1
      <4>3. i # 1 => g[i - 1] = f[n]
        BY <2>5, <4>2
      <4>4. i = 1 <=> n = 0
        BY <3>1
      <4> QED BY <2>2, <3>1, <4>1, <4>3, <4>4
    <3>2. CASE i # n + 1
      <4>1. i \in 1..n /\ (i # 1 => i - 1 \in 1..n)
        BY <3>2
      <4>2. g[i] = f[i] /\ (i # 1 => g[i - 1] = f[i - 1])
        BY <2>5, <4>1
      <4> QED BY <2>1, <4>1, <4>2
    <3> QED BY <3>1, <3>2
  <2>8. Joins(g, n + 1)
    BY <2>6, <2>7
  <2> HIDE DEF Joins
  <2> QED BY <1>1, <1>3, <2>8
<1>4. Len(s) \in T
  <2>1. \A n \in 0..Len(s) : n # Len(s) /\ n \in T => n + 1 \in T
    BY <1>3
  <2> HIDE DEF T
  <2>2. \A n \in 0..Len(s) : n \in T
    BY <1>1, <1>2, <2>1, StepByStep
  <2> QED BY <1>1, <2>2
<1>5. PICK f : Joins(f, Len(s))
  <2> HIDE DEF Joins
  <2> QED BY <1>4
<1>6. f = [i \in 1..Len(s) |-> IF i = 1 THEN s[i] ELSE f[i - 1] \o s[i]]
  BY <1>5
<1> QED
  BY <1>5, <1>6 DEF Joined

LEMMA FlattenEmpty == FlattenSeq(<<>>) = <<>>
<1>1. Len(<<>>) = 0
  OBVIOUS
<1> QED
  BY <1>1 DEF FlattenSeq

\* One more sequence is added to the end.
LEMMA FlattenAppend ==
  ASSUME NEW S, NEW s \in Seq(Seq(S)), NEW x \in Seq(S)
  PROVE  FlattenSeq(s) \in Seq(S) /\ FlattenSeq(Append(s, x)) = FlattenSeq(s) \o x
<1>1. PICK t : t = Append(s, x)
  OBVIOUS
<1>2. /\ t \in Seq(Seq(S)) /\ Len(t) = Len(s) + 1 /\ Len(s) \in Nat
      /\ \A i \in 1..Len(s) : t[i] = s[i]
      /\ t[Len(s) + 1] = x
  <2>1. Len(s) \in Nat
    OBVIOUS
  <2> QED BY <1>1, <2>1, AppendIs
<1>3. PICK g : Joined(g, t) /\ \A i \in 1..Len(t) : g[i] \in Seq(S)
  BY <1>2, JoinedExists
<1>4. FlattenSeq(t) = g[Len(t)]
  <2>1. Len(t) \in Nat \ {0}
    BY <1>2
  <2> QED BY <1>3, <2>1, FlattenIs
<1>5. g[Len(t)] = IF Len(t) = 1 THEN t[Len(t)] ELSE g[Len(t) - 1] \o t[Len(t)]
  <2>1. Len(t) \in 1..Len(t)
    BY <1>2
  <2>2. \A i \in 1..Len(t) : g[i] = IF i = 1 THEN t[i] ELSE g[i - 1] \o t[i]
    BY <1>3 DEF Joined
  <2> QED BY <2>1, <2>2
<1>6. CASE Len(s) = 0
  <2>1. s = <<>>
    BY <1>6
  <2>2. FlattenSeq(s) = <<>>
    BY <2>1, FlattenEmpty
  <2>3. FlattenSeq(t) = x
    BY <1>2, <1>4, <1>5, <1>6
  <2> QED BY <1>1, <2>2, <2>3
<1>7. CASE Len(s) # 0
  <2>1. PICK f : Joined(f, s) /\ \A i \in 1..Len(s) : f[i] \in Seq(S)
    BY JoinedExists
  <2>2. PICK h : h = [i \in 1..Len(s) |-> g[i]]
    OBVIOUS
  <2>3. ASSUME NEW i \in 1..Len(s)
        PROVE  h[i] = IF i = 1 THEN s[i] ELSE h[i - 1] \o s[i]
    <3>1. i \in 1..Len(t) /\ (i # 1 => i - 1 \in 1..Len(s))
      BY <1>2
    <3>2. g[i] = IF i = 1 THEN t[i] ELSE g[i - 1] \o t[i]
      BY <1>3, <3>1 DEF Joined
    <3> QED BY <1>2, <2>2, <3>1, <3>2
  <2>4. Joined(h, s)
    BY <2>2, <2>3 DEF Joined
  <2>5. Len(s) \in Nat \ {0} /\ Len(s) \in 1..Len(s)
    BY <1>2, <1>7
  <2>6. FlattenSeq(s) = h[Len(s)]
    BY <2>4, <2>5, FlattenIs
  <2>7. h[Len(s)] = g[Len(s)] /\ g[Len(s)] \in Seq(S)
    <3>1. Len(s) \in 1..Len(t)
      BY <1>2, <2>5
    <3> QED BY <1>3, <2>2, <2>5, <3>1
  <2>8. Len(t) # 1 /\ Len(t) - 1 = Len(s)
    BY <1>2, <1>7
  <2> QED BY <1>1, <1>2, <1>4, <1>5, <2>6, <2>7, <2>8
<1> QED
  BY <1>6, <1>7

-----------------------------------------------------------------------------
(* Replacing each element of a sequence by a sequence *)

\* What holds of the empty sequence, and of a longer one if it does of the shorter, holds
\* of all.
LEMMA SeqByStep ==
  ASSUME NEW S, NEW T, <<>> \in T,
         \A s \in Seq(S) : \A x \in S : s \in T => Append(s, x) \in T
  PROVE  \A s \in Seq(S) : s \in T
<1> SUFFICES ASSUME NEW s \in Seq(S)
             PROVE  s \in T
  OBVIOUS
<1> DEFINE Taken(n) == [i \in 1..n |-> s[i]]
           N == {n \in 0..Len(s) : Taken(n) \in T}
<1>1. Len(s) \in Nat /\ \A i \in 1..Len(s) : s[i] \in S
  OBVIOUS
<1>2. \A n \in 0..Len(s) : Taken(n) \in Seq(S) /\ Len(Taken(n)) = n
  <2>1. SUFFICES ASSUME NEW n \in 0..Len(s)
                 PROVE  Taken(n) \in Seq(S) /\ Len(Taken(n)) = n
    OBVIOUS
  <2>2. Taken(n) \in [1..n -> S] /\ n \in Nat
    BY <1>1
  <2> QED BY <2>2
<1>3. 0 \in N
  <2>1. Taken(0) \in Seq(S) /\ Len(Taken(0)) = 0
    BY <1>1, <1>2
  <2>2. Taken(0) = <<>>
    BY <2>1, EmptySeq
  <2> QED BY <1>1, <2>2
<1>4. ASSUME NEW n \in 0..Len(s), n # Len(s), n \in N
      PROVE  n + 1 \in N
  <2>1. n + 1 \in 0..Len(s) /\ n + 1 \in 1..Len(s)
    BY <1>1, <1>4
  <2>2. Taken(n) \in Seq(S) /\ Len(Taken(n)) = n /\ Taken(n) \in T
    BY <1>2, <1>4
  <2>3. Taken(n + 1) \in Seq(S) /\ Len(Taken(n + 1)) = n + 1
    BY <1>2, <2>1
  <2>4. PICK x : x = s[n + 1]
    OBVIOUS
  <2>5. x \in S
    BY <1>1, <2>1, <2>4
  <2>6. PICK u : u = Append(Taken(n), x)
    OBVIOUS
  <2>7. /\ u \in Seq(S) /\ Len(u) = n + 1
        /\ \A i \in 1..n : u[i] = Taken(n)[i]
        /\ u[n + 1] = x
    <3> HIDE DEF Taken
    <3> QED BY <2>2, <2>5, <2>6, AppendIs
  <2>8. \A i \in 1..n + 1 : u[i] = Taken(n + 1)[i]
    <3>1. SUFFICES ASSUME NEW i \in 1..n + 1
                   PROVE  u[i] = Taken(n + 1)[i]
      OBVIOUS
    <3>2. Taken(n + 1)[i] = s[i]
      OBVIOUS
    <3>3. CASE i = n + 1
      BY <2>4, <2>7, <3>2, <3>3
    <3>4. CASE i # n + 1
      <4>1. i \in 1..n
        BY <1>1, <3>4
      <4>2. Taken(n)[i] = s[i]
        BY <4>1
      <4> QED BY <2>7, <3>2, <4>1, <4>2
    <3> QED BY <3>3, <3>4
  <2>9. u = Taken(n + 1)
    <3> HIDE DEF Taken
    <3> QED BY <2>3, <2>7, <2>8, SeqEqual
  <2>10. u \in T
    BY <2>2, <2>5, <2>6
  <2> QED BY <2>1, <2>9, <2>10
<1>5. Len(s) \in N
  <2>1. \A n \in 0..Len(s) : n # Len(s) /\ n \in N => n + 1 \in N
    BY <1>4
  <2> HIDE DEF N
  <2>2. \A n \in 0..Len(s) : n \in N
    BY <1>1, <1>3, <2>1, StepByStep
  <2> QED BY <1>1, <2>2
<1>6. Taken(Len(s)) = s
  <2>1. Taken(Len(s)) \in Seq(S) /\ Len(Taken(Len(s))) = Len(s)
    BY <1>1, <1>2
  <2>2. \A i \in 1..Len(s) : Taken(Len(s))[i] = s[i]
    OBVIOUS
  <2> HIDE DEF Taken
  <2> QED BY <2>1, <2>2, SeqEqual
<1> QED
  BY <1>5, <1>6

\* f takes what is in S to what is in T.
Makes(f, S, T) == \A x \in S : f[x] \in T

\* f of each element of s.
Map(f, s) == [i \in DOMAIN s |-> f[s[i]]]
\* The sequences that f makes of the elements of s, one after the other.
Flat(f, s) == FlattenSeq(Map(f, s))

LEMMA MapIs ==
  ASSUME NEW S, NEW T, NEW f, NEW s \in Seq(S), Makes(f, S, T)
  PROVE  /\ Map(f, s) \in Seq(T) /\ Len(Map(f, s)) = Len(s) /\ DOMAIN Map(f, s) = 1..Len(s)
         /\ \A i \in 1..Len(s) : Map(f, s)[i] = f[s[i]]
<1>1. Len(s) \in Nat /\ DOMAIN s = 1..Len(s) /\ \A i \in 1..Len(s) : s[i] \in S
  OBVIOUS
<1>2. Map(f, s) \in [1..Len(s) -> T]
  BY <1>1 DEF Map, Makes
<1> QED BY <1>1, <1>2 DEF Map

LEMMA MapType ==
  ASSUME NEW S, NEW T, NEW f, Makes(f, S, T), NEW s \in Seq(S)
  PROVE  Map(f, s) \in Seq(T)
BY MapIs

LEMMA MapElements ==
  ASSUME NEW S, NEW f, NEW s \in Seq(S)
  PROVE  /\ Len(Map(f, s)) = Len(s) /\ DOMAIN Map(f, s) = 1..Len(s)
         /\ \A i \in 1..Len(s) : Map(f, s)[i] = f[s[i]]
<1>1. Len(s) \in Nat /\ DOMAIN s = 1..Len(s)
  OBVIOUS
<1> QED BY <1>1 DEF Map

LEMMA MapAppend ==
  ASSUME NEW S, NEW T, NEW f, NEW s \in Seq(S), NEW x \in S, Makes(f, S, T)
  PROVE  Map(f, Append(s, x)) = Append(Map(f, s), f[x])
<1>1. PICK u : u = Append(s, x)
  OBVIOUS
<1>2. /\ u \in Seq(S) /\ Len(u) = Len(s) + 1 /\ Len(s) \in Nat
      /\ \A i \in 1..Len(s) : u[i] = s[i]
      /\ u[Len(s) + 1] = x
  BY <1>1, AppendIs
<1>3. PICK m, v : m = Map(f, s) /\ v = Append(m, f[x])
  OBVIOUS
<1>4. /\ m \in Seq(T) /\ Len(m) = Len(s) /\ \A i \in 1..Len(s) : m[i] = f[s[i]]
  BY <1>3, MapIs
<1>5. /\ v \in Seq(T) /\ Len(v) = Len(m) + 1
      /\ \A i \in 1..Len(m) : v[i] = m[i]
      /\ v[Len(m) + 1] = f[x]
  <2>1. f[x] \in T
    BY DEF Makes
  <2> QED BY <1>3, <1>4, <2>1, AppendIs
<1>6. PICK w : w = Map(f, u)
  OBVIOUS
<1>7. w \in Seq(T) /\ Len(w) = Len(u) /\ \A i \in 1..Len(u) : w[i] = f[u[i]]
  BY <1>2, <1>6, MapIs
<1>8. \A i \in 1..Len(u) : w[i] = v[i]
  BY <1>2, <1>4, <1>5, <1>7
<1>9. w = v
  BY <1>2, <1>4, <1>5, <1>7, <1>8, SeqEqual
<1> QED BY <1>1, <1>3, <1>6, <1>9

LEMMA FlatEmpty ==
  ASSUME NEW f
  PROVE  Flat(f, <<>>) = <<>> /\ Map(f, <<>>) = <<>>
<1>1. Map(f, <<>>) = <<>>
  BY DEF Map
<1> QED BY <1>1, FlattenEmpty DEF Flat

LEMMA FlatType ==
  ASSUME NEW S, NEW T, NEW f, Makes(f, S, Seq(T)), NEW s \in Seq(S)
  PROVE  Flat(f, s) \in Seq(T)
<1>1. CASE s = <<>>
  <2>1. <<>> \in Seq(T)
    OBVIOUS
  <2> QED BY <1>1, <2>1, FlatEmpty
<1>2. CASE s # <<>>
  <2>1. Map(f, s) \in Seq(Seq(T))
    BY MapIs
  <2>2. <<>> \in Seq(T)
    OBVIOUS
  <2> QED BY <2>1, <2>2, FlattenAppend DEF Flat
<1> QED BY <1>1, <1>2

LEMMA FlatAppend ==
  ASSUME NEW S, NEW T, NEW f, NEW s \in Seq(S), NEW x \in S, Makes(f, S, Seq(T))
  PROVE  Flat(f, Append(s, x)) = Flat(f, s) \o f[x]
<1>1. PICK m : m = Map(f, s)
  OBVIOUS
<1>2. m \in Seq(Seq(T)) /\ Map(f, Append(s, x)) = Append(m, f[x])
  BY <1>1, MapIs, MapAppend
<1>3. f[x] \in Seq(T)
  BY DEF Makes
<1>4. FlattenSeq(Append(m, f[x])) = FlattenSeq(m) \o f[x]
  BY <1>2, <1>3, FlattenAppend
<1> QED BY <1>1, <1>2, <1>4 DEF Flat

LEMMA FlatOne ==
  ASSUME NEW S, NEW T, NEW f, Makes(f, S, Seq(T)), NEW x \in S
  PROVE  Flat(f, <<x>>) = f[x]
<1>1. <<>> \in Seq(S) /\ <<x>> = Append(<<>>, x)
  OBVIOUS
<1>2. Flat(f, <<x>>) = Flat(f, <<>>) \o f[x] /\ f[x] \in Seq(T)
  <2>1. f[x] \in Seq(T)
    BY DEF Makes
  <2> QED BY <1>1, <2>1, FlatAppend, ZenonT(30)
<1> QED BY <1>2, FlatEmpty, ConcatEmptySeq

\* Whichever two are joined first.
Associates(a, b, c) == (a \o b) \o c = a \o (b \o c)

LEMMA ConcatRegrouped ==
  ASSUME NEW S, NEW a \in Seq(S), NEW b \in Seq(S), NEW c \in Seq(S)
  PROVE  Associates(a, b, c)
BY ConcatAssociative DEF Associates

LEMMA FlatConcat ==
  ASSUME NEW S, NEW T, NEW f, Makes(f, S, Seq(T)), NEW s \in Seq(S), NEW t \in Seq(S)
  PROVE  Flat(f, s \o t) = Flat(f, s) \o Flat(f, t)
<1> DEFINE Ok == {u \in Seq(S) : Flat(f, s \o u) = Flat(f, s) \o Flat(f, u)}
<1>1. Flat(f, s) \in Seq(T)
  BY FlatType
<1>2. <<>> \in Ok
  <2>1. <<>> \in Seq(S) /\ s \o <<>> = s
    OBVIOUS
  <2> QED BY <1>1, <2>1, FlatEmpty, ConcatEmptySeq
<1>3. ASSUME NEW u \in Seq(S), NEW x \in S, u \in Ok
      PROVE  Append(u, x) \in Ok
  <2>1. Flat(f, Append(u, x)) = Flat(f, u) \o f[x] /\ Flat(f, u) \in Seq(T)
    BY FlatAppend, FlatType
  <2>2. s \o u \in Seq(S) /\ s \o Append(u, x) = Append(s \o u, x) /\ Append(u, x) \in Seq(S)
    OBVIOUS
  <2>3. Flat(f, Append(s \o u, x)) = Flat(f, s \o u) \o f[x]
    <3>1. PICK v : v = s \o u
      OBVIOUS
    <3>2. v \in Seq(S)
      BY <2>2, <3>1
    <3>3. Flat(f, Append(v, x)) = Flat(f, v) \o f[x]
      BY <3>2, FlatAppend
    <3> QED BY <3>1, <3>3
  <2>4. f[x] \in Seq(T)
    BY DEF Makes
  <2>5. (Flat(f, s) \o Flat(f, u)) \o f[x] = Flat(f, s) \o (Flat(f, u) \o f[x])
    <3>1. PICK a, b, c : a = Flat(f, s) /\ b = Flat(f, u) /\ c = f[x]
      OBVIOUS
    <3>2. a \in Seq(T) /\ b \in Seq(T) /\ c \in Seq(T)
      BY <1>1, <2>1, <2>4, <3>1
    <3>3. Associates(a, b, c)
      BY <3>2, ConcatRegrouped
    <3> QED BY <3>1, <3>3 DEF Associates
  <2> QED BY <1>3, <2>1, <2>2, <2>3, <2>5
<1> HIDE DEF Ok
<1>4. t \in Ok
  BY <1>2, <1>3, SeqByStep
<1> QED BY <1>4 DEF Ok

\* One after the other is the same as both at once.
Then(f, g, S) == [x \in S |-> Flat(g, f[x])]

LEMMA FlatFlat ==
  ASSUME NEW S, NEW T, NEW U, NEW f, Makes(f, S, Seq(T)), NEW g, Makes(g, T, Seq(U)),
         NEW s \in Seq(S)
  PROVE  Flat(g, Flat(f, s)) = Flat(Then(f, g, S), s)
<1> DEFINE h == Then(f, g, S)
           Ok == {u \in Seq(S) : Flat(g, Flat(f, u)) = Flat(h, u)}
<1>1. /\ \A x \in S : h[x] = Flat(g, f[x]) /\ f[x] \in Seq(T)
      /\ Makes(h, S, Seq(U)) /\ Makes(f, S, Seq(T))
  <2>1. ASSUME NEW x \in S
        PROVE  h[x] = Flat(g, f[x]) /\ h[x] \in Seq(U) /\ f[x] \in Seq(T)
    <3>1. f[x] \in Seq(T) /\ h[x] = Flat(g, f[x])
      BY DEF Then, Makes
    <3>2. Flat(g, f[x]) \in Seq(U)
      BY <3>1, FlatType
    <3> QED BY <3>1, <3>2
  <2> HIDE DEF h
  <2> QED BY <2>1 DEF Makes
<1> HIDE DEF h
<1>2. <<>> \in Ok
  <2>1. <<>> \in Seq(S)
    OBVIOUS
  <2> QED BY <2>1, FlatEmpty
<1>3. ASSUME NEW u \in Seq(S), NEW x \in S, u \in Ok
      PROVE  Append(u, x) \in Ok
  <2>1. Flat(f, Append(u, x)) = Flat(f, u) \o f[x] /\ Flat(f, u) \in Seq(T) /\ f[x] \in Seq(T)
    BY <1>1, FlatAppend, FlatType
  <2>2. Flat(g, Flat(f, u) \o f[x]) = Flat(g, Flat(f, u)) \o Flat(g, f[x])
    <3>1. PICK a, b : a = Flat(f, u) /\ b = f[x]
      OBVIOUS
    <3>2. a \in Seq(T) /\ b \in Seq(T)
      BY <2>1, <3>1
    <3>3. Flat(g, a \o b) = Flat(g, a) \o Flat(g, b)
      BY <3>2, FlatConcat
    <3> QED BY <3>1, <3>3
  <2>3. Flat(h, Append(u, x)) = Flat(h, u) \o h[x]
    BY <1>1, FlatAppend
  <2>4. Append(u, x) \in Seq(S)
    OBVIOUS
  <2> QED BY <1>1, <1>3, <2>1, <2>2, <2>3, <2>4
<1> HIDE DEF Ok
<1>4. s \in Ok
  BY <1>2, <1>3, SeqByStep
<1> QED BY <1>4 DEF Ok, h

LEMMA FlatSame ==
  ASSUME NEW f, NEW g, NEW s, \A i \in DOMAIN s : f[s[i]] = g[s[i]]
  PROVE  Flat(f, s) = Flat(g, s) /\ Map(f, s) = Map(g, s)
<1>1. Map(f, s) = Map(g, s)
  BY DEF Map
<1> QED BY <1>1 DEF Flat

\* f of each element, as a sequence.
Singly(f, S) == [x \in S |-> <<f[x]>>]

LEMMA FlatSingly ==
  ASSUME NEW S, NEW T, NEW f, Makes(f, S, T), NEW s \in Seq(S)
  PROVE  Flat(Singly(f, S), s) = Map(f, s)
<1> DEFINE Ok == {u \in Seq(S) : Flat(Singly(f, S), u) = Map(f, u)}
<1>1. /\ \A x \in S : Singly(f, S)[x] = <<f[x]>> /\ f[x] \in T
      /\ Makes(Singly(f, S), S, Seq(T)) /\ Makes(f, S, T)
  BY DEF Singly, Makes
<1>2. <<>> \in Ok
  <2>1. <<>> \in Seq(S)
    OBVIOUS
  <2> QED BY <2>1, FlatEmpty
<1>3. ASSUME NEW u \in Seq(S), NEW x \in S, u \in Ok
      PROVE  Append(u, x) \in Ok
  <2>1. Flat(Singly(f, S), Append(u, x)) = Flat(Singly(f, S), u) \o <<f[x]>>
    <3>1. Flat(Singly(f, S), Append(u, x)) = Flat(Singly(f, S), u) \o Singly(f, S)[x]
      BY <1>1, FlatAppend
    <3> QED BY <1>1, <3>1
  <2>2. Map(f, Append(u, x)) = Append(Map(f, u), f[x]) /\ Map(f, u) \in Seq(T)
    BY <1>1, MapIs, MapAppend
  <2>3. Map(f, u) \o <<f[x]>> = Append(Map(f, u), f[x]) /\ Append(u, x) \in Seq(S)
    BY <1>1, <2>2, AppendIsConcat
  <2> QED BY <1>3, <2>1, <2>2, <2>3
<1> HIDE DEF Ok
<1>4. s \in Ok
  BY <1>2, <1>3, SeqByStep
<1> QED BY <1>4 DEF Ok

\* What there is in a sequence that was put together is in one of its parts.
LEMMA FlatFrom ==
  ASSUME NEW S, NEW T, NEW f, Makes(f, S, Seq(T)), NEW s \in Seq(S)
  PROVE  /\ \A j \in DOMAIN Flat(f, s) : \E i \in DOMAIN s : \E k \in DOMAIN f[s[i]] :
              Flat(f, s)[j] = f[s[i]][k]
         /\ \A i \in DOMAIN s : \A k \in DOMAIN f[s[i]] : \E j \in DOMAIN Flat(f, s) :
              Flat(f, s)[j] = f[s[i]][k]
<1> DEFINE Into(u) == \A j \in DOMAIN Flat(f, u) : \E i \in DOMAIN u : \E k \in DOMAIN f[u[i]] :
                        Flat(f, u)[j] = f[u[i]][k]
           Onto(u) == \A i \in DOMAIN u : \A k \in DOMAIN f[u[i]] : \E j \in DOMAIN Flat(f, u) :
                        Flat(f, u)[j] = f[u[i]][k]
           Ok == {u \in Seq(S) : Into(u) /\ Onto(u)}
<1>1. <<>> \in Ok
  <2>1. <<>> \in Seq(S) /\ DOMAIN <<>> = {}
    OBVIOUS
  <2> QED BY <2>1, FlatEmpty
<1>2. ASSUME NEW u \in Seq(S), NEW x \in S, u \in Ok
      PROVE  Append(u, x) \in Ok
  <2>1. PICK v, a, b, c : v = Append(u, x) /\ a = Flat(f, u) /\ b = f[x] /\ c = Flat(f, v)
    OBVIOUS
  <2>2. /\ v \in Seq(S) /\ Len(v) = Len(u) + 1 /\ \A i \in 1..Len(u) : v[i] = u[i]
        /\ v[Len(u) + 1] = x
    BY <2>1, AppendIs
  <2>3. a \in Seq(T) /\ b \in Seq(T) /\ c = a \o b
    <3>1. f[x] \in Seq(T)
      BY DEF Makes
    <3>2. Flat(f, Append(u, x)) = Flat(f, u) \o f[x]
      BY FlatAppend
    <3>3. Flat(f, u) \in Seq(T)
      BY FlatType
    <3> QED BY <2>1, <3>1, <3>2, <3>3
  <2>4. DOMAIN u = 1..Len(u) /\ DOMAIN v = 1..Len(u) + 1 /\ Len(u) \in Nat
    BY <2>2
  <2>5. /\ DOMAIN a = 1..Len(a) /\ DOMAIN b = 1..Len(b) /\ DOMAIN c = 1..Len(a) + Len(b)
        /\ Len(a) \in Nat /\ Len(b) \in Nat
        /\ \A j \in 1..Len(a) + Len(b) : c[j] = IF j <= Len(a) THEN a[j] ELSE b[j - Len(a)]
    BY <2>3, ConcatProperties
  <2>6. Into(u) /\ Onto(u)
    BY <1>2
  <2>7. Into(v)
    <3>1. SUFFICES ASSUME NEW j \in DOMAIN c
                   PROVE  \E i \in DOMAIN v : \E k \in DOMAIN f[v[i]] : c[j] = f[v[i]][k]
      BY <2>1
    <3>2. CASE j <= Len(a)
      <4>1. j \in DOMAIN a /\ c[j] = a[j]
        BY <2>5, <3>2
      <4>2. PICK i \in DOMAIN u : \E k \in DOMAIN f[u[i]] : a[j] = f[u[i]][k]
        BY <2>1, <2>6, <4>1
      <4>3. i \in DOMAIN v /\ v[i] = u[i]
        BY <2>2, <2>4
      <4> QED BY <4>1, <4>2, <4>3
    <3>3. CASE ~(j <= Len(a))
      <4>1. j - Len(a) \in DOMAIN b /\ c[j] = b[j - Len(a)]
        BY <2>5, <3>3
      <4>2. Len(u) + 1 \in DOMAIN v /\ f[v[Len(u) + 1]] = b
        BY <2>1, <2>2, <2>4
      <4> QED BY <4>1, <4>2
    <3> QED BY <3>2, <3>3
  <2>8. Onto(v)
    <3>1. SUFFICES ASSUME NEW i \in DOMAIN v, NEW k \in DOMAIN f[v[i]]
                   PROVE  \E j \in DOMAIN c : c[j] = f[v[i]][k]
      BY <2>1
    <3>2. CASE i = Len(u) + 1
      <4>1. f[v[i]] = b /\ k \in 1..Len(b)
        BY <2>1, <2>2, <2>5, <3>2
      <4>2. Len(a) + k \in DOMAIN c /\ ~(Len(a) + k <= Len(a)) /\ (Len(a) + k) - Len(a) = k
        BY <2>5, <4>1
      <4>3. c[Len(a) + k] = b[k]
        BY <2>5, <4>2
      <4> QED BY <4>1, <4>2, <4>3
    <3>3. CASE i # Len(u) + 1
      <4>1. i \in DOMAIN u /\ v[i] = u[i]
        BY <2>2, <2>4, <3>3
      <4>2. PICK j \in DOMAIN a : a[j] = f[u[i]][k]
        BY <2>1, <2>6, <4>1
      <4>3. j \in DOMAIN c /\ c[j] = a[j]
        BY <2>5
      <4> QED BY <4>1, <4>2, <4>3
    <3> QED BY <3>2, <3>3
  <2> HIDE DEF Into, Onto
  <2> QED BY <2>1, <2>2, <2>7, <2>8
<1> HIDE DEF Ok
<1>3. s \in Ok
  BY <1>1, <1>2, SeqByStep
<1> QED BY <1>3 DEF Ok

-----------------------------------------------------------------------------
(* Parts *)

AnyKind  == Said \union Written \union {"prompt"}
PartType ==
  [kind : AnyKind, n : Nat] \union [kind : {"result_text"}, n : Nat, named : BOOLEAN]

LEMMA PartKind ==
  ASSUME NEW x \in PartType
  PROVE  x.kind \in AnyKind
BY DEF PartType, AnyKind, Written

Picker(kinds) == [x \in PartType |-> IF x.kind \in kinds THEN <<x>> ELSE <<>>]

LEMMA PickerMakes ==
  ASSUME NEW kinds
  PROVE  Makes(Picker(kinds), PartType, Seq(PartType))
BY DEF Makes, Picker

LEMMA OnlyIs ==
  ASSUME NEW kinds, NEW parts \in Seq(PartType)
  PROVE  Only(parts, kinds) = Flat(Picker(kinds), parts)
<1>1. Only(parts, kinds) =
        FlattenSeq([i \in DOMAIN parts |-> IF parts[i].kind \in kinds THEN <<parts[i]>> ELSE <<>>])
  BY DEF Only, Each
<1>2. \A i \in DOMAIN parts : parts[i] \in PartType
  OBVIOUS
<1>3. Map(Picker(kinds), parts) =
        [i \in DOMAIN parts |-> IF parts[i].kind \in kinds THEN <<parts[i]>> ELSE <<>>]
  BY <1>2 DEF Map, Picker
<1> QED BY <1>1, <1>3 DEF Flat

LEMMA OnlyEmpty ==
  ASSUME NEW kinds
  PROVE  Only(<<>>, kinds) = <<>>
<1>1. <<>> \in Seq(PartType)
  OBVIOUS
<1> QED BY <1>1, OnlyIs, FlatEmpty

LEMMA OnlyType ==
  ASSUME NEW kinds, NEW parts \in Seq(PartType)
  PROVE  Only(parts, kinds) \in Seq(PartType)
BY OnlyIs, PickerMakes, FlatType

LEMMA OnlyAppend ==
  ASSUME NEW kinds, NEW parts \in Seq(PartType), NEW x \in PartType
  PROVE  Only(Append(parts, x), kinds) =
           IF x.kind \in kinds THEN Append(Only(parts, kinds), x) ELSE Only(parts, kinds)
<1>1. PICK u : u = Append(parts, x)
  OBVIOUS
<1>2. u \in Seq(PartType)
  BY <1>1
<1>3. Only(u, kinds) = Flat(Picker(kinds), u) /\ Only(parts, kinds) = Flat(Picker(kinds), parts)
  BY <1>2, OnlyIs
<1>4. Flat(Picker(kinds), u) = Flat(Picker(kinds), parts) \o Picker(kinds)[x]
  BY <1>1, PickerMakes, FlatAppend
<1>5. Picker(kinds)[x] = IF x.kind \in kinds THEN <<x>> ELSE <<>>
  BY DEF Picker
<1>6. PICK a : a = Only(parts, kinds)
  OBVIOUS
<1>7. a \in Seq(PartType)
  BY <1>6, OnlyType
<1>8. a \o <<x>> = Append(a, x) /\ a \o <<>> = a
  BY <1>7, AppendIsConcat, ConcatEmptySeq
<1> QED BY <1>1, <1>3, <1>4, <1>5, <1>6, <1>8

LEMMA OnlyConcat ==
  ASSUME NEW kinds, NEW a \in Seq(PartType), NEW b \in Seq(PartType)
  PROVE  Only(a \o b, kinds) = Only(a, kinds) \o Only(b, kinds)
<1>1. PICK u : u = a \o b
  OBVIOUS
<1>2. u \in Seq(PartType)
  BY <1>1
<1>3. Only(u, kinds) = Flat(Picker(kinds), u)
  BY <1>2, OnlyIs
<1>4. Only(a, kinds) = Flat(Picker(kinds), a) /\ Only(b, kinds) = Flat(Picker(kinds), b)
  BY OnlyIs
<1>5. Flat(Picker(kinds), a \o b) = Flat(Picker(kinds), a) \o Flat(Picker(kinds), b)
  BY PickerMakes, FlatConcat
<1> QED BY <1>1, <1>3, <1>4, <1>5

LEMMA OnlyOne ==
  ASSUME NEW kinds, NEW x \in PartType
  PROVE  Only(<<x>>, kinds) = IF x.kind \in kinds THEN <<x>> ELSE <<>>
<1>1. <<x>> \in Seq(PartType)
  OBVIOUS
<1>2. Flat(Picker(kinds), <<x>>) = Picker(kinds)[x]
  BY PickerMakes, FlatOne
<1> QED BY <1>1, <1>2, OnlyIs DEF Picker

\* All of them, and none.
LEMMA OnlyAll ==
  ASSUME NEW kinds, NEW parts \in Seq(PartType), \A i \in DOMAIN parts : parts[i].kind \in kinds
  PROVE  Only(parts, kinds) = parts
<1> DEFINE Ok == {u \in Seq(PartType) :
                    (\A i \in DOMAIN u : u[i].kind \in kinds) => Only(u, kinds) = u}
<1>1. <<>> \in Ok
  <2>1. <<>> \in Seq(PartType)
    OBVIOUS
  <2> QED BY <2>1, OnlyEmpty
<1>2. ASSUME NEW u \in Seq(PartType), NEW x \in PartType, u \in Ok
      PROVE  Append(u, x) \in Ok
  <2>1. PICK v : v = Append(u, x)
    OBVIOUS
  <2>2. /\ v \in Seq(PartType) /\ Len(v) = Len(u) + 1
        /\ \A i \in 1..Len(u) : v[i] = u[i]
        /\ v[Len(u) + 1] = x
    BY <2>1, AppendIs
  <2>3. SUFFICES ASSUME \A i \in DOMAIN v : v[i].kind \in kinds
                 PROVE  Only(v, kinds) = v
    BY <2>1, <2>2
  <2>4. DOMAIN u = 1..Len(u) /\ DOMAIN v = 1..Len(u) + 1 /\ Len(u) \in Nat
    BY <2>2
  <2>5. x.kind \in kinds /\ \A i \in DOMAIN u : u[i].kind \in kinds
    BY <2>2, <2>3, <2>4
  <2>6. Only(u, kinds) = u
    BY <1>2, <2>5
  <2> QED BY <2>1, <2>5, <2>6, OnlyAppend
<1> HIDE DEF Ok
<1>3. parts \in Ok
  BY <1>1, <1>2, SeqByStep
<1> QED BY <1>3 DEF Ok

LEMMA OnlyNone ==
  ASSUME NEW kinds, NEW parts \in Seq(PartType), \A i \in DOMAIN parts : parts[i].kind \notin kinds
  PROVE  Only(parts, kinds) = <<>>
<1>1. Flat(Picker(kinds), parts) \in Seq(PartType)
  BY PickerMakes, FlatType
<1>2. \A i \in DOMAIN parts : Picker(kinds)[parts[i]] = <<>>
  BY DEF Picker
<1>3. ASSUME NEW j \in DOMAIN Flat(Picker(kinds), parts)
      PROVE  FALSE
  <2>1. PICK i \in DOMAIN parts : \E k \in DOMAIN Picker(kinds)[parts[i]] : TRUE
    BY PickerMakes, FlatFrom
  <2>2. Picker(kinds)[parts[i]] = <<>> /\ DOMAIN <<>> = {}
    BY <1>2
  <2> QED BY <2>1, <2>2
<1>4. Flat(Picker(kinds), parts) = <<>>
  <2>1. PICK q : q = Flat(Picker(kinds), parts)
    OBVIOUS
  <2>2. q \in Seq(PartType) /\ DOMAIN q = {}
    BY <1>1, <1>3, <2>1
  <2> QED BY <2>1, <2>2
<1> QED BY <1>4, OnlyIs

LEMMA OnlyOnly ==
  ASSUME NEW kinds, NEW others, NEW parts \in Seq(PartType)
  PROVE  Only(Only(parts, kinds), others) = Only(parts, kinds \intersect others)
<1> DEFINE Ok == {u \in Seq(PartType) : Only(Only(u, kinds), others) = Only(u, kinds \intersect others)}
<1>1. <<>> \in Ok
  <2>1. <<>> \in Seq(PartType)
    OBVIOUS
  <2> QED BY <2>1, OnlyEmpty
<1>2. ASSUME NEW u \in Seq(PartType), NEW x \in PartType, u \in Ok
      PROVE  Append(u, x) \in Ok
  <2>1. PICK a, b : a = Only(u, kinds) /\ b = kinds \intersect others
    OBVIOUS
  <2>2. a \in Seq(PartType) /\ Append(u, x) \in Seq(PartType)
    BY <2>1, OnlyType
  <2>3. Only(Append(u, x), kinds) = IF x.kind \in kinds THEN Append(a, x) ELSE a
    BY <2>1, OnlyAppend
  <2>4. Only(Append(u, x), b) = IF x.kind \in b THEN Append(Only(u, b), x) ELSE Only(u, b)
    BY OnlyAppend
  <2>5. Only(Append(a, x), others) = IF x.kind \in others THEN Append(Only(a, others), x) ELSE Only(a, others)
    BY <2>2, OnlyAppend
  <2>6. Only(a, others) = Only(u, b)
    BY <1>2, <2>1
  <2>7. x.kind \in b <=> x.kind \in kinds /\ x.kind \in others
    BY <2>1
  <2> QED BY <2>1, <2>2, <2>3, <2>4, <2>5, <2>6, <2>7
<1> HIDE DEF Ok
<1>3. parts \in Ok
  BY <1>1, <1>2, SeqByStep
<1> QED BY <1>3 DEF Ok

\* What is taken is of those kinds, and of the sequence.
LEMMA OnlyFrom ==
  ASSUME NEW kinds, NEW parts \in Seq(PartType)
  PROVE  \A j \in DOMAIN Only(parts, kinds) :
           /\ Only(parts, kinds)[j].kind \in kinds
           /\ \E i \in DOMAIN parts : Only(parts, kinds)[j] = parts[i]
<1>1. SUFFICES ASSUME NEW j \in DOMAIN Flat(Picker(kinds), parts)
               PROVE  \E i \in DOMAIN parts : /\ parts[i].kind \in kinds
                                              /\ Flat(Picker(kinds), parts)[j] = parts[i]
  BY OnlyIs
<1>2. PICK i \in DOMAIN parts : \E k \in DOMAIN Picker(kinds)[parts[i]] :
             Flat(Picker(kinds), parts)[j] = Picker(kinds)[parts[i]][k]
  BY PickerMakes, FlatFrom
<1>3. PICK k \in DOMAIN Picker(kinds)[parts[i]] :
             Flat(Picker(kinds), parts)[j] = Picker(kinds)[parts[i]][k]
  BY <1>2
<1>4. PICK x : x = parts[i]
  OBVIOUS
<1>5. x \in PartType
  BY <1>4
<1>6. Picker(kinds)[x] = IF x.kind \in kinds THEN <<x>> ELSE <<>>
  BY <1>5 DEF Picker
<1>7. x.kind \in kinds
  <2>1. DOMAIN <<>> = {}
    OBVIOUS
  <2> QED BY <1>3, <1>4, <1>6, <2>1
<1>8. k = 1 /\ <<x>>[k] = x
  <2>1. Picker(kinds)[x] = <<x>> /\ DOMAIN <<x>> = {1}
    BY <1>6, <1>7
  <2> QED BY <1>3, <1>4, <2>1
<1> QED BY <1>3, <1>4, <1>6, <1>7, <1>8

\* What is of those kinds is taken, in its order.
LEMMA OnlyOrder ==
  ASSUME NEW kinds, NEW parts \in Seq(PartType)
  PROVE  \A i \in DOMAIN parts : parts[i].kind \in kinds =>
           \E j \in DOMAIN Only(parts, kinds) :
             /\ Only(parts, kinds)[j] = parts[i]
             /\ \A k \in 1..(i - 1) : parts[k].kind \in kinds =>
                  \E l \in 1..(j - 1) : Only(parts, kinds)[l] = parts[k]
<1> DEFINE Taken(u, q, i) ==
             \E j \in DOMAIN q : /\ q[j] = u[i]
                                 /\ \A k \in 1..(i - 1) : u[k].kind \in kinds =>
                                      \E l \in 1..(j - 1) : q[l] = u[k]
           Ok == {u \in Seq(PartType) :
                    \A i \in DOMAIN u : u[i].kind \in kinds => Taken(u, Only(u, kinds), i)}
<1>1. <<>> \in Ok
  <2>1. <<>> \in Seq(PartType) /\ DOMAIN <<>> = {}
    OBVIOUS
  <2> QED BY <2>1
<1>2. ASSUME NEW u \in Seq(PartType), NEW x \in PartType, u \in Ok
      PROVE  Append(u, x) \in Ok
  <2>1. PICK v, p, q : v = Append(u, x) /\ p = Only(u, kinds) /\ q = Only(v, kinds)
    OBVIOUS
  <2>2. /\ v \in Seq(PartType) /\ Len(v) = Len(u) + 1
        /\ \A i \in 1..Len(u) : v[i] = u[i]
        /\ v[Len(u) + 1] = x
    BY <2>1, AppendIs
  <2>3. p \in Seq(PartType) /\ q = IF x.kind \in kinds THEN Append(p, x) ELSE p
    BY <2>1, OnlyType, OnlyAppend
  <2>4. DOMAIN u = 1..Len(u) /\ DOMAIN v = 1..Len(u) + 1 /\ Len(u) \in Nat
        /\ DOMAIN p = 1..Len(p) /\ Len(p) \in Nat
    BY <2>2, <2>3
  <2>5. /\ DOMAIN p \subseteq DOMAIN q /\ \A j \in DOMAIN p : q[j] = p[j]
        /\ x.kind \in kinds => Len(p) + 1 \in DOMAIN q /\ q[Len(p) + 1] = x
    <3>1. CASE x.kind \in kinds
      <4>1. /\ q \in Seq(PartType) /\ Len(q) = Len(p) + 1
            /\ \A i \in 1..Len(p) : q[i] = p[i]
            /\ q[Len(p) + 1] = x
        BY <2>3, <3>1, AppendIs
      <4> QED BY <2>4, <4>1
    <3>2. CASE x.kind \notin kinds
      BY <2>3, <3>2
    <3> QED BY <3>1, <3>2
  <2> SUFFICES \A i \in DOMAIN v : v[i].kind \in kinds => Taken(v, q, i)
    <3> HIDE DEF Taken
    <3> QED BY <2>1, <2>2
  <2>6. SUFFICES ASSUME NEW i \in DOMAIN v, v[i].kind \in kinds
                 PROVE  Taken(v, q, i)
    <3> HIDE DEF Taken
    <3> QED OBVIOUS
  <2>7. CASE i = Len(u) + 1
    <3>1. v[i] = x /\ i - 1 = Len(u) /\ Len(p) + 1 \in DOMAIN q /\ q[Len(p) + 1] = x
          /\ (Len(p) + 1) - 1 = Len(p)
      BY <2>2, <2>4, <2>5, <2>6, <2>7
    <3>2. ASSUME NEW k \in 1..Len(u), v[k].kind \in kinds
          PROVE  \E l \in 1..Len(p) : q[l] = v[k]
      <4>1. v[k] = u[k] /\ k \in DOMAIN u
        BY <2>2, <2>4
      <4>2. PICK j \in DOMAIN p : p[j] = u[k]
        BY <1>2, <2>1, <3>2, <4>1
      <4> QED BY <2>4, <2>5, <4>1, <4>2
    <3> QED BY <3>1, <3>2
  <2>8. CASE i # Len(u) + 1
    <3>1. i \in DOMAIN u /\ v[i] = u[i] /\ \A k \in 1..(i - 1) : v[k] = u[k]
      BY <2>2, <2>4, <2>8
    <3>2. Taken(u, p, i)
      BY <1>2, <2>1, <2>6, <3>1
    <3>3. PICK j \in DOMAIN p : /\ p[j] = u[i]
                                /\ \A k \in 1..(i - 1) : u[k].kind \in kinds =>
                                     \E l \in 1..(j - 1) : p[l] = u[k]
      BY <3>2
    <3>4. j \in DOMAIN q /\ q[j] = p[j] /\ \A l \in 1..(j - 1) : q[l] = p[l]
      BY <2>4, <2>5
    <3> QED BY <3>1, <3>3, <3>4
  <2> QED BY <2>7, <2>8
<1> HIDE DEF Ok
<1>3. parts \in Ok
  BY <1>1, <1>2, SeqByStep
<1> QED BY <1>3 DEF Ok

\* Two sets of kinds share out the sequence.
LEMMA OnlyShares ==
  ASSUME NEW A, NEW B, NEW parts \in Seq(PartType), A \intersect B = {},
         \A i \in DOMAIN parts : parts[i].kind \in A \union B
  PROVE  Len(Only(parts, A)) + Len(Only(parts, B)) = Len(parts)
<1> DEFINE Ok == {u \in Seq(PartType) :
                    (\A i \in DOMAIN u : u[i].kind \in A \union B) =>
                      Len(Only(u, A)) + Len(Only(u, B)) = Len(u)}
<1>1. <<>> \in Ok
  <2>1. <<>> \in Seq(PartType) /\ Len(<<>>) = 0
    OBVIOUS
  <2> QED BY <2>1, OnlyEmpty
<1>2. ASSUME NEW u \in Seq(PartType), NEW x \in PartType, u \in Ok
      PROVE  Append(u, x) \in Ok
  <2>1. PICK v, a, b : v = Append(u, x) /\ a = Only(u, A) /\ b = Only(u, B)
    OBVIOUS
  <2>2. /\ v \in Seq(PartType) /\ Len(v) = Len(u) + 1
        /\ \A i \in 1..Len(u) : v[i] = u[i]
        /\ v[Len(u) + 1] = x
    BY <2>1, AppendIs
  <2>3. SUFFICES ASSUME \A i \in DOMAIN v : v[i].kind \in A \union B
                 PROVE  Len(Only(v, A)) + Len(Only(v, B)) = Len(v)
    BY <2>1, <2>2
  <2>4. DOMAIN u = 1..Len(u) /\ DOMAIN v = 1..Len(u) + 1 /\ Len(u) \in Nat
    BY <2>2
  <2>5. x.kind \in A \union B /\ \A i \in DOMAIN u : u[i].kind \in A \union B
    BY <2>2, <2>3, <2>4
  <2>6. Len(a) + Len(b) = Len(u)
    BY <1>2, <2>1, <2>5
  <2>7. a \in Seq(PartType) /\ b \in Seq(PartType)
    BY <2>1, OnlyType
  <2>8. Len(a) \in Nat /\ Len(b) \in Nat /\ Len(Append(a, x)) = Len(a) + 1
        /\ Len(Append(b, x)) = Len(b) + 1
    BY <2>7
  <2>9. /\ Only(v, A) = IF x.kind \in A THEN Append(a, x) ELSE a
        /\ Only(v, B) = IF x.kind \in B THEN Append(b, x) ELSE b
    BY <2>1, OnlyAppend
  <2>10. x.kind \in A <=> ~(x.kind \in B)
    BY <2>5
  <2>11. CASE x.kind \in A
    <3>1. Only(v, A) = Append(a, x) /\ Only(v, B) = b
      BY <2>9, <2>10, <2>11
    <3> QED BY <2>2, <2>6, <2>8, <3>1
  <2>12. CASE x.kind \notin A
    <3>1. Only(v, A) = a /\ Only(v, B) = Append(b, x)
      BY <2>9, <2>10, <2>12
    <3>2. Len(Only(v, A)) = Len(a) /\ Len(Only(v, B)) = Len(b) + 1
      BY <2>8, <3>1
    <3>3. Len(v) = Len(a) + Len(b) + 1
      BY <2>2, <2>6
    <3> HIDE <3>1
    <3> QED BY <2>8, <3>2, <3>3
  <2> QED BY <2>11, <2>12
<1> HIDE DEF Ok
<1>3. parts \in Ok
  BY <1>1, <1>2, SeqByStep
<1> QED BY <1>3 DEF Ok

-----------------------------------------------------------------------------
(* What is said by messages *)

Type  == {"message", "untyped", "function_call", "function_call_output"}
Role  == {"user", "assistant", "tool", "system", "developer", ""}
           \union {s.upstream.role : s \in Setting} \union {s.features.role : s \in Setting}
Actor == {"system", "assistant", "user"}
MessageType == [type : Type, role : Role, parts : Seq(PartType)]
Entry       == [at : Nat, by : Actor, part : PartType]
HeardType   == [by : Actor, part : PartType]

\* Spoken, without the places of the messages.
Bare == [e \in Entry |-> [by |-> e.by, part |-> e.part]]
Heard(by, parts) == [i \in DOMAIN parts |-> [by |-> by, part |-> parts[i]]]
Told(kinds) == [m \in MessageType |-> Heard(Speaker(m), Only(m.parts, kinds))]

Blocks(messages, kinds) ==
  [i \in DOMAIN messages |-> Block(i, Speaker(messages[i]), Only(messages[i].parts, kinds))]

LEMMA MapConcat ==
  ASSUME NEW S, NEW T, NEW f, Makes(f, S, T), NEW s \in Seq(S), NEW t \in Seq(S)
  PROVE  Map(f, s \o t) = Map(f, s) \o Map(f, t)
<1>1. Makes(Singly(f, S), S, Seq(T))
  BY DEF Makes, Singly
<1>2. PICK u : u = s \o t
  OBVIOUS
<1>3. u \in Seq(S)
  BY <1>2
<1>4. Flat(Singly(f, S), u) = Map(f, u) /\ Flat(Singly(f, S), s) = Map(f, s) /\ Flat(Singly(f, S), t) = Map(f, t)
  BY <1>3, FlatSingly
<1>5. Flat(Singly(f, S), s \o t) = Flat(Singly(f, S), s) \o Flat(Singly(f, S), t)
  BY <1>1, FlatConcat
<1> QED BY <1>2, <1>4, <1>5

LEMMA SpeakerType ==
  ASSUME NEW m \in MessageType
  PROVE  Speaker(m) \in Actor
BY DEF Speaker, Actor

LEMMA BlockIs ==
  ASSUME NEW at \in Nat, NEW by \in Actor, NEW parts \in Seq(PartType)
  PROVE  /\ Block(at, by, parts) \in Seq(Entry) /\ Len(Block(at, by, parts)) = Len(parts)
         /\ \A i \in 1..Len(parts) : Block(at, by, parts)[i] = [at |-> at, by |-> by, part |-> parts[i]]
<1>1. Len(parts) \in Nat /\ DOMAIN parts = 1..Len(parts) /\ \A i \in 1..Len(parts) : parts[i] \in PartType
  OBVIOUS
<1>2. Block(at, by, parts) = [i \in 1..Len(parts) |-> [at |-> at, by |-> by, part |-> parts[i]]]
  BY <1>1 DEF Block, Each
<1>3. \A i \in 1..Len(parts) : [at |-> at, by |-> by, part |-> parts[i]] \in Entry
  BY <1>1 DEF Entry
<1> QED BY <1>1, <1>2, <1>3

LEMMA HeardIs ==
  ASSUME NEW by \in Actor, NEW parts \in Seq(PartType)
  PROVE  /\ Heard(by, parts) \in Seq(HeardType) /\ Len(Heard(by, parts)) = Len(parts)
         /\ \A i \in 1..Len(parts) : Heard(by, parts)[i] = [by |-> by, part |-> parts[i]]
<1>1. Len(parts) \in Nat /\ DOMAIN parts = 1..Len(parts) /\ \A i \in 1..Len(parts) : parts[i] \in PartType
  OBVIOUS
<1>2. \A i \in 1..Len(parts) : [by |-> by, part |-> parts[i]] \in HeardType
  BY <1>1 DEF HeardType
<1> QED BY <1>1, <1>2 DEF Heard

LEMMA HeardEmpty ==
  ASSUME NEW by
  PROVE  Heard(by, <<>>) = <<>>
BY DEF Heard

LEMMA BareType == Bare \in [Entry -> HeardType] /\ Makes(Bare, Entry, HeardType)
BY DEF Bare, Entry, HeardType, Makes

LEMMA BareConcat ==
  ASSUME NEW a \in Seq(Entry), NEW b \in Seq(Entry)
  PROVE  Map(Bare, a \o b) = Map(Bare, a) \o Map(Bare, b)
<1>1. Makes(Bare, Entry, HeardType)
  BY BareType
<1> QED BY <1>1, MapConcat

LEMMA BareBlock ==
  ASSUME NEW at \in Nat, NEW by \in Actor, NEW parts \in Seq(PartType)
  PROVE  Map(Bare, Block(at, by, parts)) = Heard(by, parts)
<1>1. PICK b, h, m : b = Block(at, by, parts) /\ h = Heard(by, parts) /\ m = Map(Bare, b)
  OBVIOUS
<1>2. /\ b \in Seq(Entry) /\ Len(b) = Len(parts)
      /\ \A i \in 1..Len(parts) : b[i] = [at |-> at, by |-> by, part |-> parts[i]]
  BY <1>1, BlockIs
<1>3. /\ h \in Seq(HeardType) /\ Len(h) = Len(parts)
      /\ \A i \in 1..Len(parts) : h[i] = [by |-> by, part |-> parts[i]]
  BY <1>1, HeardIs
<1>4. m \in Seq(HeardType) /\ Len(m) = Len(b) /\ \A i \in 1..Len(b) : m[i] = Bare[b[i]]
  <2>1. Makes(Bare, Entry, HeardType) /\ b \in Seq(Entry)
    BY <1>2, BareType
  <2> QED BY <1>1, <2>1, MapIs
<1>5. ASSUME NEW i \in 1..Len(parts)
      PROVE  m[i] = h[i]
  <2>1. b[i] \in Entry
    BY <1>2
  <2>2. Bare[b[i]] = [by |-> b[i].by, part |-> b[i].part]
    BY <2>1 DEF Bare
  <2>3. b[i] = [at |-> at, by |-> by, part |-> parts[i]]
    BY <1>2
  <2>4. b[i].by = by /\ b[i].part = parts[i]
    BY <2>3
  <2> QED BY <1>2, <1>3, <1>4, <2>2, <2>4
<1>6. m = h
  BY <1>2, <1>3, <1>4, <1>5, SeqEqual
<1> QED BY <1>1, <1>6

LEMMA ToldIs ==
  ASSUME NEW kinds
  PROVE  /\ Makes(Told(kinds), MessageType, Seq(HeardType))
         /\ \A m \in MessageType : Told(kinds)[m] = Heard(Speaker(m), Only(m.parts, kinds))
<1>1. \A m \in MessageType : Told(kinds)[m] = Heard(Speaker(m), Only(m.parts, kinds))
  BY DEF Told
<1>2. ASSUME NEW m \in MessageType
      PROVE  Heard(Speaker(m), Only(m.parts, kinds)) \in Seq(HeardType)
  <2>1. m.parts \in Seq(PartType)
    BY DEF MessageType
  <2>2. Only(m.parts, kinds) \in Seq(PartType)
    BY <2>1, OnlyType
  <2> QED BY <2>2, SpeakerType, HeardIs
<1> QED BY <1>1, <1>2 DEF Makes

LEMMA BlocksType ==
  ASSUME NEW messages \in Seq(MessageType), NEW kinds
  PROVE  /\ Blocks(messages, kinds) \in Seq(Seq(Entry)) /\ Len(Blocks(messages, kinds)) = Len(messages)
         /\ DOMAIN Blocks(messages, kinds) = 1..Len(messages)
<1>1. Len(messages) \in Nat /\ DOMAIN messages = 1..Len(messages)
      /\ \A i \in 1..Len(messages) : messages[i] \in MessageType
  OBVIOUS
<1>2. ASSUME NEW i \in 1..Len(messages)
      PROVE  Block(i, Speaker(messages[i]), Only(messages[i].parts, kinds)) \in Seq(Entry)
  <2>1. PICK m : m = messages[i]
    OBVIOUS
  <2>2. m \in MessageType /\ m.parts \in Seq(PartType) /\ i \in Nat
    BY <1>1, <2>1 DEF MessageType
  <2>3. Only(m.parts, kinds) \in Seq(PartType) /\ Speaker(m) \in Actor
    BY <2>2, OnlyType, SpeakerType
  <2> QED BY <2>1, <2>2, <2>3, BlockIs
<1> QED BY <1>1, <1>2 DEF Blocks

LEMMA BlocksAppend ==
  ASSUME NEW messages \in Seq(MessageType), NEW m \in MessageType, NEW kinds
  PROVE  Blocks(Append(messages, m), kinds) =
           Append(Blocks(messages, kinds), Block(Len(messages) + 1, Speaker(m), Only(m.parts, kinds)))
<1>1. PICK u, b : /\ u = Append(messages, m)
                  /\ b = Block(Len(messages) + 1, Speaker(m), Only(m.parts, kinds))
  OBVIOUS
<1>2. /\ u \in Seq(MessageType) /\ Len(u) = Len(messages) + 1 /\ Len(messages) \in Nat
      /\ \A i \in 1..Len(messages) : u[i] = messages[i]
      /\ u[Len(messages) + 1] = m
  BY <1>1, AppendIs
<1>3. PICK p, q, v : p = Blocks(messages, kinds) /\ q = Blocks(u, kinds) /\ v = Append(p, b)
  OBVIOUS
<1>4. /\ p \in Seq(Seq(Entry)) /\ Len(p) = Len(messages) /\ q \in Seq(Seq(Entry)) /\ Len(q) = Len(u)
      /\ DOMAIN p = 1..Len(messages) /\ DOMAIN q = 1..Len(u)
  BY <1>2, <1>3, BlocksType
<1>5. \A i \in 1..Len(u) : q[i] = Block(i, Speaker(u[i]), Only(u[i].parts, kinds))
  BY <1>3, <1>4 DEF Blocks
<1>6. \A i \in 1..Len(messages) : p[i] = Block(i, Speaker(messages[i]), Only(messages[i].parts, kinds))
  BY <1>3, <1>4 DEF Blocks
<1>7. b = q[Len(u)] /\ b \in Seq(Entry)
  <2>1. Len(u) \in 1..Len(u)
    BY <1>2
  <2> QED BY <1>1, <1>2, <1>4, <1>5, <2>1
<1>8. /\ v \in Seq(Seq(Entry)) /\ Len(v) = Len(p) + 1
      /\ \A i \in 1..Len(p) : v[i] = p[i]
      /\ v[Len(p) + 1] = b
  BY <1>3, <1>4, <1>7, AppendIs
<1>9. ASSUME NEW i \in 1..Len(q)
      PROVE  q[i] = v[i]
  <2>1. CASE i = Len(u)
    BY <1>2, <1>4, <1>7, <1>8, <2>1
  <2>2. CASE i # Len(u)
    <3>1. i \in 1..Len(messages) /\ i \in 1..Len(u)
      BY <1>2, <1>4, <2>2
    <3> QED BY <1>2, <1>4, <1>5, <1>6, <1>8, <3>1
  <2> QED BY <2>1, <2>2
<1>10. q = v
  BY <1>2, <1>4, <1>8, <1>9, SeqEqual
<1> QED BY <1>1, <1>3, <1>10

LEMMA SaidType ==
  ASSUME NEW messages \in Seq(MessageType), NEW kinds
  PROVE  FlattenSeq(Blocks(messages, kinds)) \in Seq(Entry)
<1>1. Blocks(messages, kinds) \in Seq(Seq(Entry)) /\ <<>> \in Seq(Entry)
  BY BlocksType
<1> QED BY <1>1, FlattenAppend

LEMMA NoBlocks ==
  ASSUME NEW kinds
  PROVE  FlattenSeq(Blocks(<<>>, kinds)) = <<>>
<1>1. Blocks(<<>>, kinds) = <<>>
  BY DEF Blocks
<1> QED BY <1>1, FlattenEmpty

LEMMA SaidAppend ==
  ASSUME NEW messages \in Seq(MessageType), NEW m \in MessageType, NEW kinds
  PROVE  FlattenSeq(Blocks(Append(messages, m), kinds)) =
           FlattenSeq(Blocks(messages, kinds))
             \o Block(Len(messages) + 1, Speaker(m), Only(m.parts, kinds))
<1>1. PICK b : b = Block(Len(messages) + 1, Speaker(m), Only(m.parts, kinds))
  OBVIOUS
<1>2. b \in Seq(Entry)
  <2>1. m.parts \in Seq(PartType) /\ Len(messages) + 1 \in Nat
    BY DEF MessageType
  <2>2. Only(m.parts, kinds) \in Seq(PartType) /\ Speaker(m) \in Actor
    BY <2>1, OnlyType, SpeakerType
  <2> QED BY <1>1, <2>1, <2>2, BlockIs
<1>3. PICK p : p = Blocks(messages, kinds)
  OBVIOUS
<1>4. p \in Seq(Seq(Entry)) /\ Blocks(Append(messages, m), kinds) = Append(p, b)
  BY <1>1, <1>3, BlocksType, BlocksAppend
<1>5. FlattenSeq(Append(p, b)) = FlattenSeq(p) \o b
  BY <1>2, <1>4, FlattenAppend
<1> QED BY <1>1, <1>3, <1>4, <1>5

LEMMA BareBlocks ==
  ASSUME NEW messages \in Seq(MessageType), NEW kinds
  PROVE  Map(Bare, FlattenSeq(Blocks(messages, kinds))) = Flat(Told(kinds), messages)
<1> DEFINE Ok == {u \in Seq(MessageType) :
                    Map(Bare, FlattenSeq(Blocks(u, kinds))) = Flat(Told(kinds), u)}
<1>1. <<>> \in Ok
  <2>1. <<>> \in Seq(MessageType)
    OBVIOUS
  <2> QED BY <2>1, NoBlocks, FlatEmpty
<1>2. ASSUME NEW u \in Seq(MessageType), NEW m \in MessageType, u \in Ok
      PROVE  Append(u, m) \in Ok
  <2>1. PICK a, b, o, n : /\ a = FlattenSeq(Blocks(u, kinds)) /\ b = Block(n, Speaker(m), o)
                          /\ n = Len(u) + 1 /\ o = Only(m.parts, kinds)
    OBVIOUS
  <2>2. n \in Nat /\ m.parts \in Seq(PartType)
    BY <2>1 DEF MessageType
  <2>3. a \in Seq(Entry) /\ o \in Seq(PartType) /\ Speaker(m) \in Actor
    BY <2>1, <2>2, SaidType, OnlyType, SpeakerType
  <2>4. b \in Seq(Entry) /\ Map(Bare, b) = Heard(Speaker(m), o)
    BY <2>1, <2>2, <2>3, BlockIs, BareBlock
  <2>5. FlattenSeq(Blocks(Append(u, m), kinds)) = a \o b
    BY <2>1, SaidAppend
  <2>6. Map(Bare, a \o b) = Map(Bare, a) \o Map(Bare, b)
    BY <2>3, <2>4, BareConcat
  <2>7. Flat(Told(kinds), Append(u, m)) = Flat(Told(kinds), u) \o Told(kinds)[m]
    BY ToldIs, FlatAppend
  <2>8. Told(kinds)[m] = Heard(Speaker(m), o)
    BY <2>1, ToldIs
  <2>9. Map(Bare, a) = Flat(Told(kinds), u) /\ Append(u, m) \in Seq(MessageType)
    BY <1>2, <2>1
  <2> QED BY <2>4, <2>5, <2>6, <2>7, <2>8, <2>9
<1> HIDE DEF Ok
<1>3. messages \in Ok
  BY <1>1, <1>2, SeqByStep
<1> QED BY <1>3 DEF Ok

LEMMA SpokenType ==
  ASSUME NEW instructions \in Seq(PartType), NEW messages \in Seq(MessageType), NEW kinds
  PROVE  /\ Spoken(instructions, messages, kinds) =
              Block(0, "system", Only(instructions, kinds)) \o FlattenSeq(Blocks(messages, kinds))
         /\ Block(0, "system", Only(instructions, kinds)) \in Seq(Entry)
         /\ FlattenSeq(Blocks(messages, kinds)) \in Seq(Entry)
         /\ Spoken(instructions, messages, kinds) \in Seq(Entry)
<1>1. PICK a, b : /\ a = Block(0, "system", Only(instructions, kinds))
                  /\ b = FlattenSeq(Blocks(messages, kinds))
  OBVIOUS
<1>2. a \in Seq(Entry) /\ b \in Seq(Entry)
  <2>1. Only(instructions, kinds) \in Seq(PartType) /\ 0 \in Nat /\ "system" \in Actor
    BY OnlyType DEF Actor
  <2> QED BY <1>1, <2>1, BlockIs, SaidType
<1>3. Spoken(instructions, messages, kinds) = a \o b
  BY <1>1 DEF Spoken, Blocks
<1>4. a \o b \in Seq(Entry)
  BY <1>2
<1> QED BY <1>1, <1>2, <1>3, <1>4

LEMMA BareSpoken ==
  ASSUME NEW instructions \in Seq(PartType), NEW messages \in Seq(MessageType), NEW kinds
  PROVE  Map(Bare, Spoken(instructions, messages, kinds)) =
           Heard("system", Only(instructions, kinds)) \o Flat(Told(kinds), messages)
<1>1. PICK o, a, b : /\ o = Only(instructions, kinds) /\ a = Block(0, "system", o)
                     /\ b = FlattenSeq(Blocks(messages, kinds))
  OBVIOUS
<1>2. a \in Seq(Entry) /\ b \in Seq(Entry) /\ o \in Seq(PartType)
      /\ Spoken(instructions, messages, kinds) = a \o b
  BY <1>1, SpokenType, OnlyType
<1>3. Map(Bare, a \o b) = Map(Bare, a) \o Map(Bare, b)
  BY <1>2, BareConcat
<1>4. Map(Bare, a) = Heard("system", o)
  <2>1. 0 \in Nat /\ "system" \in Actor
    BY DEF Actor
  <2> QED BY <1>1, <1>2, <2>1, BareBlock
<1>5. Map(Bare, b) = Flat(Told(kinds), messages)
  BY <1>1, BareBlocks
<1> QED BY <1>1, <1>2, <1>3, <1>4, <1>5

-----------------------------------------------------------------------------
(* What was said is heard *)

Carries(r, x, y) == y.part = r[x.part] /\ y.by = x.by

\* What HistoryReaches asks of all that was said, of some of it: r is what a part is
\* written as.
Reaches(r, a, b) ==
  /\ Len(b) = Len(a)
  /\ \A i \in 1..Len(a) : \E j \in 1..Len(b) :
       /\ Carries(r, a[i], b[j])
       /\ \A k \in 1..(i - 1) :
            a[k].at < a[i].at \/ a[k].part.kind = a[i].part.kind =>
              \E l \in 1..(j - 1) : Carries(r, a[k], b[l])

LEMMA ReachesNothing ==
  ASSUME NEW r
  PROVE  Reaches(r, <<>>, <<>>)
<1>1. Len(<<>>) = 0
  OBVIOUS
<1> QED BY <1>1 DEF Reaches

LEMMA ReachesConcat ==
  ASSUME NEW r, NEW a \in Seq(Entry), NEW b \in Seq(HeardType), Reaches(r, a, b),
         NEW c \in Seq(Entry), NEW d \in Seq(HeardType), Reaches(r, c, d)
  PROVE  Reaches(r, a \o c, b \o d)
<1>1. PICK x, y : x = a \o c /\ y = b \o d
  OBVIOUS
<1>2. /\ x \in Seq(Entry) /\ Len(x) = Len(a) + Len(c) /\ Len(a) \in Nat /\ Len(c) \in Nat
      /\ \A i \in 1..Len(a) + Len(c) : x[i] = IF i <= Len(a) THEN a[i] ELSE c[i - Len(a)]
  BY <1>1, ConcatProperties
<1>3. /\ y \in Seq(HeardType) /\ Len(y) = Len(b) + Len(d) /\ Len(b) \in Nat /\ Len(d) \in Nat
      /\ \A i \in 1..Len(b) + Len(d) : y[i] = IF i <= Len(b) THEN b[i] ELSE d[i - Len(b)]
  BY <1>1, ConcatProperties
<1>4. Len(b) = Len(a) /\ Len(d) = Len(c)
  BY DEF Reaches
<1> DEFINE Early(i, j) == \A k \in 1..(i - 1) :
                            x[k].at < x[i].at \/ x[k].part.kind = x[i].part.kind =>
                              \E l \in 1..(j - 1) : Carries(r, x[k], y[l])
<1>5. ASSUME NEW i \in 1..Len(x)
      PROVE  \E j \in 1..Len(y) : Carries(r, x[i], y[j]) /\ Early(i, j)
  <2>1. CASE i <= Len(a)
    <3>1. i \in 1..Len(a) /\ x[i] = a[i] /\ \A k \in 1..(i - 1) : x[k] = a[k]
      BY <1>2, <2>1
    <3>2. PICK j \in 1..Len(b) : /\ Carries(r, a[i], b[j])
                                 /\ \A k \in 1..(i - 1) :
                                      a[k].at < a[i].at \/ a[k].part.kind = a[i].part.kind =>
                                        \E l \in 1..(j - 1) : Carries(r, a[k], b[l])
      BY <3>1 DEF Reaches
    <3>3. j \in 1..Len(y) /\ y[j] = b[j] /\ \A l \in 1..(j - 1) : y[l] = b[l]
      BY <1>3
    <3>4. Early(i, j)
      BY <3>1, <3>2, <3>3
    <3> QED BY <3>1, <3>2, <3>3, <3>4
  <2>2. CASE ~(i <= Len(a))
    <3>1. PICK h : h = i - Len(a)
      OBVIOUS
    <3>2. h \in 1..Len(c) /\ x[i] = c[h] /\ i = Len(a) + h
      BY <1>2, <2>2, <3>1
    <3>3. PICK g \in 1..Len(d) : /\ Carries(r, c[h], d[g])
                                 /\ \A k \in 1..(h - 1) :
                                      c[k].at < c[h].at \/ c[k].part.kind = c[h].part.kind =>
                                        \E l \in 1..(g - 1) : Carries(r, c[k], d[l])
      BY <3>2 DEF Reaches
    <3>4. PICK j : j = Len(b) + g
      OBVIOUS
    <3>5. j \in 1..Len(y) /\ ~(j <= Len(b)) /\ j - Len(b) = g /\ j \in Nat
      BY <1>3, <3>4
    <3>6. y[j] = d[g]
      BY <1>3, <3>5
    <3>7. ASSUME NEW k \in 1..(i - 1), x[k].at < x[i].at \/ x[k].part.kind = x[i].part.kind
          PROVE  \E l \in 1..(j - 1) : Carries(r, x[k], y[l])
      <4>1. CASE k <= Len(a)
        <5>1. k \in 1..Len(a) /\ x[k] = a[k]
          BY <1>2, <4>1
        <5>2. PICK l \in 1..Len(b) : Carries(r, a[k], b[l])
          BY <5>1 DEF Reaches
        <5>3. l \in 1..(j - 1) /\ y[l] = b[l]
          BY <1>3, <3>4
        <5> QED BY <5>1, <5>2, <5>3
      <4>2. CASE ~(k <= Len(a))
        <5>1. PICK m : m = k - Len(a)
          OBVIOUS
        <5>2. m \in 1..(h - 1) /\ k \in 1..Len(x)
          BY <1>2, <3>2, <4>2, <5>1
        <5>3. x[k] = c[m]
          BY <1>2, <4>2, <5>1, <5>2
        <5>4. c[m].at < c[h].at \/ c[m].part.kind = c[h].part.kind
          BY <3>2, <3>7, <5>3
        <5>5. PICK l \in 1..(g - 1) : Carries(r, c[m], d[l])
          BY <3>3, <5>2, <5>4
        <5>6. PICK n : n = Len(b) + l
          OBVIOUS
        <5>7. n \in 1..(j - 1) /\ n \in 1..Len(b) + Len(d) /\ ~(n <= Len(b)) /\ n - Len(b) = l
          BY <1>3, <3>4, <5>6
        <5>8. y[n] = d[l]
          BY <1>3, <5>7
        <5> QED BY <5>3, <5>5, <5>7, <5>8
      <4> QED BY <4>1, <4>2
    <3>8. Early(i, j)
      BY <3>7
    <3> QED BY <3>2, <3>3, <3>5, <3>6, <3>8
  <2> QED BY <2>1, <2>2
<1>6. Len(y) = Len(x)
  BY <1>2, <1>3, <1>4
<1> QED BY <1>1, <1>5, <1>6 DEF Reaches

\* If each message is heard, all are.
LEMMA ReachesAll ==
  ASSUME NEW r, NEW kinds, NEW t, Makes(t, MessageType, Seq(HeardType)),
         NEW messages \in Seq(MessageType),
         \A i \in 1..Len(messages) :
           Reaches(r, Block(i, Speaker(messages[i]), Only(messages[i].parts, kinds)), t[messages[i]])
  PROVE  Reaches(r, FlattenSeq(Blocks(messages, kinds)), Flat(t, messages))
<1> DEFINE Each1(u) == \A i \in 1..Len(u) :
                         Reaches(r, Block(i, Speaker(u[i]), Only(u[i].parts, kinds)), t[u[i]])
           Ok == {u \in Seq(MessageType) :
                    Each1(u) => Reaches(r, FlattenSeq(Blocks(u, kinds)), Flat(t, u))}
<1>1. <<>> \in Ok
  <2>1. <<>> \in Seq(MessageType)
    OBVIOUS
  <2> QED BY <2>1, NoBlocks, FlatEmpty, ReachesNothing
<1>2. ASSUME NEW u \in Seq(MessageType), NEW m \in MessageType, u \in Ok
      PROVE  Append(u, m) \in Ok
  <2>1. PICK v : v = Append(u, m)
    OBVIOUS
  <2>2. /\ v \in Seq(MessageType) /\ Len(v) = Len(u) + 1 /\ Len(u) \in Nat
        /\ \A i \in 1..Len(u) : v[i] = u[i]
        /\ v[Len(u) + 1] = m
    BY <2>1, AppendIs
  <2>3. SUFFICES ASSUME Each1(v)
                 PROVE  Reaches(r, FlattenSeq(Blocks(v, kinds)), Flat(t, v))
    BY <2>1, <2>2
  <2>4. Each1(u)
    <3>1. ASSUME NEW i \in 1..Len(u)
          PROVE  Reaches(r, Block(i, Speaker(u[i]), Only(u[i].parts, kinds)), t[u[i]])
      <4>1. i \in 1..Len(v) /\ v[i] = u[i]
        BY <2>2
      <4> QED BY <2>3, <4>1
    <3> QED BY <3>1
  <2>5. PICK a, b, c, d : /\ a = FlattenSeq(Blocks(u, kinds)) /\ b = Flat(t, u)
                          /\ c = Block(Len(u) + 1, Speaker(m), Only(m.parts, kinds)) /\ d = t[m]
    OBVIOUS
  <2>6. Reaches(r, a, b)
    BY <1>2, <2>4, <2>5
  <2>7. Reaches(r, c, d)
    <3>1. Len(u) + 1 \in 1..Len(v)
      BY <2>2
    <3> QED BY <2>2, <2>3, <2>5, <3>1
  <2>8. c \in Seq(Entry)
    <3>1. m.parts \in Seq(PartType) /\ Len(u) + 1 \in Nat
      BY <2>2 DEF MessageType
    <3>2. Only(m.parts, kinds) \in Seq(PartType) /\ Speaker(m) \in Actor
      BY <3>1, OnlyType, SpeakerType
    <3> QED BY <2>5, <3>1, <3>2, BlockIs
  <2>9. a \in Seq(Entry) /\ b \in Seq(HeardType) /\ d \in Seq(HeardType)
    <3>1. d \in Seq(HeardType)
      BY <2>5 DEF Makes
    <3> QED BY <2>5, <3>1, SaidType, FlatType
  <2>10. FlattenSeq(Blocks(v, kinds)) = a \o c
    BY <2>1, <2>5, SaidAppend
  <2>11. Flat(t, v) = b \o d
    BY <2>1, <2>5, FlatAppend, ZenonT(30)
  <2>12. Reaches(r, a \o c, b \o d)
    BY <2>6, <2>7, <2>8, <2>9, ReachesConcat
  <2> QED BY <2>10, <2>11, <2>12
<1> HIDE DEF Ok
<1>3. messages \in Ok
  BY <1>1, <1>2, SeqByStep
<1> QED BY <1>3 DEF Ok

\* The parts of a message, of which those of B may come after those of A.
LEMMA ReachesShared ==
  ASSUME NEW r, Makes(r, PartType, PartType), NEW A, NEW B, A \intersect B = {},
         NEW parts \in Seq(PartType), \A i \in DOMAIN parts : parts[i].kind \in A \union B,
         NEW at \in Nat, NEW by \in Actor
  PROVE  Reaches(r, Block(at, by, parts), Heard(by, Map(r, Only(parts, A) \o Only(parts, B))))
<1>1. PICK a, p, q, o, m, b : /\ a = Block(at, by, parts) /\ p = Only(parts, A) /\ q = Only(parts, B)
                              /\ o = p \o q /\ m = Map(r, o) /\ b = Heard(by, m)
  OBVIOUS
<1>2. /\ a \in Seq(Entry) /\ Len(a) = Len(parts) /\ Len(parts) \in Nat /\ DOMAIN parts = 1..Len(parts)
      /\ \A i \in 1..Len(parts) : a[i] = [at |-> at, by |-> by, part |-> parts[i]]
  BY <1>1, BlockIs
<1>3. p \in Seq(PartType) /\ q \in Seq(PartType) /\ Len(p) + Len(q) = Len(parts)
  BY <1>1, OnlyType, OnlyShares
<1>4. /\ o \in Seq(PartType) /\ Len(o) = Len(p) + Len(q) /\ Len(p) \in Nat /\ Len(q) \in Nat
      /\ DOMAIN p = 1..Len(p) /\ DOMAIN q = 1..Len(q)
      /\ \A i \in 1..Len(p) + Len(q) : o[i] = IF i <= Len(p) THEN p[i] ELSE q[i - Len(p)]
  BY <1>1, <1>3, ConcatProperties
<1>5. m \in Seq(PartType) /\ Len(m) = Len(o) /\ \A i \in 1..Len(o) : m[i] = r[o[i]]
  <2>1. o \in Seq(PartType)
    BY <1>4
  <2>2. Map(r, o) \in Seq(PartType)
    BY <2>1, MapType
  <2>3. Len(Map(r, o)) = Len(o) /\ \A i \in 1..Len(o) : Map(r, o)[i] = r[o[i]]
    BY <2>1, MapElements
  <2> QED BY <1>1, <2>2, <2>3
<1>6. b \in Seq(HeardType) /\ Len(b) = Len(m) /\ \A i \in 1..Len(m) : b[i] = [by |-> by, part |-> m[i]]
  BY <1>1, <1>5, HeardIs
<1>7. ASSUME NEW i \in 1..Len(parts), NEW j \in 1..Len(o), o[j] = parts[i]
      PROVE  Carries(r, a[i], b[j])
  <2>1. a[i] = [at |-> at, by |-> by, part |-> parts[i]] /\ b[j] = [by |-> by, part |-> r[o[j]]]
    BY <1>2, <1>5, <1>6
  <2>2. a[i].part = parts[i] /\ a[i].by = by /\ b[j].part = r[o[j]] /\ b[j].by = by
    BY <2>1
  <2> QED BY <1>7, <2>2 DEF Carries
<1>8. ASSUME NEW i \in 1..Len(a)
      PROVE  \E j \in 1..Len(b) :
               /\ Carries(r, a[i], b[j])
               /\ \A k \in 1..(i - 1) :
                    a[k].at < a[i].at \/ a[k].part.kind = a[i].part.kind =>
                      \E l \in 1..(j - 1) : Carries(r, a[k], b[l])
  <2>1. i \in DOMAIN parts /\ parts[i].kind \in A \union B
    BY <1>2
  <2>2. ASSUME NEW k \in 1..(i - 1), a[k].at < a[i].at \/ a[k].part.kind = a[i].part.kind
        PROVE  k \in 1..Len(parts) /\ parts[k].kind = parts[i].kind
    <3>1. k \in 1..Len(parts) /\ i \in 1..Len(parts)
      BY <1>2
    <3>2. a[k] = [at |-> at, by |-> by, part |-> parts[k]] /\ a[i] = [at |-> at, by |-> by, part |-> parts[i]]
      BY <1>2, <3>1
    <3>3. a[k].at = at /\ a[i].at = at /\ a[k].part = parts[k] /\ a[i].part = parts[i]
      BY <3>2
    <3>4. ~(at < at)
      OBVIOUS
    <3> QED BY <2>2, <3>1, <3>3, <3>4
  <2>3. CASE parts[i].kind \in A
    <3>1. PICK j \in DOMAIN p : /\ p[j] = parts[i]
                                /\ \A k \in 1..(i - 1) : parts[k].kind \in A =>
                                     \E l \in 1..(j - 1) : p[l] = parts[k]
      <4>1. \A h \in DOMAIN parts : parts[h].kind \in A =>
              \E j \in DOMAIN Only(parts, A) :
                /\ Only(parts, A)[j] = parts[h]
                /\ \A k \in 1..(h - 1) : parts[k].kind \in A =>
                     \E l \in 1..(j - 1) : Only(parts, A)[l] = parts[k]
        BY OnlyOrder
      <4> QED BY <1>1, <2>1, <2>3, <4>1
    <3>2. j \in 1..Len(o) /\ j \in 1..Len(b) /\ o[j] = p[j] /\ \A l \in 1..(j - 1) : l \in 1..Len(o) /\ o[l] = p[l]
      BY <1>4, <1>5, <1>6
    <3>3. Carries(r, a[i], b[j])
      BY <1>2, <1>7, <2>1, <3>1, <3>2
    <3>4. ASSUME NEW k \in 1..(i - 1), a[k].at < a[i].at \/ a[k].part.kind = a[i].part.kind
          PROVE  \E l \in 1..(j - 1) : Carries(r, a[k], b[l])
      <4>1. k \in 1..Len(parts) /\ parts[k].kind \in A
        BY <2>2, <2>3, <3>4
      <4>2. PICK l \in 1..(j - 1) : p[l] = parts[k]
        BY <3>1, <4>1
      <4>3. l \in 1..Len(o) /\ o[l] = parts[k]
        BY <3>2, <4>2
      <4> QED BY <1>7, <4>1, <4>3
    <3> QED BY <3>2, <3>3, <3>4
  <2>4. CASE parts[i].kind \in B
    <3>1. PICK g \in DOMAIN q : /\ q[g] = parts[i]
                                /\ \A k \in 1..(i - 1) : parts[k].kind \in B =>
                                     \E l \in 1..(g - 1) : q[l] = parts[k]
      <4>1. \A h \in DOMAIN parts : parts[h].kind \in B =>
              \E j \in DOMAIN Only(parts, B) :
                /\ Only(parts, B)[j] = parts[h]
                /\ \A k \in 1..(h - 1) : parts[k].kind \in B =>
                     \E l \in 1..(j - 1) : Only(parts, B)[l] = parts[k]
        BY OnlyOrder
      <4> QED BY <1>1, <2>1, <2>4, <4>1
    <3>2. PICK j : j = Len(p) + g
      OBVIOUS
    <3>3. j \in 1..Len(o) /\ j \in 1..Len(b) /\ ~(j <= Len(p)) /\ j - Len(p) = g
      BY <1>4, <1>5, <1>6, <3>2
    <3>4. o[j] = q[g]
      BY <1>4, <3>3
    <3>5. Carries(r, a[i], b[j])
      BY <1>2, <1>7, <2>1, <3>1, <3>3, <3>4
    <3>6. ASSUME NEW k \in 1..(i - 1), a[k].at < a[i].at \/ a[k].part.kind = a[i].part.kind
          PROVE  \E l \in 1..(j - 1) : Carries(r, a[k], b[l])
      <4>1. k \in 1..Len(parts) /\ parts[k].kind \in B
        BY <2>2, <2>4, <3>6
      <4>2. PICK l \in 1..(g - 1) : q[l] = parts[k]
        BY <3>1, <4>1
      <4>3. PICK n : n = Len(p) + l
        OBVIOUS
      <4>4. n \in 1..(j - 1) /\ n \in 1..Len(o) /\ ~(n <= Len(p)) /\ n - Len(p) = l
        BY <1>4, <3>2, <4>3
      <4>5. o[n] = q[l]
        BY <1>4, <4>4
      <4> QED BY <1>7, <4>1, <4>2, <4>4, <4>5
    <3> QED BY <3>3, <3>5, <3>6
  <2> QED BY <2>1, <2>3, <2>4
<1>9. Len(b) = Len(a)
  BY <1>2, <1>3, <1>4, <1>5, <1>6
<1> QED BY <1>1, <1>8, <1>9 DEF Reaches

-----------------------------------------------------------------------------
(* What becomes of a message *)

SaidPart == [kind : Said, n : Nat]
Of(m, kinds) == \A i \in DOMAIN m.parts : m.parts[i].kind \in kinds

\* Messages in the form of each protocol.
ChatForm(m) ==
  /\ m.type = "message"
  /\ \/ m.role = "tool" /\ Len(m.parts) = 1 /\ Of(m, Results)
     \/ m.role = "assistant" /\ Of(m, {"text", "call"})
     \/ m.role \in {"user", "system", "developer"} /\ Of(m, {"text"})

ResponsesForm(m) ==
  /\ Len(m.parts) = 1
  /\ \/ m.type = "function_call_output" /\ m.role = "" /\ Of(m, Results)
     \/ m.type = "function_call" /\ m.role = "" /\ Of(m, {"call"})
     \/ /\ m.type \in {"message", "untyped"} /\ m.role \in {"user", "assistant", "developer"}
        /\ Of(m, {"text"})

AnthropicForm(m) ==
  /\ m.type = "message"
  /\ \/ m.role = "user" /\ Of(m, {"text"} \union Results)
     \/ m.role = "assistant" /\ Of(m, {"text", "call"})

WellFormed(m) ==
  /\ m \in MessageType /\ m.parts \in Seq(SaidPart) /\ m.parts # <<>>
  /\ path = "chat" => ChatForm(m)
  /\ ViaResponses  => ResponsesForm(m)
  /\ ViaAnthropic  => AnthropicForm(m)

\* The kinds that are to be heard, and those that are looked for.
Heeded == IF ToChat THEN Said \ {"empty"} ELSE Said
Read   == Said \union Written

\* What a part is written as with the settings s.
Rendered(s) ==
  [x \in PartType |-> IF \/ x.kind \notin Said
                         \/ ~s.functionCalling /\ ~ToChat
                         \/ x.kind = "call" /\ path = "responses"
                      THEN x ELSE Formatted(x)]

\* The kinds of a message that come after the others.
Later(m, s) ==
  IF path = "anthropic" /\ s.functionCalling THEN {"call"}
  ELSE IF path = "anthropic_chat" THEN (IF m.role = "user" THEN {"text"} ELSE {"call"})
  ELSE {}

\* What is heard of a message.
HeardOf(s) ==
  [m \in MessageType |->
     Heard(Speaker(m), Map(Rendered(s), Only(Only(m.parts, Heeded), Said \ Later(m, s))
                                          \o Only(Only(m.parts, Heeded), Later(m, s))))]

LEMMA SaidPartType ==
  /\ SaidPart \subseteq PartType
  /\ \A parts \in Seq(SaidPart) : /\ parts \in Seq(PartType)
                                  /\ \A i \in DOMAIN parts : parts[i].kind \in Said
<1>1. SaidPart \subseteq PartType /\ \A x \in SaidPart : x.kind \in Said
  BY DEF SaidPart, PartType, AnyKind
<1>2. ASSUME NEW parts \in Seq(SaidPart)
      PROVE  parts \in Seq(PartType) /\ \A i \in DOMAIN parts : parts[i].kind \in Said
  <2>1. parts \in Seq(PartType)
    BY <1>1, SeqMonotonic
  <2>2. \A i \in DOMAIN parts : parts[i] \in SaidPart
    OBVIOUS
  <2> QED BY <1>1, <2>1, <2>2
<1> QED BY <1>1, <1>2

LEMMA FormattedType ==
  ASSUME NEW x \in PartType
  PROVE  /\ Formatted(x) \in PartType /\ ResultText(x) \in PartType
         /\ ResultText(x).kind = "result_text"
         /\ x.kind # "prompt" => Formatted(x).kind # "prompt"
         /\ x.kind \in Said => Formatted(x).kind \in Read
<1>1. x.n \in Nat
  BY DEF PartType
<1>2. x.kind \in AnyKind
  BY PartKind
<1>3. ResultText(x) = [kind |-> "result_text", n |-> x.n, named |-> x.n \in known]
  BY DEF ResultText
<1>4. ResultText(x) \in PartType /\ ResultText(x).kind = "result_text"
  BY <1>1, <1>3 DEF PartType
<1>5. CallText(x) = [kind |-> "call_text", n |-> x.n]
  BY DEF CallText, Part
<1>6. CallText(x) \in PartType /\ CallText(x).kind = "call_text"
  BY <1>1, <1>5 DEF PartType, AnyKind, Written
<1>7. CASE IsResult(x)
  <2>1. Formatted(x) = ResultText(x)
    <3>1. ~IsCall(x)
      BY <1>7 DEF IsResult, IsCall, Results
    <3> QED BY <1>7, <3>1 DEF Formatted
  <2> QED BY <1>4, <2>1 DEF Read, Written
<1>8. CASE ~IsResult(x) /\ IsCall(x)
  <2>1. Formatted(x) = CallText(x)
    BY <1>8 DEF Formatted
  <2> QED BY <1>4, <1>6, <2>1 DEF Read, Written
<1>9. CASE ~IsResult(x) /\ ~IsCall(x)
  <2>1. Formatted(x) = x
    BY <1>9 DEF Formatted
  <2> QED BY <1>4, <2>1 DEF Read
<1> QED BY <1>7, <1>8, <1>9

LEMMA RenderedType ==
  ASSUME NEW s
  PROVE  /\ Makes(Rendered(s), PartType, PartType)
         /\ \A x \in PartType : x.kind \in Said => Rendered(s)[x].kind \in Read
         /\ \A x \in PartType : x.kind = "text" => Rendered(s)[x] = x
<1>1. ASSUME NEW x \in PartType
      PROVE  /\ Rendered(s)[x] \in PartType
             /\ x.kind \in Said => Rendered(s)[x].kind \in Read
             /\ x.kind = "text" => Rendered(s)[x] = x
  <2>1. Rendered(s)[x] = x \/ Rendered(s)[x] = Formatted(x)
    BY DEF Rendered
  <2>2. x.kind = "text" => Formatted(x) = x
    BY DEF Formatted, IsResult, IsCall, Results
  <2>3. x.kind \in Said => x.kind \in Read
    BY DEF Read
  <2> QED BY <2>1, <2>2, <2>3, FormattedType
<1> QED BY <1>1 DEF Makes

\* What is heard of a message is what is to be heard.
LEMMA HeardOfIs ==
  ASSUME NEW s
  PROVE  /\ Makes(HeardOf(s), MessageType, Seq(HeardType))
         /\ \A m \in MessageType : \A at \in Nat :
              Reaches(Rendered(s), Block(at, Speaker(m), Only(m.parts, Heeded)), HeardOf(s)[m])
<1>1. ASSUME NEW m \in MessageType, NEW at \in Nat
      PROVE  /\ HeardOf(s)[m] \in Seq(HeardType)
             /\ Reaches(Rendered(s), Block(at, Speaker(m), Only(m.parts, Heeded)), HeardOf(s)[m])
  <2>1. PICK q, a, b, r, by : /\ q = Only(m.parts, Heeded) /\ a = Said \ Later(m, s) /\ b = Later(m, s)
                              /\ r = Rendered(s) /\ by = Speaker(m)
    OBVIOUS
  <2>2. m.parts \in Seq(PartType)
    BY DEF MessageType
  <2>3. q \in Seq(PartType) /\ \A i \in DOMAIN q : q[i].kind \in Heeded
    BY <2>1, <2>2, OnlyType, OnlyFrom
  <2>4. Heeded \subseteq a \union b /\ a \intersect b = {}
    BY <2>1 DEF Heeded
  <2>5. Makes(r, PartType, PartType) /\ by \in Actor
    BY <2>1, RenderedType, SpeakerType
  <2>6. HeardOf(s)[m] = Heard(by, Map(r, Only(q, a) \o Only(q, b)))
    BY <2>1 DEF HeardOf
  <2>7. Reaches(r, Block(at, by, q), Heard(by, Map(r, Only(q, a) \o Only(q, b))))
    <3>1. \A i \in DOMAIN q : q[i].kind \in a \union b
      BY <2>3, <2>4
    <3> QED BY <2>3, <2>4, <2>5, <3>1, ReachesShared
  <2>8. Heard(by, Map(r, Only(q, a) \o Only(q, b))) \in Seq(HeardType)
    <3>1. PICK o : o = Only(q, a) \o Only(q, b)
      OBVIOUS
    <3>2. o \in Seq(PartType)
      <4>1. Only(q, a) \in Seq(PartType) /\ Only(q, b) \in Seq(PartType)
        BY <2>3, OnlyType
      <4> QED BY <3>1, <4>1
    <3>3. Map(r, o) \in Seq(PartType)
      BY <2>5, <3>2, MapType
    <3> QED BY <2>5, <3>1, <3>3, HeardIs
  <2> QED BY <2>1, <2>6, <2>7, <2>8
<1>2. ASSUME NEW m \in MessageType
      PROVE  HeardOf(s)[m] \in Seq(HeardType)
  <2>1. 0 \in Nat
    OBVIOUS
  <2> QED BY <1>1, <2>1
<1> QED BY <1>1, <1>2 DEF Makes

\* What was said before the messages.
LEMMA SystemReaches ==
  ASSUME NEW s, NEW parts \in Seq(SaidPart), \A i \in DOMAIN parts : parts[i].kind = "text"
  PROVE  /\ Reaches(Rendered(s), Block(0, "system", Only(parts, Heeded)), Heard("system", parts))
         /\ Block(0, "system", Only(parts, Heeded)) \in Seq(Entry)
         /\ Heard("system", parts) \in Seq(HeardType)
<1>1. parts \in Seq(PartType) /\ \A i \in DOMAIN parts : parts[i].kind \in {"text"}
  BY SaidPartType
<1>2. PICK k, n, r : k = {"text"} /\ n = {} /\ r = Rendered(s)
  OBVIOUS
<1>3. Only(parts, Heeded) = parts /\ Only(parts, k) = parts /\ Only(parts, n) = <<>>
  <2>1. \A i \in DOMAIN parts : parts[i].kind \in Heeded
    BY <1>1 DEF Heeded, Said
  <2>2. \A i \in DOMAIN parts : parts[i].kind \in k /\ parts[i].kind \notin n
    BY <1>1, <1>2
  <2> QED BY <1>1, <2>1, <2>2, OnlyAll, OnlyNone
<1>4. 0 \in Nat /\ "system" \in Actor
  BY DEF Actor
<1>5. Makes(r, PartType, PartType)
  BY <1>2, RenderedType
<1>6. Reaches(r, Block(0, "system", parts),
                  Heard("system", Map(r, Only(parts, k) \o Only(parts, n))))
  <2>1. k \intersect n = {} /\ \A i \in DOMAIN parts : parts[i].kind \in k \union n
    BY <1>1, <1>2
  <2> QED BY <1>1, <1>4, <1>5, <2>1, ReachesShared
<1>7. Only(parts, k) \o Only(parts, n) = parts
  BY <1>1, <1>3, ConcatEmptySeq
<1>8. Map(r, parts) = parts
  <2>1. Map(r, parts) \in Seq(PartType)
    BY <1>1, <1>5, MapType
  <2>2. Len(Map(r, parts)) = Len(parts) /\ \A i \in 1..Len(parts) : Map(r, parts)[i] = r[parts[i]]
    BY <1>1, MapElements
  <2>3. \A i \in 1..Len(parts) : r[parts[i]] = parts[i]
    <3>1. ASSUME NEW i \in 1..Len(parts)
          PROVE  r[parts[i]] = parts[i]
      <4>1. parts[i] \in PartType /\ parts[i].kind = "text"
        BY <1>1
      <4> QED BY <1>2, <4>1, RenderedType
    <3> QED BY <3>1
  <2>4. \A i \in 1..Len(parts) : Map(r, parts)[i] = parts[i]
    BY <2>2, <2>3
  <2> QED BY <1>1, <2>1, <2>2, <2>4, SeqEqual
<1>9. Block(0, "system", parts) \in Seq(Entry) /\ Heard("system", parts) \in Seq(HeardType)
  BY <1>1, <1>4, BlockIs, HeardIs
<1> QED BY <1>2, <1>3, <1>6, <1>7, <1>8, <1>9

-----------------------------------------------------------------------------
(* Messages on their way to chat completions *)

Prep(s) == [m \in MessageType |-> Preprocess(m, s)]

\* What is heard of a message that goes through PreprocessMessages.
ChatHeard(s) == Then(Prep(s), Told(Read), MessageType)

LEMMA EachFormatted ==
  ASSUME NEW parts \in Seq(PartType)
  PROVE  /\ Each(parts, Formatted) \in Seq(PartType) /\ Each(parts, ResultText) \in Seq(PartType)
         /\ Len(Each(parts, Formatted)) = Len(parts) /\ Len(Each(parts, ResultText)) = Len(parts)
         /\ \A i \in 1..Len(parts) : Each(parts, Formatted)[i] = Formatted(parts[i])
         /\ \A i \in 1..Len(parts) : Each(parts, ResultText)[i] = ResultText(parts[i])
<1>1. Len(parts) \in Nat /\ DOMAIN parts = 1..Len(parts) /\ \A i \in 1..Len(parts) : parts[i] \in PartType
  OBVIOUS
<1>2. \A i \in 1..Len(parts) : Formatted(parts[i]) \in PartType /\ ResultText(parts[i]) \in PartType
  BY <1>1, FormattedType
<1>3. /\ Each(parts, Formatted) = [i \in 1..Len(parts) |-> Formatted(parts[i])]
      /\ Each(parts, ResultText) = [i \in 1..Len(parts) |-> ResultText(parts[i])]
  BY <1>1 DEF Each
<1> QED BY <1>1, <1>2, <1>3

LEMMA MessageIs ==
  ASSUME NEW type \in Type, NEW role \in Role, NEW parts \in Seq(PartType)
  PROVE  /\ Message(type, role, parts) \in MessageType
         /\ Message(type, role, parts).type = type /\ Message(type, role, parts).role = role
         /\ Message(type, role, parts).parts = parts
BY DEF Message, MessageType

LEMMA RoleIs ==
  /\ "user" \in Role /\ "assistant" \in Role /\ "tool" \in Role
  /\ "system" \in Role /\ "developer" \in Role /\ "" \in Role
  /\ "message" \in Type /\ "untyped" \in Type
  /\ "function_call" \in Type /\ "function_call_output" \in Type
BY DEF Role, Type

\* What Preprocess makes of a message.
LEMMA PreprocessIs ==
  ASSUME NEW m \in MessageType, NEW s
  PROVE  /\ m.role = "tool" =>
              Preprocess(m, s) = IF m.parts[1].kind = "empty" THEN <<>>
                                 ELSE <<Message("message", "user", Each(m.parts, Formatted))>>
         /\ m.role = "assistant" =>
              Preprocess(m, s) = <<Message(m.type, "assistant", Each(m.parts, Formatted))>>
         /\ m.role \notin {"tool", "assistant"} =>
              Preprocess(m, s) = <<Message(m.type, IF m.role = "developer" /\ s.convertDeveloper
                                                   THEN "system" ELSE m.role, m.parts)>>
<1>1. m = [type |-> m.type, role |-> m.role, parts |-> m.parts]
  BY DEF MessageType
<1>2. [m EXCEPT !.parts = Each(m.parts, Formatted)] = Message(m.type, m.role, Each(m.parts, Formatted))
  BY <1>1 DEF Message
<1>3. [m EXCEPT !.role = "system"] = Message(m.type, "system", m.parts)
  BY <1>1 DEF Message
<1>4. m = Message(m.type, m.role, m.parts)
  BY <1>1 DEF Message
<1>5. CASE m.role = "tool"
  BY <1>5 DEF Preprocess
<1>6. CASE m.role = "assistant"
  <2>1. Preprocess(m, s) = <<[m EXCEPT !.parts = Each(m.parts, Formatted)]>>
    BY <1>6 DEF Preprocess
  <2> QED BY <1>2, <1>6, <2>1
<1>7. CASE m.role \notin {"tool", "assistant"} /\ m.role = "developer" /\ s.convertDeveloper
  <2>1. Preprocess(m, s) = <<[m EXCEPT !.role = "system"]>>
    BY <1>7 DEF Preprocess
  <2> QED BY <1>3, <1>7, <2>1
<1>8. CASE m.role \notin {"tool", "assistant"} /\ ~(m.role = "developer" /\ s.convertDeveloper)
  <2>1. Preprocess(m, s) = <<m>>
    BY <1>8 DEF Preprocess
  <2> QED BY <1>4, <1>8, <2>1
<1> QED BY <1>5, <1>6, <1>7, <1>8

LEMMA PrepIs ==
  ASSUME NEW s
  PROVE  /\ Makes(Prep(s), MessageType, Seq(MessageType))
         /\ Makes(ChatHeard(s), MessageType, Seq(HeardType))
         /\ \A m \in MessageType : ChatHeard(s)[m] = Flat(Told(Read), Preprocess(m, s))
<1>1. ASSUME NEW m \in MessageType
      PROVE  Preprocess(m, s) \in Seq(MessageType)
  <2>1. m.parts \in Seq(PartType) /\ m.type \in Type /\ m.role \in Role
    BY DEF MessageType
  <2>2. Each(m.parts, Formatted) \in Seq(PartType)
    BY <2>1, EachFormatted
  <2>3. CASE m.role = "tool"
    <3>1. PICK n : n = Message("message", "user", Each(m.parts, Formatted))
      OBVIOUS
    <3>2. "message" \in Type /\ "user" \in Role
      BY RoleIs
    <3>3. n \in MessageType
      BY <2>2, <3>1, <3>2, MessageIs
    <3>4. <<>> \in Seq(MessageType) /\ <<n>> \in Seq(MessageType)
      BY <3>3
    <3>5. Preprocess(m, s) = IF m.parts[1].kind = "empty" THEN <<>> ELSE <<n>>
      BY <2>3, <3>1, PreprocessIs
    <3> QED BY <3>4, <3>5
  <2>4. CASE m.role = "assistant"
    <3>1. PICK n : n = Message(m.type, "assistant", Each(m.parts, Formatted))
      OBVIOUS
    <3>2. "assistant" \in Role
      BY RoleIs
    <3>3. n \in MessageType
      BY <2>1, <2>2, <3>1, <3>2, MessageIs
    <3>4. <<n>> \in Seq(MessageType)
      BY <3>3
    <3>5. Preprocess(m, s) = <<n>>
      BY <2>4, <3>1, PreprocessIs
    <3> QED BY <3>4, <3>5
  <2>5. CASE m.role \notin {"tool", "assistant"}
    <3>1. PICK role : role = IF m.role = "developer" /\ s.convertDeveloper THEN "system" ELSE m.role
      OBVIOUS
    <3>2. role \in Role
      BY <2>1, <3>1, RoleIs
    <3>3. PICK n : n = Message(m.type, role, m.parts)
      OBVIOUS
    <3>4. n \in MessageType
      BY <2>1, <3>2, <3>3, MessageIs
    <3>5. <<n>> \in Seq(MessageType)
      BY <3>4
    <3>6. Preprocess(m, s) = <<n>>
      BY <2>5, <3>1, <3>3, PreprocessIs
    <3> QED BY <3>5, <3>6
  <2> QED BY <2>3, <2>4, <2>5
<1>2. Makes(Prep(s), MessageType, Seq(MessageType))
  BY <1>1 DEF Makes, Prep
<1>3. ASSUME NEW m \in MessageType
      PROVE  ChatHeard(s)[m] = Flat(Told(Read), Preprocess(m, s))
  BY DEF ChatHeard, Then, Prep
<1>4. ASSUME NEW m \in MessageType
      PROVE  Flat(Told(Read), Preprocess(m, s)) \in Seq(HeardType)
  <2>1. Makes(Told(Read), MessageType, Seq(HeardType))
    BY ToldIs
  <2> QED BY <1>1, <2>1, FlatType
<1>5. Makes(ChatHeard(s), MessageType, Seq(HeardType))
  BY <1>3, <1>4 DEF Makes
<1> QED BY <1>2, <1>3, <1>5

LEMMA PreprocessMessagesIs ==
  ASSUME NEW s, NEW messages \in Seq(MessageType)
  PROVE  /\ PreprocessMessages(messages, s) = Flat(Prep(s), messages)
         /\ PreprocessMessages(messages, s) \in Seq(MessageType)
         /\ Flat(Told(Read), PreprocessMessages(messages, s)) = Flat(ChatHeard(s), messages)
<1>1. \A i \in DOMAIN messages : messages[i] \in MessageType
  OBVIOUS
<1>2. Map(Prep(s), messages) = Each(messages, LAMBDA m : Preprocess(m, s))
  BY <1>1 DEF Map, Prep, Each
<1>3. PreprocessMessages(messages, s) = Flat(Prep(s), messages)
  BY <1>2 DEF PreprocessMessages, Flat
<1>4. Makes(Prep(s), MessageType, Seq(MessageType)) /\ Makes(Told(Read), MessageType, Seq(HeardType))
  BY PrepIs, ToldIs
<1>5. Flat(Prep(s), messages) \in Seq(MessageType)
  BY <1>4, FlatType
<1>6. Flat(Told(Read), Flat(Prep(s), messages)) = Flat(ChatHeard(s), messages)
  BY <1>4, FlatFlat DEF ChatHeard
<1> QED BY <1>3, <1>5, <1>6

\* What is heard of a message alone.
LEMMA OneHeard ==
  ASSUME NEW m \in MessageType, NEW kinds
  PROVE  Flat(Told(kinds), <<m>>) = Heard(Speaker(m), Only(m.parts, kinds))
<1>1. Makes(Told(kinds), MessageType, Seq(HeardType)) /\ Told(kinds)[m] = Heard(Speaker(m), Only(m.parts, kinds))
  BY ToldIs
<1>2. Flat(Told(kinds), <<m>>) = Told(kinds)[m]
  BY <1>1, FlatOne
<1> QED BY <1>1, <1>2

LEMMA RenderedParts ==
  ASSUME NEW s, NEW parts \in Seq(SaidPart)
  PROVE  /\ Map(Rendered(s), parts) \in Seq(PartType)
         /\ Only(Map(Rendered(s), parts), Read) = Map(Rendered(s), parts)
         /\ (\A i \in DOMAIN parts : parts[i].kind = "text") => Map(Rendered(s), parts) = parts
         /\ ToChat => Map(Rendered(s), parts) = Each(parts, Formatted)
<1>1. PICK r, m : r = Rendered(s) /\ m = Map(r, parts)
  OBVIOUS
<1>2. parts \in Seq(PartType) /\ \A i \in DOMAIN parts : parts[i].kind \in Said
  BY SaidPartType
<1>3. Makes(r, PartType, PartType)
  BY <1>1, RenderedType
<1>4. m \in Seq(PartType)
  BY <1>1, <1>2, <1>3, MapType
<1>5. Len(m) = Len(parts) /\ DOMAIN m = 1..Len(parts) /\ \A i \in 1..Len(parts) : m[i] = r[parts[i]]
  BY <1>1, <1>2, MapElements
<1>6. DOMAIN parts = 1..Len(parts)
  BY <1>2
<1>7. Only(m, Read) = m
  <2>1. ASSUME NEW i \in DOMAIN m
        PROVE  m[i].kind \in Read
    <3>1. parts[i] \in PartType /\ parts[i].kind \in Said /\ m[i] = r[parts[i]]
      BY <1>2, <1>5, <1>6
    <3> QED BY <1>1, <3>1, RenderedType
  <2> QED BY <1>4, <2>1, OnlyAll
<1>8. ASSUME \A i \in DOMAIN parts : parts[i].kind = "text"
      PROVE  m = parts
  <2>1. ASSUME NEW i \in 1..Len(parts)
        PROVE  m[i] = parts[i]
    <3>1. parts[i] \in PartType /\ parts[i].kind = "text" /\ m[i] = r[parts[i]]
      BY <1>2, <1>5, <1>6, <1>8
    <3> QED BY <1>1, <3>1, RenderedType
  <2> QED BY <1>2, <1>4, <1>5, <2>1, SeqEqual
<1>9. ASSUME ToChat
      PROVE  m = Each(parts, Formatted)
  <2>1. PICK e : e = Each(parts, Formatted)
    OBVIOUS
  <2>2. e \in Seq(PartType) /\ Len(e) = Len(parts) /\ \A i \in 1..Len(parts) : e[i] = Formatted(parts[i])
    BY <1>2, <2>1, EachFormatted
  <2>3. ASSUME NEW i \in 1..Len(parts)
        PROVE  m[i] = e[i]
    <3>1. PICK x : x = parts[i]
      OBVIOUS
    <3>2. x \in PartType /\ x.kind \in Said /\ m[i] = r[x] /\ e[i] = Formatted(x)
      BY <1>2, <1>5, <1>6, <2>2, <3>1
    <3>3. r[x] = Formatted(x)
      BY <1>1, <1>9, <3>2 DEF Rendered, ToChat
    <3> QED BY <3>2, <3>3
  <2> QED BY <1>4, <1>5, <2>1, <2>2, <2>3, SeqEqual
<1> QED BY <1>1, <1>4, <1>7, <1>8, <1>9

\* A message in the form of chat completions is heard as a whole, but for an empty result.
LEMMA ChatMessageHeard ==
  ASSUME ToChat, NEW s, NEW m \in MessageType, m.parts \in Seq(SaidPart), ChatForm(m)
  PROVE  ChatHeard(s)[m] = Heard(Speaker(m), Map(Rendered(s), Only(m.parts, Heeded)))
<1>1. ChatHeard(s)[m] = Flat(Told(Read), Preprocess(m, s))
  BY PrepIs
<1>2. PICK p, e, r : p = m.parts /\ e = Each(p, Formatted) /\ r = Rendered(s)
  OBVIOUS
<1>3. p \in Seq(PartType) /\ e \in Seq(PartType) /\ p \in Seq(SaidPart)
      /\ \A i \in DOMAIN p : p[i].kind \in Said
  BY <1>2, SaidPartType, EachFormatted
<1>4. Map(r, p) = e /\ Only(e, Read) = e
  BY <1>2, <1>3, RenderedParts
<1>5. Heeded = Said \ {"empty"} /\ m.type = "message" /\ m.type \in Type
  BY RoleIs DEF Heeded, ChatForm
<1>6. CASE m.role = "tool"
  <2>1. Len(p) = 1 /\ DOMAIN p = {1} /\ p[1].kind \in Results
    <3>1. Len(p) = 1 /\ Of(m, Results)
      BY <1>2, <1>6 DEF ChatForm
    <3> QED BY <1>2, <1>3, <3>1 DEF Of
  <2>2. Speaker(m) = "user"
    BY <1>5, <1>6 DEF Speaker
  <2>3. CASE p[1].kind = "empty"
    <3>1. Only(p, Heeded) = <<>>
      BY <1>3, <1>5, <2>1, <2>3, OnlyNone
    <3>2. Preprocess(m, s) = <<>>
      BY <1>2, <1>6, <2>3, PreprocessIs
    <3> QED BY <1>1, <1>2, <3>1, <3>2, FlatEmpty, HeardEmpty
  <2>4. CASE p[1].kind # "empty"
    <3>1. Only(p, Heeded) = p
      BY <1>3, <1>5, <2>1, <2>4, OnlyAll DEF Said
    <3>2. PICK n : n = Message("message", "user", e)
      OBVIOUS
    <3>3. n \in MessageType /\ n.type = "message" /\ n.role = "user" /\ n.parts = e
      <4>1. "message" \in Type /\ "user" \in Role
        BY RoleIs
      <4> QED BY <1>3, <3>2, <4>1, MessageIs
    <3>4. Preprocess(m, s) = <<n>>
      BY <1>2, <1>6, <2>4, <3>2, PreprocessIs
    <3>5. Speaker(n) = "user"
      BY <3>3 DEF Speaker
    <3>6. Flat(Told(Read), <<n>>) = Heard("user", e)
      BY <1>4, <3>3, <3>5, OneHeard
    <3> QED BY <1>1, <1>2, <1>4, <2>2, <3>1, <3>4, <3>6
  <2> QED BY <2>3, <2>4
<1>7. CASE m.role = "assistant"
  <2>1. Only(p, Heeded) = p
    <3>1. Of(m, {"text", "call"})
      BY <1>7 DEF ChatForm
    <3>2. \A i \in DOMAIN p : p[i].kind \in Heeded
      BY <1>2, <1>5, <3>1 DEF Of, Said
    <3> QED BY <1>3, <3>2, OnlyAll
  <2>2. PICK n : n = Message(m.type, "assistant", e)
    OBVIOUS
  <2>3. n \in MessageType /\ n.type = "message" /\ n.role = "assistant" /\ n.parts = e
    <3>1. "assistant" \in Role
      BY RoleIs
    <3> QED BY <1>3, <1>5, <2>2, <3>1, MessageIs
  <2>4. Preprocess(m, s) = <<n>>
    BY <1>2, <1>7, <2>2, PreprocessIs
  <2>5. Speaker(n) = "assistant" /\ Speaker(m) = "assistant"
    BY <1>7, <2>3 DEF Speaker
  <2>6. Flat(Told(Read), <<n>>) = Heard("assistant", e)
    BY <1>4, <2>3, <2>5, OneHeard
  <2> QED BY <1>1, <1>2, <1>4, <2>1, <2>4, <2>5, <2>6
<1>8. CASE m.role \in {"user", "system", "developer"}
  <2>1. \A i \in DOMAIN p : p[i].kind = "text"
    <3>1. Of(m, {"text"})
      BY <1>8 DEF ChatForm
    <3> QED BY <1>2, <3>1 DEF Of
  <2>2. Only(p, Heeded) = p /\ Map(r, p) = p /\ Only(p, Read) = p
    <3>1. \A i \in DOMAIN p : p[i].kind \in Heeded
      BY <1>5, <2>1 DEF Said
    <3>2. \A i \in DOMAIN p : p[i].kind \in Read
      BY <2>1 DEF Said, Read
    <3> QED BY <1>2, <1>3, <2>1, <3>1, <3>2, OnlyAll, RenderedParts
  <2>3. PICK role, n : /\ role = IF m.role = "developer" /\ s.convertDeveloper THEN "system" ELSE m.role
                       /\ n = Message(m.type, role, p)
    OBVIOUS
  <2>4. role \in Role /\ (role = m.role \/ (role = "system" /\ m.role = "developer"))
    BY <1>8, <2>3, RoleIs
  <2>5. n \in MessageType /\ n.type = "message" /\ n.role = role /\ n.parts = p
    BY <1>3, <1>5, <2>3, <2>4, MessageIs
  <2>6. Preprocess(m, s) = <<n>>
    BY <1>2, <1>8, <2>3, PreprocessIs
  <2>7. Speaker(n) = Speaker(m)
    BY <1>5, <1>8, <2>4, <2>5 DEF Speaker
  <2>8. Flat(Told(Read), <<n>>) = Heard(Speaker(m), p)
    BY <2>2, <2>5, <2>7, OneHeard
  <2> QED BY <1>1, <1>2, <2>2, <2>6, <2>8
<1> QED BY <1>6, <1>7, <1>8 DEF ChatForm

-----------------------------------------------------------------------------
(* Messages of other protocols on their way to chat completions *)

LEMMA FlatMap ==
  ASSUME NEW f, NEW g, NEW h, NEW list, \A i \in DOMAIN list : h[list[i]] = f[g[list[i]]]
  PROVE  Flat(f, Map(g, list)) = Flat(h, list)
<1>1. DOMAIN Map(g, list) = DOMAIN list /\ \A i \in DOMAIN list : Map(g, list)[i] = g[list[i]]
  BY DEF Map
<1>2. Map(f, Map(g, list)) = [i \in DOMAIN list |-> f[g[list[i]]]]
  BY <1>1 DEF Map
<1>3. Map(h, list) = [i \in DOMAIN list |-> f[g[list[i]]]]
  BY DEF Map
<1> QED BY <1>2, <1>3 DEF Flat

LEMMA HeardConcat ==
  ASSUME NEW by \in Actor, NEW a \in Seq(PartType), NEW b \in Seq(PartType)
  PROVE  Heard(by, a \o b) = Heard(by, a) \o Heard(by, b)
<1>1. PICK c, x, y, z, w : /\ c = a \o b /\ x = Heard(by, a) /\ y = Heard(by, b) /\ z = Heard(by, c)
                           /\ w = x \o y
  OBVIOUS
<1>2. /\ c \in Seq(PartType) /\ Len(c) = Len(a) + Len(b) /\ Len(a) \in Nat /\ Len(b) \in Nat
      /\ \A i \in 1..Len(a) + Len(b) : c[i] = IF i <= Len(a) THEN a[i] ELSE b[i - Len(a)]
  BY <1>1, ConcatProperties
<1>3. /\ x \in Seq(HeardType) /\ y \in Seq(HeardType) /\ z \in Seq(HeardType)
      /\ Len(x) = Len(a) /\ Len(y) = Len(b) /\ Len(z) = Len(c)
      /\ \A i \in 1..Len(a) : x[i] = [by |-> by, part |-> a[i]]
      /\ \A i \in 1..Len(b) : y[i] = [by |-> by, part |-> b[i]]
      /\ \A i \in 1..Len(c) : z[i] = [by |-> by, part |-> c[i]]
  BY <1>1, <1>2, HeardIs
<1>4. /\ w \in Seq(HeardType) /\ Len(w) = Len(x) + Len(y)
      /\ \A i \in 1..Len(x) + Len(y) : w[i] = IF i <= Len(x) THEN x[i] ELSE y[i - Len(x)]
  BY <1>1, <1>3, ConcatProperties
<1>5. ASSUME NEW i \in 1..Len(z)
      PROVE  z[i] = w[i]
  <2>1. i \in 1..Len(a) + Len(b) /\ z[i] = [by |-> by, part |-> c[i]]
    BY <1>2, <1>3
  <2>2. CASE i <= Len(a)
    <3>1. PICK l, m : l = Len(a) /\ m = Len(b)
      OBVIOUS
    <3>2. l \in Nat /\ m \in Nat /\ i \in 1..l + m /\ i <= l
      BY <1>2, <2>1, <2>2, <3>1
    <3>3. i \in 1..l
      BY <3>2
    <3>4. c[i] = a[i] /\ w[i] = x[i]
      BY <1>2, <1>3, <1>4, <3>1, <3>2
    <3>5. x[i] = [by |-> by, part |-> a[i]]
      BY <1>3, <3>1, <3>3
    <3> QED BY <2>1, <3>4, <3>5
  <2>3. CASE ~(i <= Len(a))
    <3>1. i - Len(a) \in 1..Len(b)
      BY <1>2, <2>1, <2>3
    <3>2. c[i] = b[i - Len(a)]
      BY <1>2, <2>1, <2>3
    <3>3. y[i - Len(a)] = [by |-> by, part |-> b[i - Len(a)]]
      BY <1>3, <3>1
    <3>4. w[i] = y[i - Len(a)]
      BY <1>2, <1>3, <1>4, <2>1, <2>3
    <3> QED BY <2>1, <3>2, <3>3, <3>4
  <2> QED BY <2>2, <2>3
<1>6. Len(z) = Len(w)
  BY <1>2, <1>3, <1>4
<1> QED BY <1>1, <1>3, <1>4, <1>5, <1>6, SeqEqual

\* Parts that a message has none of do not matter.
LEMMA OnlySame ==
  ASSUME NEW kinds, NEW A, NEW B, NEW parts \in Seq(PartType),
         Only(parts, kinds) = parts, kinds \intersect A = kinds \intersect B
  PROVE  Only(parts, A) = Only(parts, B)
<1>1. Only(parts, kinds) = parts
  OBVIOUS
<1>2. Only(Only(parts, kinds), A) = Only(parts, kinds \intersect A)
  BY OnlyOnly
<1>3. Only(Only(parts, kinds), B) = Only(parts, kinds \intersect B)
  BY OnlyOnly
<1> QED BY <1>1, <1>2, <1>3

LEMMA OnlySaid ==
  ASSUME NEW kinds, NEW parts \in Seq(SaidPart)
  PROVE  /\ Only(parts, kinds) \in Seq(SaidPart) /\ Only(parts, kinds) \in Seq(PartType)
         /\ \A i \in DOMAIN Only(parts, kinds) : Only(parts, kinds)[i].kind \in kinds
<1>1. PICK q : q = Only(parts, kinds)
  OBVIOUS
<1>2. parts \in Seq(PartType)
  BY SaidPartType
<1>3. q \in Seq(PartType)
  BY <1>1, <1>2, OnlyType
<1>4. \A j \in DOMAIN q : q[j].kind \in kinds /\ \E i \in DOMAIN parts : q[j] = parts[i]
  BY <1>1, <1>2, OnlyFrom
<1>5. \A i \in DOMAIN parts : parts[i] \in SaidPart
  OBVIOUS
<1>6. \A j \in DOMAIN q : q[j] \in SaidPart
  BY <1>4, <1>5
<1>7. q \in Seq(SaidPart)
  BY <1>3, <1>6
<1> QED BY <1>1, <1>3, <1>4, <1>7

\* If nothing is heard later than it was said.
LEMMA HeardOfPlain ==
  ASSUME NEW s, NEW m \in MessageType, Later(m, s) = {}
  PROVE  HeardOf(s)[m] = Heard(Speaker(m), Map(Rendered(s), Only(m.parts, Heeded)))
<1>1. PICK q : q = Only(m.parts, Heeded)
  OBVIOUS
<1>2. m.parts \in Seq(PartType)
  BY DEF MessageType
<1>3. q \in Seq(PartType) /\ \A i \in DOMAIN q : q[i].kind \in Heeded
  BY <1>1, <1>2, OnlyType, OnlyFrom
<1>4. PICK a, n : a = Said \ Later(m, s) /\ n = Later(m, s)
  OBVIOUS
<1>5. \A i \in DOMAIN q : q[i].kind \in a /\ q[i].kind \notin n
  BY <1>3, <1>4 DEF Heeded
<1>6. Only(q, a) = q /\ Only(q, n) = <<>>
  BY <1>3, <1>5, OnlyAll, OnlyNone
<1>7. q \o <<>> = q
  BY <1>3, ConcatEmptySeq
<1>8. HeardOf(s)[m] = Heard(Speaker(m), Map(Rendered(s), Only(q, a) \o Only(q, n)))
  BY <1>1, <1>4 DEF HeardOf
<1> QED BY <1>1, <1>6, <1>7, <1>8

ToolMessage == [x \in PartType |-> Message("message", "tool", <<x>>)]

LEMMA ToolMessageIs ==
  /\ Makes(ToolMessage, PartType, MessageType)
  /\ \A x \in PartType : /\ ToolMessage[x].type = "message" /\ ToolMessage[x].role = "tool"
                         /\ ToolMessage[x].parts = <<x>>
<1>1. ASSUME NEW x \in PartType
      PROVE  /\ ToolMessage[x] \in MessageType
             /\ ToolMessage[x].type = "message" /\ ToolMessage[x].role = "tool"
             /\ ToolMessage[x].parts = <<x>>
  <2>1. "message" \in Type /\ "tool" \in Role
    BY RoleIs
  <2>2. PICK p, n : p = <<x>> /\ n = Message("message", "tool", p)
    OBVIOUS
  <2>3. p \in Seq(PartType)
    BY <2>2
  <2>4. ToolMessage[x] = n
    BY <2>2 DEF ToolMessage
  <2>5. n \in MessageType /\ n.type = "message" /\ n.role = "tool" /\ n.parts = p
    BY <2>1, <2>2, <2>3 DEF Message, MessageType
  <2> QED BY <2>2, <2>4, <2>5
<1> QED BY <1>1 DEF Makes

\* Results that become messages of a tool each are heard, but for those with no content.
LEMMA ResultsHeard ==
  ASSUME ToChat, NEW s, NEW results \in Seq({x \in SaidPart : x.kind \in Results})
  PROVE  Flat(ChatHeard(s), Map(ToolMessage, results))
           = Heard("user", Map(Rendered(s), Only(results, Heeded)))
<1> DEFINE S == {x \in SaidPart : x.kind \in Results}
           Ok == {u \in Seq(S) : Flat(ChatHeard(s), Map(ToolMessage, u))
                                   = Heard("user", Map(Rendered(s), Only(u, Heeded)))}
<1>1. <<>> \in Ok
  <2>1. <<>> \in Seq(S)
    OBVIOUS
  <2>2. Flat(ChatHeard(s), Map(ToolMessage, <<>>)) = <<>>
    BY FlatEmpty
  <2>3. Heard("user", Map(Rendered(s), Only(<<>>, Heeded))) = <<>>
    BY FlatEmpty, OnlyEmpty, HeardEmpty
  <2> QED BY <2>1, <2>2, <2>3
<1>2. ASSUME NEW u \in Seq(S), NEW x \in S, u \in Ok
      PROVE  Append(u, x) \in Ok
  <2>1. PICK r, f, v, p, q : /\ r = Rendered(s) /\ f = ChatHeard(s) /\ v = Append(u, x)
                             /\ p = Only(u, Heeded) /\ q = Only(<<x>>, Heeded)
    OBVIOUS
  <2>2. SaidPart \subseteq PartType /\ S \subseteq PartType
    BY SaidPartType
  <2>3. u \in Seq(PartType) /\ x \in PartType /\ x \in SaidPart /\ <<x>> \in Seq(SaidPart)
    BY <2>2, SeqMonotonic
  <2>4. v \in Seq(S) /\ v = u \o <<x>> /\ <<x>> \in Seq(PartType)
    BY <2>1, <2>3
  <2>5. Makes(ToolMessage, PartType, MessageType) /\ Makes(f, MessageType, Seq(HeardType))
        /\ Makes(r, PartType, PartType)
    BY <2>1, ToolMessageIs, PrepIs, RenderedType
  <2>6. PICK t, m : t = Map(ToolMessage, u) /\ m = ToolMessage[x]
    OBVIOUS
  <2>7. t \in Seq(MessageType) /\ m \in MessageType /\ m.type = "message" /\ m.role = "tool"
        /\ m.parts = <<x>>
    <3>1. t \in Seq(MessageType)
      BY <2>3, <2>5, <2>6, MapType
    <3>2. m \in MessageType
      BY <2>3, <2>5, <2>6 DEF Makes
    <3> QED BY <2>3, <2>6, <3>1, <3>2, ToolMessageIs
  <2>8. Map(ToolMessage, v) = Append(t, m)
    BY <2>1, <2>3, <2>5, <2>6, MapAppend
  <2>9. Flat(f, Append(t, m)) = Flat(f, t) \o f[m]
    BY <2>5, <2>7, FlatAppend
  <2>10. f[m] = Heard("user", Map(r, q))
    <3>1. Len(m.parts) = 1 /\ Of(m, Results) /\ m.parts \in Seq(SaidPart)
      BY <2>3, <2>7 DEF Of
    <3>2. ChatForm(m)
      BY <2>7, <3>1 DEF ChatForm
    <3>3. Speaker(m) = "user"
      BY <2>7 DEF Speaker
    <3>4. f[m] = Heard(Speaker(m), Map(r, Only(m.parts, Heeded)))
      BY <2>1, <2>7, <3>1, <3>2, ChatMessageHeard
    <3> QED BY <2>1, <2>7, <3>3, <3>4
  <2>11. Only(v, Heeded) = p \o q /\ p \in Seq(PartType) /\ q \in Seq(PartType)
    BY <2>1, <2>3, <2>4, OnlyConcat, OnlyType
  <2>12. Map(r, p \o q) = Map(r, p) \o Map(r, q) /\ Map(r, p) \in Seq(PartType)
         /\ Map(r, q) \in Seq(PartType)
    <3>1. Map(r, p) \in Seq(PartType) /\ Map(r, q) \in Seq(PartType)
      BY <2>5, <2>11, MapType
    <3>2. Map(r, p \o q) = Map(r, p) \o Map(r, q)
      BY <2>5, <2>11, MapConcat
    <3> QED BY <3>1, <3>2
  <2>13. Heard("user", Map(r, p) \o Map(r, q)) = Heard("user", Map(r, p)) \o Heard("user", Map(r, q))
    <3>1. "user" \in Actor
      BY DEF Actor
    <3> QED BY <2>12, <3>1, HeardConcat
  <2>14. Flat(f, t) = Heard("user", Map(r, p))
    BY <1>2, <2>1, <2>6
  <2>15. Flat(f, Map(ToolMessage, v)) = Heard("user", Map(r, Only(v, Heeded)))
    BY <2>8, <2>9, <2>10, <2>11, <2>12, <2>13, <2>14
  <2> QED BY <2>1, <2>4, <2>15
<1>3. \A u \in Seq(S) : \A x \in S : u \in Ok => Append(u, x) \in Ok
  BY <1>2
<1>4. results \in Seq(S)
  OBVIOUS
<1> HIDE DEF Ok, S
<1>5. results \in Ok
  BY <1>1, <1>3, <1>4, SeqByStep
<1> QED BY <1>5 DEF Ok

ToChatMessages == [m \in MessageType |-> AnthropicMessageToChat(m)]

LEMMA AnthropicMessageToChatIs ==
  ASSUME NEW m \in MessageType
  PROVE  /\ AnthropicMessageToChat(m) \in Seq(MessageType)
         /\ m.role # "user" =>
              AnthropicMessageToChat(m)
                = <<Message("message", "assistant", Only(m.parts, {"text"}) \o Only(m.parts, {"call"}))>>
         /\ m.role = "user" =>
              AnthropicMessageToChat(m)
                = Map(ToolMessage, Only(m.parts, Results))
                    \o IF Only(m.parts, {"text"}) # <<>> \/ Only(m.parts, Results) = <<>>
                       THEN <<Message("message", "user", Only(m.parts, {"text"}))>> ELSE <<>>
<1>1. PICK p, t, r, c : /\ p = m.parts /\ t = Only(p, {"text"}) /\ r = Only(p, Results)
                        /\ c = Only(p, {"call"})
  OBVIOUS
<1>2. p \in Seq(PartType)
  BY <1>1 DEF MessageType
<1>3. t \in Seq(PartType) /\ r \in Seq(PartType) /\ c \in Seq(PartType)
  BY <1>1, <1>2, OnlyType
<1>4. "message" \in Type /\ "assistant" \in Role /\ "user" \in Role
  BY RoleIs
<1>5. PICK tc, n, u : /\ tc = t \o c /\ n = Message("message", "assistant", tc)
                      /\ u = Message("message", "user", t)
  OBVIOUS
<1>6. n \in MessageType /\ u \in MessageType
  <2>1. tc \in Seq(PartType)
    BY <1>3, <1>5
  <2> QED BY <1>3, <1>4, <1>5, <2>1 DEF Message, MessageType
<1>7. m.role # "user" => AnthropicMessageToChat(m) = <<n>>
  BY <1>1, <1>5 DEF AnthropicMessageToChat
<1>8. Each(r, LAMBDA result : Message("message", "tool", <<result>>)) = Map(ToolMessage, r)
  <2>1. \A i \in DOMAIN r : r[i] \in PartType
    BY <1>3
  <2>2. \A i \in DOMAIN r : ToolMessage[r[i]] = Message("message", "tool", <<r[i]>>)
    BY <2>1 DEF ToolMessage
  <2> QED BY <2>2 DEF Each, Map
<1>9. m.role = "user" => AnthropicMessageToChat(m) = Map(ToolMessage, r)
                           \o (IF t # <<>> \/ r = <<>> THEN <<u>> ELSE <<>>)
  BY <1>1, <1>5, <1>8 DEF AnthropicMessageToChat
<1>10. Map(ToolMessage, r) \in Seq(MessageType)
  BY <1>3, ToolMessageIs, MapType
<1>11. AnthropicMessageToChat(m) \in Seq(MessageType)
  <2>1. CASE m.role # "user"
    <3>1. <<n>> \in Seq(MessageType)
      BY <1>6
    <3> QED BY <1>7, <2>1, <3>1
  <2>2. CASE m.role = "user"
    <3>1. PICK w : w = IF t # <<>> \/ r = <<>> THEN <<u>> ELSE <<>>
      OBVIOUS
    <3>2. <<u>> \in Seq(MessageType) /\ <<>> \in Seq(MessageType)
      BY <1>6
    <3>3. w \in Seq(MessageType)
      BY <3>1, <3>2
    <3>4. AnthropicMessageToChat(m) = Map(ToolMessage, r) \o w
      BY <1>9, <2>2, <3>1
    <3> QED BY <1>10, <3>3, <3>4
  <2> QED BY <2>1, <2>2
<1> QED BY <1>1, <1>5, <1>7, <1>9, <1>11

\* A message of the Anthropic protocol: results are heard before text, text before calls.
LEMMA AnthropicMessageHeard ==
  ASSUME path = "anthropic_chat", NEW s, NEW m \in MessageType, m.parts \in Seq(SaidPart),
         AnthropicForm(m)
  PROVE  Flat(ChatHeard(s), AnthropicMessageToChat(m)) = HeardOf(s)[m]
<1>1. PICK p, t, r, c, f, w : /\ p = m.parts /\ t = Only(p, {"text"}) /\ r = Only(p, Results)
                              /\ c = Only(p, {"call"}) /\ f = ChatHeard(s) /\ w = Rendered(s)
  OBVIOUS
<1>2. p \in Seq(SaidPart) /\ p \in Seq(PartType)
  BY <1>1, SaidPartType
<1>3. /\ t \in Seq(SaidPart) /\ t \in Seq(PartType) /\ \A i \in DOMAIN t : t[i].kind = "text"
      /\ r \in Seq(SaidPart) /\ r \in Seq(PartType) /\ \A i \in DOMAIN r : r[i].kind \in Results
      /\ c \in Seq(SaidPart) /\ c \in Seq(PartType) /\ \A i \in DOMAIN c : c[i].kind = "call"
  BY <1>1, <1>2, OnlySaid
<1>4. Makes(f, MessageType, Seq(HeardType)) /\ Makes(w, PartType, PartType)
  BY <1>1, PrepIs, RenderedType
<1>5. ToChat /\ Heeded = Said \ {"empty"} /\ m.type = "message"
  BY DEF ToChat, Heeded, AnthropicForm
<1>6. "message" \in Type /\ "assistant" \in Role /\ "user" \in Role
  BY RoleIs
<1>7. PICK q : q = Only(p, Heeded)
  OBVIOUS
<1>8. CASE m.role = "user"
  <2>1. \A i \in DOMAIN p : p[i].kind \in {"text"} \union Results
    BY <1>1, <1>8 DEF AnthropicForm, Of
  <2>2. Speaker(m) = "user" /\ Later(m, s) = {"text"}
    BY <1>5, <1>8 DEF Speaker, Later
  <2>3. Only(q, {"text"}) = t
    <3>1. Only(q, {"text"}) = Only(p, Heeded \intersect {"text"})
      BY <1>2, <1>7, OnlyOnly
    <3>2. Heeded \intersect {"text"} = {"text"}
      BY <1>5 DEF Said
    <3> QED BY <1>1, <3>1, <3>2
  <2>4. Only(q, Said \ {"text"}) = Only(r, Heeded)
    <3>1. PICK A, B, K : /\ A = Heeded \intersect (Said \ {"text"}) /\ B = Results \intersect Heeded
                         /\ K = {"text"} \union Results
      OBVIOUS
    <3>2. Only(q, Said \ {"text"}) = Only(p, A)
      BY <1>2, <1>7, <3>1, OnlyOnly
    <3>3. Only(r, Heeded) = Only(p, B)
      BY <1>1, <1>2, <3>1, OnlyOnly
    <3>4. K \intersect A = K \intersect B
      BY <1>5, <3>1 DEF Said, Results
    <3>5. Only(p, A) = Only(p, B)
      <4>1. \A i \in DOMAIN p : p[i].kind \in K
        BY <2>1, <3>1
      <4>2. Only(p, K) = p
        BY <1>2, <4>1, OnlyAll
      <4> QED BY <1>2, <3>4, <4>2, OnlySame
    <3> QED BY <3>2, <3>3, <3>5
  <2>5. PICK h, x, y : h = Only(r, Heeded) /\ x = Map(w, h) /\ y = Map(w, t)
    OBVIOUS
  <2>6. h \in Seq(PartType) /\ x \in Seq(PartType) /\ y \in Seq(PartType)
    BY <1>3, <1>4, <2>5, OnlyType, MapType
  <2>7. HeardOf(s)[m] = Heard("user", x) \o Heard("user", y)
    <3>1. HeardOf(s)[m] = Heard("user", Map(w, Only(q, Said \ {"text"}) \o Only(q, {"text"})))
      BY <1>1, <1>7, <2>2 DEF HeardOf
    <3>2. Map(w, h \o t) = x \o y
      <4>1. Makes(w, PartType, PartType) /\ h \in Seq(PartType) /\ t \in Seq(PartType)
        BY <1>3, <1>4, <2>6
      <4>2. Map(w, h \o t) = Map(w, h) \o Map(w, t)
        BY <4>1, MapConcat
      <4> QED BY <2>5, <4>2
    <3>3. Heard("user", x \o y) = Heard("user", x) \o Heard("user", y)
      <4>1. "user" \in Actor
        BY DEF Actor
      <4> QED BY <2>6, <4>1, HeardConcat
    <3> QED BY <2>3, <2>4, <2>5, <3>1, <3>2, <3>3
  <2>8. PICK tools, u, last : /\ tools = Map(ToolMessage, r)
                              /\ u = Message("message", "user", t)
                              /\ last = IF t # <<>> \/ r = <<>> THEN <<u>> ELSE <<>>
    OBVIOUS
  <2>9. Flat(f, tools) = Heard("user", x)
    <3>1. r \in Seq({z \in SaidPart : z.kind \in Results})
      <4>1. \A i \in DOMAIN r : r[i] \in {z \in SaidPart : z.kind \in Results}
        BY <1>3
      <4> QED BY <1>3, <4>1
    <3> QED BY <1>1, <1>5, <2>5, <2>8, <3>1, ResultsHeard
  <2>10. tools \in Seq(MessageType) /\ u \in MessageType /\ u.type = "message" /\ u.role = "user"
         /\ u.parts = t
    <3>1. tools \in Seq(MessageType)
      BY <1>3, <2>8, ToolMessageIs, MapType
    <3> QED BY <1>3, <1>6, <2>8, <3>1 DEF Message, MessageType
  <2>11. last \in Seq(MessageType) /\ Flat(f, last) = Heard("user", y)
    <3>1. CASE t # <<>> \/ r = <<>>
      <4>1. last = <<u>> /\ last \in Seq(MessageType)
        BY <2>8, <2>10, <3>1
      <4>2. Flat(f, <<u>>) = f[u]
        BY <1>4, <2>10, FlatOne
      <4>3. Of(u, {"text"}) /\ u.parts \in Seq(SaidPart)
        BY <1>3, <2>10 DEF Of
      <4>4. ChatForm(u)
        BY <2>10, <4>3 DEF ChatForm
      <4>5. f[u] = Heard(Speaker(u), Map(w, Only(t, Heeded)))
        BY <1>1, <1>5, <2>10, <4>3, <4>4, ChatMessageHeard
      <4>6. Speaker(u) = "user"
        BY <2>10 DEF Speaker
      <4>7. Only(t, Heeded) = t
        <5>1. \A i \in DOMAIN t : t[i].kind \in Heeded
          BY <1>3, <1>5 DEF Said
        <5> QED BY <1>3, <5>1, OnlyAll
      <4> QED BY <2>5, <4>1, <4>2, <4>5, <4>6, <4>7
    <3>2. CASE ~(t # <<>> \/ r = <<>>)
      <4>1. last = <<>> /\ t = <<>> /\ last \in Seq(MessageType)
        BY <2>8, <3>2
      <4>2. y = <<>>
        BY <2>5, <4>1, FlatEmpty
      <4> QED BY <4>1, <4>2, FlatEmpty, HeardEmpty
    <3> QED BY <3>1, <3>2
  <2>12. AnthropicMessageToChat(m) = tools \o last
    BY <1>1, <1>8, <2>8, AnthropicMessageToChatIs
  <2>13. Flat(f, tools \o last) = Flat(f, tools) \o Flat(f, last)
    BY <1>4, <2>10, <2>11, FlatConcat
  <2> QED BY <1>1, <2>7, <2>9, <2>11, <2>12, <2>13
<1>9. CASE m.role = "assistant"
  <2>1. \A i \in DOMAIN p : p[i].kind \in {"text", "call"}
    BY <1>1, <1>9 DEF AnthropicForm, Of
  <2>2. Speaker(m) = "assistant" /\ Later(m, s) = {"call"} /\ m.role # "user"
    BY <1>5, <1>9 DEF Speaker, Later
  <2>3. q = p
    <3>1. \A i \in DOMAIN p : p[i].kind \in Heeded
      BY <1>5, <2>1 DEF Said
    <3> QED BY <1>2, <1>7, <3>1, OnlyAll
  <2>4. Only(p, Said \ {"call"}) = t
    <3>1. PICK A, B, K : A = Said \ {"call"} /\ B = {"text"} /\ K = {"text", "call"}
      OBVIOUS
    <3>2. K \intersect A = K \intersect B
      BY <3>1 DEF Said
    <3>3. Only(p, A) = Only(p, B)
      <4>1. \A i \in DOMAIN p : p[i].kind \in K
        BY <2>1, <3>1
      <4>2. Only(p, K) = p
        BY <1>2, <4>1, OnlyAll
      <4> QED BY <1>2, <3>2, <4>2, OnlySame
    <3> QED BY <1>1, <3>1, <3>3
  <2>5. PICK tc, n : tc = t \o c /\ n = Message("message", "assistant", tc)
    OBVIOUS
  <2>6. tc \in Seq(SaidPart) /\ tc \in Seq(PartType) /\ \A i \in DOMAIN tc : tc[i].kind \in {"text", "call"}
    <3>1. tc \in Seq(SaidPart) /\ tc \in Seq(PartType)
      BY <1>3, <2>5
    <3>2. /\ Len(tc) = Len(t) + Len(c) /\ Len(t) \in Nat /\ Len(c) \in Nat
          /\ \A i \in 1..Len(t) + Len(c) : tc[i] = IF i <= Len(t) THEN t[i] ELSE c[i - Len(t)]
      BY <1>3, <2>5, ConcatProperties
    <3>3. ASSUME NEW i \in DOMAIN tc
          PROVE  tc[i].kind \in {"text", "call"}
      <4>1. i \in 1..Len(t) + Len(c)
        BY <3>1, <3>2
      <4>2. CASE i <= Len(t)
        <5>1. i \in DOMAIN t /\ tc[i] = t[i]
          BY <1>3, <3>2, <4>1, <4>2
        <5> QED BY <1>3, <5>1
      <4>3. CASE ~(i <= Len(t))
        <5>1. i - Len(t) \in 1..Len(c) /\ tc[i] = c[i - Len(t)]
          BY <3>2, <4>1, <4>3
        <5>2. i - Len(t) \in DOMAIN c
          BY <1>3, <5>1
        <5> QED BY <1>3, <5>1, <5>2
      <4> QED BY <4>2, <4>3
    <3> QED BY <3>1, <3>3
  <2>7. n \in MessageType /\ n.type = "message" /\ n.role = "assistant" /\ n.parts = tc
    BY <1>6, <2>5, <2>6 DEF Message, MessageType
  <2>8. Of(n, {"text", "call"}) /\ n.parts \in Seq(SaidPart)
    BY <2>6, <2>7 DEF Of
  <2>9. ChatForm(n) /\ Speaker(n) = "assistant"
    BY <2>7, <2>8 DEF ChatForm, Speaker
  <2>10. f[n] = Heard(Speaker(n), Map(w, Only(tc, Heeded)))
    BY <1>1, <1>5, <2>7, <2>8, <2>9, ChatMessageHeard
  <2>11. Only(tc, Heeded) = tc
    <3>1. \A i \in DOMAIN tc : tc[i].kind \in Heeded
      BY <1>5, <2>6 DEF Said
    <3> QED BY <2>6, <3>1, OnlyAll
  <2>12. HeardOf(s)[m] = Heard("assistant", Map(w, t \o c))
    <3>1. HeardOf(s)[m] = Heard("assistant", Map(w, Only(p, Said \ {"call"}) \o Only(p, {"call"})))
      BY <1>1, <1>7, <2>2, <2>3 DEF HeardOf
    <3> QED BY <1>1, <2>4, <3>1
  <2>13. AnthropicMessageToChat(m) = <<n>>
    BY <1>1, <2>2, <2>5, AnthropicMessageToChatIs
  <2>14. Flat(f, <<n>>) = f[n]
    BY <1>4, <2>7, FlatOne
  <2> QED BY <1>1, <2>5, <2>9, <2>10, <2>11, <2>12, <2>13, <2>14
<1> QED BY <1>8, <1>9 DEF AnthropicForm

\* An item of a Responses input.
ToChatItem == [m \in MessageType |->
                 Message("message", IF m.type = "function_call_output" THEN "tool" ELSE m.role, m.parts)]

LEMMA ToChatItemIs ==
  /\ Makes(ToChatItem, MessageType, MessageType)
  /\ \A m \in MessageType :
       /\ ToChatItem[m].type = "message" /\ ToChatItem[m].parts = m.parts
       /\ ToChatItem[m].role = IF m.type = "function_call_output" THEN "tool" ELSE m.role
<1>1. ASSUME NEW m \in MessageType
      PROVE  /\ ToChatItem[m] \in MessageType
             /\ ToChatItem[m].type = "message" /\ ToChatItem[m].parts = m.parts
             /\ ToChatItem[m].role = IF m.type = "function_call_output" THEN "tool" ELSE m.role
  <2>1. "message" \in Type /\ "tool" \in Role /\ m.role \in Role /\ m.parts \in Seq(PartType)
    BY RoleIs DEF MessageType
  <2>2. PICK role : role = IF m.type = "function_call_output" THEN "tool" ELSE m.role
    OBVIOUS
  <2>3. ToChatItem[m] = Message("message", role, m.parts) /\ role \in Role
    BY <2>1, <2>2 DEF ToChatItem
  <2> QED BY <2>1, <2>2, <2>3 DEF Message, MessageType
<1> QED BY <1>1 DEF Makes

LEMMA ResponsesItemHeard ==
  ASSUME path = "responses_chat", NEW s, NEW m \in MessageType, m.parts \in Seq(SaidPart),
         ResponsesForm(m), m.type # "function_call"
  PROVE  ChatHeard(s)[ToChatItem[m]] = HeardOf(s)[m]
<1>1. PICK n : n = ToChatItem[m]
  OBVIOUS
<1>2. n \in MessageType /\ n.type = "message" /\ n.parts = m.parts
      /\ n.role = IF m.type = "function_call_output" THEN "tool" ELSE m.role
  <2>1. n \in MessageType
    BY <1>1, ToChatItemIs DEF Makes
  <2> QED BY <1>1, <2>1, ToChatItemIs
<1>3. ToChat /\ Later(m, s) = {}
  BY DEF ToChat, Later
<1>4. ChatForm(n) /\ Speaker(n) = Speaker(m)
  <2>1. CASE m.type = "function_call_output"
    <3>1. n.role = "tool" /\ m.role = "" /\ Len(n.parts) = 1 /\ Of(n, Results)
      BY <1>2, <2>1 DEF ResponsesForm, Of
    <3> QED BY <1>2, <2>1, <3>1 DEF ChatForm, Speaker
  <2>2. CASE m.type # "function_call_output"
    <3>1. n.role = m.role /\ m.role \in {"user", "assistant", "developer"} /\ Of(n, {"text"})
      BY <1>2, <2>2 DEF ResponsesForm, Of
    <3>2. Of(n, {"text", "call"})
      BY <3>1 DEF Of
    <3> QED BY <1>2, <2>2, <3>1, <3>2 DEF ChatForm, Speaker
  <2> QED BY <2>1, <2>2
<1>5. ChatHeard(s)[n] = Heard(Speaker(n), Map(Rendered(s), Only(n.parts, Heeded)))
  BY <1>2, <1>3, <1>4, ChatMessageHeard
<1>6. HeardOf(s)[m] = Heard(Speaker(m), Map(Rendered(s), Only(m.parts, Heeded)))
  BY <1>3, HeardOfPlain
<1> QED BY <1>1, <1>2, <1>4, <1>5, <1>6

-----------------------------------------------------------------------------
(* The conversation as it reaches the upstream *)

HistoryOK ==
  /\ path \in {"chat", "responses", "responses_chat", "anthropic", "anthropic_chat"}
  /\ system \in Seq(SaidPart) /\ \A i \in DOMAIN system : system[i].kind = "text"
  /\ path = "chat" => system = <<>>
  /\ history \in Seq(MessageType) /\ \A i \in DOMAIN history : WellFormed(history[i])

LEMMA SystemIs ==
  ASSUME HistoryOK
  PROVE  /\ system \in Seq(SaidPart) /\ system \in Seq(PartType)
         /\ Only(system, Read) = system /\ Only(system, {"text"}) = system
         /\ Heard("system", system) \in Seq(HeardType)
<1>1. system \in Seq(SaidPart) /\ \A i \in DOMAIN system : system[i].kind = "text"
  BY DEF HistoryOK
<1>2. system \in Seq(PartType)
  BY <1>1, SaidPartType
<1>3. \A i \in DOMAIN system : system[i].kind \in Read /\ system[i].kind \in {"text"}
  BY <1>1 DEF Read, Said
<1>4. "system" \in Actor
  BY DEF Actor
<1> QED BY <1>1, <1>2, <1>3, <1>4, OnlyAll, HeardIs

LEMMA HistoryIs ==
  ASSUME HistoryOK
  PROVE  /\ history \in Seq(MessageType)
         /\ \A i \in DOMAIN history : WellFormed(history[i]) /\ history[i] \in MessageType
         /\ \A i \in DOMAIN history : history[i].parts \in Seq(SaidPart) /\ history[i].parts # <<>>
BY DEF HistoryOK, WellFormed

\* The system text is a message on the way to chat completions.
LEMMA SystemMessageHeard ==
  ASSUME HistoryOK, ToChat, NEW s
  PROVE  /\ SystemMessage \in Seq(MessageType)
         /\ Flat(ChatHeard(s), SystemMessage) = Heard("system", system)
<1>1. system \in Seq(SaidPart) /\ system \in Seq(PartType)
  BY SystemIs
<1>2. \A i \in DOMAIN system : system[i].kind = "text"
  BY DEF HistoryOK
<1>3. CASE system = <<>>
  <2>1. SystemMessage = <<>> /\ <<>> \in Seq(MessageType)
    BY <1>3 DEF SystemMessage
  <2> QED BY <1>3, <2>1, FlatEmpty, HeardEmpty
<1>4. CASE system # <<>>
  <2>1. PICK m : m = Message("message", "system", system)
    OBVIOUS
  <2>2. "message" \in Type /\ "system" \in Role
    BY RoleIs
  <2>3. m \in MessageType /\ m.type = "message" /\ m.role = "system" /\ m.parts = system
    BY <1>1, <2>1, <2>2 DEF Message, MessageType
  <2>4. SystemMessage = <<m>>
    BY <1>4, <2>1 DEF SystemMessage
  <2>5. Of(m, {"text"}) /\ m.parts \in Seq(SaidPart)
    BY <1>1, <1>2, <2>3 DEF Of
  <2>6. ChatForm(m) /\ Speaker(m) = "system"
    BY <2>3, <2>5 DEF ChatForm, Speaker
  <2>7. ChatHeard(s)[m] = Heard("system", Map(Rendered(s), Only(system, Heeded)))
    BY <2>3, <2>5, <2>6, ChatMessageHeard
  <2>8. Only(system, Heeded) = system
    <3>1. \A i \in DOMAIN system : system[i].kind \in Heeded
      BY <1>2 DEF Heeded, Said
    <3> QED BY <1>1, <3>1, OnlyAll
  <2>9. Map(Rendered(s), system) = system
    BY <1>1, <1>2, RenderedParts
  <2>10. Flat(ChatHeard(s), <<m>>) = ChatHeard(s)[m]
    <3>1. Makes(ChatHeard(s), MessageType, Seq(HeardType))
      BY PrepIs
    <3> QED BY <2>3, <3>1, FlatOne
  <2>11. <<m>> \in Seq(MessageType)
    BY <2>3
  <2> QED BY <2>4, <2>7, <2>8, <2>9, <2>10, <2>11
<1> QED BY <1>3, <1>4

\* The messages that PrepareChat is given.
ChatMessages ==
  CASE path = "chat"           -> history
    [] path = "responses_chat" -> ResponsesInputToMessages
    [] path = "anthropic_chat" -> AnthropicMessagesToChat

LEMMA ChatMessagesAre ==
  ASSUME HistoryOK
  PROVE  /\ path = "chat" => ChatMessages = history
         /\ path = "responses_chat" => ChatMessages = SystemMessage \o Map(ToChatItem, history)
         /\ path = "anthropic_chat" => ChatMessages = SystemMessage \o Flat(ToChatMessages, history)
<1>1. \A i \in DOMAIN history : history[i] \in MessageType
  BY HistoryIs
<1>2. ResponsesInputToMessages = SystemMessage \o Map(ToChatItem, history)
  <2>1. Map(ToChatItem, history) =
          Each(history, LAMBDA item :
            Message("message", IF item.type = "function_call_output" THEN "tool" ELSE item.role,
                    item.parts))
    BY <1>1 DEF Map, Each, ToChatItem
  <2> QED BY <2>1 DEF ResponsesInputToMessages
<1>3. AnthropicMessagesToChat = SystemMessage \o Flat(ToChatMessages, history)
  <2>1. Map(ToChatMessages, history) = Each(history, AnthropicMessageToChat)
    BY <1>1 DEF Map, Each, ToChatMessages
  <2> QED BY <2>1 DEF AnthropicMessagesToChat, Flat
<1>4. path = "chat" => ChatMessages = history
  BY DEF ChatMessages
<1>5. path = "responses_chat" => ChatMessages = ResponsesInputToMessages
  BY DEF ChatMessages
<1>6. path = "anthropic_chat" => ChatMessages = AnthropicMessagesToChat
  BY DEF ChatMessages
<1> QED BY <1>2, <1>3, <1>4, <1>5, <1>6

LEMMA ToChatMessagesMakes == Makes(ToChatMessages, MessageType, Seq(MessageType))
<1>1. \A m \in MessageType : ToChatMessages[m] \in Seq(MessageType)
  BY AnthropicMessageToChatIs DEF ToChatMessages
<1> QED BY <1>1 DEF Makes

LEMMA ChatMessagesHeard ==
  ASSUME HistoryOK, ToChat, ~Unsupported, NEW s
  PROVE  /\ ChatMessages \in Seq(MessageType)
         /\ Flat(ChatHeard(s), ChatMessages) = Heard("system", system) \o Flat(HeardOf(s), history)
<1>1. PICK f, h, y : f = ChatHeard(s) /\ h = HeardOf(s) /\ y = SystemMessage
  OBVIOUS
<1>2. Makes(f, MessageType, Seq(HeardType)) /\ Makes(h, MessageType, Seq(HeardType))
  BY <1>1, PrepIs, HeardOfIs
<1>3. history \in Seq(MessageType)
  BY HistoryIs
<1>4. y \in Seq(MessageType) /\ Flat(f, y) = Heard("system", system)
  BY <1>1, SystemMessageHeard
<1>5. Flat(h, history) \in Seq(HeardType)
  BY <1>2, <1>3, FlatType
<1>6. CASE path = "chat"
  <2>1. ChatMessages = history
    BY <1>6, ChatMessagesAre
  <2>2. \A i \in DOMAIN history : f[history[i]] = h[history[i]]
    <3>1. ASSUME NEW i \in DOMAIN history
          PROVE  f[history[i]] = h[history[i]]
      <4>1. PICK m : m = history[i]
        OBVIOUS
      <4>2. m \in MessageType /\ WellFormed(m) /\ m.parts \in Seq(SaidPart)
        BY <4>1, HistoryIs
      <4>3. ChatForm(m) /\ Later(m, s) = {}
        BY <1>6, <4>2 DEF WellFormed, Later
      <4>4. f[m] = Heard(Speaker(m), Map(Rendered(s), Only(m.parts, Heeded)))
        BY <1>1, <4>2, <4>3, ChatMessageHeard
      <4>5. h[m] = Heard(Speaker(m), Map(Rendered(s), Only(m.parts, Heeded)))
        BY <1>1, <4>2, <4>3, HeardOfPlain
      <4> QED BY <4>1, <4>4, <4>5
    <3> QED BY <3>1
  <2>3. Flat(f, history) = Flat(h, history)
    BY <2>2, FlatSame
  <2>4. Heard("system", system) = <<>>
    <3>1. system = <<>>
      BY <1>6 DEF HistoryOK
    <3> QED BY <3>1, HeardEmpty
  <2>5. <<>> \o Flat(h, history) = Flat(h, history)
    BY <1>5, ConcatEmptySeq
  <2> QED BY <1>1, <1>3, <2>1, <2>3, <2>4, <2>5
<1>7. CASE path = "responses_chat"
  <2>1. PICK z : z = Map(ToChatItem, history)
    OBVIOUS
  <2>2. z \in Seq(MessageType) /\ ChatMessages = y \o z
    BY <1>1, <1>3, <1>7, <2>1, ChatMessagesAre, ToChatItemIs, MapType
  <2>3. \A i \in DOMAIN history : h[history[i]] = f[ToChatItem[history[i]]]
    <3>1. ASSUME NEW i \in DOMAIN history
          PROVE  h[history[i]] = f[ToChatItem[history[i]]]
      <4>1. PICK m : m = history[i]
        OBVIOUS
      <4>2. m \in MessageType /\ WellFormed(m) /\ m.parts \in Seq(SaidPart)
        BY <4>1, HistoryIs
      <4>3. ResponsesForm(m)
        BY <1>7, <4>2 DEF WellFormed, ViaResponses
      <4>4. m.type # "function_call"
        BY <1>7, <4>1 DEF Unsupported
      <4>5. f[ToChatItem[m]] = h[m]
        BY <1>1, <1>7, <4>2, <4>3, <4>4, ResponsesItemHeard
      <4> QED BY <4>1, <4>5
    <3> QED BY <3>1
  <2>4. Flat(f, z) = Flat(h, history)
    BY <2>1, <2>3, FlatMap
  <2>5. Flat(f, y \o z) = Flat(f, y) \o Flat(f, z) /\ y \o z \in Seq(MessageType)
    BY <1>2, <1>4, <2>2, FlatConcat
  <2> QED BY <1>1, <1>4, <2>2, <2>4, <2>5
<1>8. CASE path = "anthropic_chat"
  <2>1. PICK z, t : z = Flat(ToChatMessages, history) /\ t = Then(ToChatMessages, f, MessageType)
    OBVIOUS
  <2>2. Makes(ToChatMessages, MessageType, Seq(MessageType))
    BY ToChatMessagesMakes
  <2>3. z \in Seq(MessageType) /\ ChatMessages = y \o z
    BY <1>1, <1>3, <1>8, <2>1, <2>2, ChatMessagesAre, FlatType
  <2>4. Flat(f, z) = Flat(t, history)
    BY <1>2, <1>3, <2>1, <2>2, FlatFlat
  <2>5. \A i \in DOMAIN history : t[history[i]] = h[history[i]]
    <3>1. ASSUME NEW i \in DOMAIN history
          PROVE  t[history[i]] = h[history[i]]
      <4>1. PICK m : m = history[i]
        OBVIOUS
      <4>2. m \in MessageType /\ WellFormed(m) /\ m.parts \in Seq(SaidPart)
        BY <4>1, HistoryIs
      <4>3. AnthropicForm(m)
        BY <1>8, <4>2 DEF WellFormed, ViaAnthropic
      <4>4. Flat(f, AnthropicMessageToChat(m)) = h[m]
        BY <1>1, <1>8, <4>2, <4>3, AnthropicMessageHeard
      <4>5. t[m] = Flat(f, AnthropicMessageToChat(m))
        BY <2>1, <4>2 DEF Then, ToChatMessages
      <4> QED BY <4>1, <4>4, <4>5
    <3> QED BY <3>1
  <2>6. Flat(t, history) = Flat(h, history)
    BY <2>5, FlatSame
  <2>7. Flat(f, y \o z) = Flat(f, y) \o Flat(f, z) /\ y \o z \in Seq(MessageType)
    BY <1>2, <1>4, <2>3, FlatConcat
  <2> QED BY <1>1, <1>4, <2>3, <2>4, <2>6, <2>7
<1> QED BY <1>6, <1>7, <1>8 DEF ToChat

-----------------------------------------------------------------------------
(* The prompt is no part of what is heard *)

Prompted(m) == [m EXCEPT !.parts = <<Prompt>> \o @]

LEMMA PromptIs ==
  /\ Prompt \in PartType /\ Prompt.kind = "prompt" /\ <<Prompt>> \in Seq(PartType)
  /\ Only(<<Prompt>>, Read) = <<>>
<1>1. Prompt = [kind |-> "prompt", n |-> 0]
  BY DEF Prompt, Part
<1>2. Prompt \in PartType /\ Prompt.kind = "prompt"
  BY <1>1 DEF PartType, AnyKind
<1>3. Prompt.kind \notin Read
  BY <1>2 DEF Read, Said, Results, Written
<1>4. Only(<<Prompt>>, Read) = <<>>
  BY <1>2, <1>3, OnlyOne
<1> QED BY <1>2, <1>4

LEMMA PromptedIs ==
  ASSUME NEW m \in MessageType
  PROVE  /\ Prompted(m) \in MessageType
         /\ Prompted(m).type = m.type /\ Prompted(m).role = m.role
         /\ Prompted(m).parts = <<Prompt>> \o m.parts
         /\ Speaker(Prompted(m)) = Speaker(m)
         /\ Only(Prompted(m).parts, Read) = Only(m.parts, Read)
<1>1. PICK p, q, n : p = m.parts /\ q = <<Prompt>> \o p /\ n = Prompted(m)
  OBVIOUS
<1>2. p \in Seq(PartType)
  BY <1>1 DEF MessageType
<1>3. q \in Seq(PartType)
  BY <1>1, <1>2, PromptIs
<1>4. n = [m EXCEPT !.parts = q]
  BY <1>1 DEF Prompted
<1>5. n \in MessageType /\ n.type = m.type /\ n.role = m.role /\ n.parts = q
  BY <1>3, <1>4 DEF MessageType
<1>6. Speaker(n) = Speaker(m)
  BY <1>5 DEF Speaker
<1>7. Only(q, Read) = Only(p, Read)
  <2>1. Only(q, Read) = Only(<<Prompt>>, Read) \o Only(p, Read)
    BY <1>1, <1>2, PromptIs, OnlyConcat
  <2>2. Only(p, Read) \in Seq(PartType)
    BY <1>2, OnlyType
  <2>3. <<>> \o Only(p, Read) = Only(p, Read)
    BY <2>2, ConcatEmptySeq
  <2> QED BY <2>1, <2>3, PromptIs
<1> QED BY <1>1, <1>5, <1>6, <1>7

LEMMA PromptMessageIs ==
  ASSUME NEW role \in Role
  PROVE  /\ PromptMessage(role) \in MessageType
         /\ PromptMessage(role).type = "message" /\ PromptMessage(role).role = role
         /\ PromptMessage(role).parts = <<Prompt>>
         /\ Told(Read)[PromptMessage(role)] = <<>>
<1>1. PICK p, n : p = <<Prompt>> /\ n = PromptMessage(role)
  OBVIOUS
<1>2. p \in Seq(PartType) /\ "message" \in Type
  BY <1>1, PromptIs, RoleIs
<1>3. n = Message("message", role, p)
  BY <1>1 DEF PromptMessage
<1>4. n \in MessageType /\ n.type = "message" /\ n.role = role /\ n.parts = p
  BY <1>2, <1>3 DEF Message, MessageType
<1>5. Told(Read)[n] = Heard(Speaker(n), Only(p, Read))
  BY <1>4, ToldIs
<1>6. Only(p, Read) = <<>>
  BY <1>1, PromptIs
<1> QED BY <1>1, <1>4, <1>5, <1>6, HeardEmpty

LEMMA InjectionIs ==
  ASSUME NEW s \in Setting, NEW protocol
  PROVE  ResolvePromptInjection(protocol, s).role \in Role
<1>1. PICK target, role, message :
        /\ target = FirstNonEmpty(s.upstream.target, NormalizePromptInjectionTarget(s.features.target))
        /\ role = FirstNonEmpty(s.upstream.role, s.features.role)
        /\ message = (target = "message" \/ (target = "" /\ IsConversationRole(role)))
  OBVIOUS
<1>2. role \in Role
  BY <1>1 DEF FirstNonEmpty, Role
<1>3. /\ "user" \in Role /\ "developer" \in Role /\ "" \in Role /\ "system" \in Role
  BY RoleIs
<1>4. /\ (IF IsConversationRole(role) THEN role ELSE "developer") \in Role
      /\ FirstNonEmpty(role, "system") \in Role
  BY <1>2, <1>3 DEF FirstNonEmpty
<1>5. PICK inner : inner = IF IsConversationRole(role) THEN role ELSE "developer"
  OBVIOUS
<1>6. \/ ResolvePromptInjection(protocol, s) = InjectAt("last_user_message", "user")
      \/ ResolvePromptInjection(protocol, s) = InjectAt("message", inner)
      \/ ResolvePromptInjection(protocol, s) = InjectAt("message", role)
      \/ ResolvePromptInjection(protocol, s) = InjectAt("message", FirstNonEmpty(role, "system"))
      \/ ResolvePromptInjection(protocol, s) = InjectAt("system", "")
  <2>1. ResolvePromptInjection(protocol, s) =
          IF target = "last_user_message" THEN InjectAt(target, "user")
          ELSE IF protocol = "responses" /\ message THEN InjectAt("message", inner)
          ELSE IF protocol = "anthropic" /\ message /\ IsConversationRole(role)
          THEN InjectAt("message", role)
          ELSE IF protocol = "chat" THEN InjectAt("message", FirstNonEmpty(role, "system"))
          ELSE InjectAt("system", "")
    BY <1>1, <1>5 DEF ResolvePromptInjection
  <2> QED BY <2>1
<1>7. PICK x, last : x = ResolvePromptInjection(protocol, s) /\ last = FirstNonEmpty(role, "system")
  OBVIOUS
<1>8. inner \in Role /\ last \in Role
  BY <1>4, <1>5, <1>7
<1>9. x.role \in {"user", inner, role, last, ""}
  <2>1. CASE x = InjectAt("last_user_message", "user")
    BY <2>1 DEF InjectAt
  <2>2. CASE x = InjectAt("message", inner)
    BY <2>2 DEF InjectAt
  <2>3. CASE x = InjectAt("message", role)
    BY <2>3 DEF InjectAt
  <2>4. CASE x = InjectAt("message", last)
    BY <2>4 DEF InjectAt
  <2>5. CASE x = InjectAt("system", "")
    BY <2>5 DEF InjectAt
  <2> QED BY <1>6, <1>7, <2>1, <2>2, <2>3, <2>4, <2>5
<1> QED BY <1>2, <1>3, <1>7, <1>8, <1>9

\* Where the prompt is a message of its own, or part of one.
LEMMA FrontSilent ==
  ASSUME NEW messages \in Seq(MessageType), NEW role \in Role, NEW f,
         Makes(f, MessageType, Seq(HeardType)), f[PromptMessage(role)] = <<>>
  PROVE  /\ <<PromptMessage(role)>> \o messages \in Seq(MessageType)
         /\ Flat(f, <<PromptMessage(role)>> \o messages) = Flat(f, messages)
<1>1. PICK m, u : m = PromptMessage(role) /\ u = <<m>>
  OBVIOUS
<1>2. m \in MessageType
  BY <1>1, PromptMessageIs
<1>3. u \in Seq(MessageType)
  BY <1>1, <1>2
<1>4. Flat(f, u \o messages) = Flat(f, u) \o Flat(f, messages)
  BY <1>3, FlatConcat
<1>5. Flat(f, u) = <<>>
  <2>1. Flat(f, <<m>>) = f[m]
    BY <1>2, FlatOne
  <2> QED BY <1>1, <2>1
<1>6. Flat(f, messages) \in Seq(HeardType)
  BY FlatType
<1>7. <<>> \o Flat(f, messages) = Flat(f, messages)
  BY <1>6, ConcatEmptySeq
<1>8. u \o messages \in Seq(MessageType)
  BY <1>3
<1> QED BY <1>1, <1>4, <1>5, <1>7, <1>8

LEMMA IntoLatestIs ==
  ASSUME NEW messages \in Seq(MessageType), NEW index
  PROVE  /\ index \in DOMAIN messages =>
              /\ IntoLatest(messages, index) \in Seq(MessageType)
              /\ Len(IntoLatest(messages, index)) = Len(messages)
              /\ DOMAIN IntoLatest(messages, index) = DOMAIN messages
              /\ \A i \in DOMAIN messages :
                   IntoLatest(messages, index)[i] = IF i = index THEN Prompted(messages[i]) ELSE messages[i]
         /\ index \notin DOMAIN messages =>
              IntoLatest(messages, index) = Append(messages, PromptMessage("user"))
<1>1. ASSUME index \in DOMAIN messages
      PROVE  /\ IntoLatest(messages, index) \in Seq(MessageType)
             /\ Len(IntoLatest(messages, index)) = Len(messages)
             /\ DOMAIN IntoLatest(messages, index) = DOMAIN messages
             /\ \A i \in DOMAIN messages :
                  IntoLatest(messages, index)[i] = IF i = index THEN Prompted(messages[i]) ELSE messages[i]
  <2>1. PICK z, n : z = IntoLatest(messages, index) /\ n = Prompted(messages[index])
    OBVIOUS
  <2>2. n \in MessageType
    BY <1>1, <2>1, PromptedIs
  <2>3. z = [messages EXCEPT ![index] = n]
    BY <1>1, <2>1 DEF IntoLatest, Prompted
  <2> QED BY <1>1, <2>1, <2>2, <2>3
<1>2. index \notin DOMAIN messages =>
        IntoLatest(messages, index) = Append(messages, PromptMessage("user"))
  BY DEF IntoLatest
<1> QED BY <1>1, <1>2

LEMMA LatestSilent ==
  ASSUME NEW messages \in Seq(MessageType), NEW index, NEW f,
         Makes(f, MessageType, Seq(HeardType)), f[PromptMessage("user")] = <<>>,
         index \in DOMAIN messages => f[Prompted(messages[index])] = f[messages[index]]
  PROVE  /\ IntoLatest(messages, index) \in Seq(MessageType)
         /\ Flat(f, IntoLatest(messages, index)) = Flat(f, messages)
<1>1. CASE index \in DOMAIN messages
  <2>1. PICK z : z = IntoLatest(messages, index)
    OBVIOUS
  <2>2. /\ z \in Seq(MessageType) /\ DOMAIN z = DOMAIN messages
        /\ \A i \in DOMAIN messages : z[i] = IF i = index THEN Prompted(messages[i]) ELSE messages[i]
    BY <1>1, <2>1, IntoLatestIs
  <2>3. \A i \in DOMAIN messages : f[z[i]] = f[messages[i]]
    BY <1>1, <2>2
  <2>4. Map(f, z) = Map(f, messages)
    BY <2>2, <2>3 DEF Map
  <2> QED BY <2>1, <2>2, <2>4 DEF Flat
<1>2. CASE index \notin DOMAIN messages
  <2>1. PICK m : m = PromptMessage("user")
    OBVIOUS
  <2>2. m \in MessageType
    <3>1. "user" \in Role
      BY RoleIs
    <3> QED BY <2>1, <3>1, PromptMessageIs
  <2>3. IntoLatest(messages, index) = Append(messages, m) /\ Append(messages, m) \in Seq(MessageType)
    BY <1>2, <2>1, <2>2, IntoLatestIs
  <2>4. Flat(f, Append(messages, m)) = Flat(f, messages) \o f[m]
    BY <2>2, FlatAppend
  <2>5. Flat(f, messages) \in Seq(HeardType)
    BY FlatType
  <2>6. Flat(f, messages) \o <<>> = Flat(f, messages)
    BY <2>5, ConcatEmptySeq
  <2> QED BY <2>1, <2>3, <2>4, <2>6
<1> QED BY <1>1, <1>2

LEMMA ToldPrompted ==
  ASSUME NEW m \in MessageType
  PROVE  Told(Read)[Prompted(m)] = Told(Read)[m]
<1>1. PICK n : n = Prompted(m)
  OBVIOUS
<1>2. n \in MessageType /\ Speaker(n) = Speaker(m) /\ Only(n.parts, Read) = Only(m.parts, Read)
  BY <1>1, PromptedIs
<1> QED BY <1>1, <1>2, ToldIs

-----------------------------------------------------------------------------
(* The request *)

LEMMA SentIs ==
  ASSUME NEW soft, NEW instructions, NEW messages
  PROVE  /\ Sent(soft, instructions, messages).soft = soft
         /\ Sent(soft, instructions, messages).system = instructions
         /\ Sent(soft, instructions, messages).messages = messages
BY DEF Sent

LEMMA SentIsNot ==
  ASSUME NEW soft, NEW instructions, NEW messages
  PROVE  Sent(soft, instructions, messages) # Refused
<1>1. DOMAIN Sent(soft, instructions, messages) = {"soft", "system", "messages"}
  BY DEF Sent
<1>2. DOMAIN Refused = {"refused"}
  BY DEF Refused
<1>3. "soft" \notin {"refused"}
  OBVIOUS
<1> QED BY <1>1, <1>2, <1>3

\* What every request is: read as all that was said.
RequestOK(r, s) ==
  /\ r # Refused /\ r.soft = s.functionCalling
  /\ r.system \in Seq(PartType) /\ r.messages \in Seq(MessageType)
  /\ Heard("system", Only(r.system, Read)) \o Flat(Told(Read), r.messages)
       = Heard("system", system) \o Flat(HeardOf(s), history)

LEMMA ToldMakes ==
  /\ Makes(Told(Read), MessageType, Seq(HeardType))
  /\ \A role \in Role : Told(Read)[PromptMessage(role)] = <<>>
BY ToldIs, PromptMessageIs

LEMMA ChatRequest ==
  ASSUME HistoryOK, ToChat, ~Unsupported, NEW s \in Setting
  PROVE  RequestOK(PrepareChat(ChatMessages, s), s)
<1>1. PICK t, f, c, p, r, j : /\ t = Told(Read) /\ f = ChatHeard(s) /\ c = ChatMessages
                              /\ p = PreprocessMessages(c, s) /\ r = PrepareChat(c, s)
                              /\ j = ResolvePromptInjection("chat", s)
  OBVIOUS
<1>2. c \in Seq(MessageType) /\ Flat(f, c) = Heard("system", system) \o Flat(HeardOf(s), history)
  BY <1>1, ChatMessagesHeard
<1>3. p \in Seq(MessageType) /\ Flat(t, p) = Flat(f, c)
  BY <1>1, <1>2, PreprocessMessagesIs
<1>4. Makes(t, MessageType, Seq(HeardType)) /\ j.role \in Role /\ t[PromptMessage(j.role)] = <<>>
  BY <1>1, ToldMakes, InjectionIs
<1>5. PICK k, z : k = LastUserMessageIndex(c) /\ z = IntoLatest(p, k)
  OBVIOUS
<1>6. z \in Seq(MessageType) /\ Flat(t, z) = Flat(t, p)
  <2>1. k \in DOMAIN p => t[Prompted(p[k])] = t[p[k]]
    BY <1>1, <1>3, ToldPrompted
  <2>2. t[PromptMessage("user")] = <<>>
    BY <1>1, ToldMakes, RoleIs
  <2> QED BY <1>3, <1>4, <1>5, <2>1, <2>2, LatestSilent
<1>7. PICK y : y = <<PromptMessage(j.role)>> \o p
  OBVIOUS
<1>8. y \in Seq(MessageType) /\ Flat(t, y) = Flat(t, p)
  BY <1>3, <1>4, <1>7, FrontSilent
<1>9. PICK m : m = IF s.functionCalling
                   THEN IF j.target = "last_user_message" THEN z ELSE y ELSE p
  OBVIOUS
<1>10. r = Sent(s.functionCalling, <<>>, m)
  BY <1>1, <1>5, <1>7, <1>9 DEF PrepareChat
<1>11. m \in Seq(MessageType) /\ Flat(t, m) = Flat(f, c)
  BY <1>3, <1>6, <1>8, <1>9
<1>12. Only(<<>>, Read) = <<>> /\ Heard("system", <<>>) = <<>> /\ <<>> \in Seq(PartType)
  BY OnlyEmpty, HeardEmpty
<1>13. Flat(t, m) \in Seq(HeardType)
  BY <1>4, <1>11, FlatType
<1>14. <<>> \o Flat(t, m) = Flat(t, m)
  BY <1>13, ConcatEmptySeq
<1>15. r.soft = s.functionCalling /\ r.system = <<>> /\ r.messages = m
  BY <1>10, SentIs
<1>16. r # Refused
  BY <1>10, SentIsNot
<1> QED BY <1>1, <1>2, <1>11, <1>12, <1>14, <1>15, <1>16 DEF RequestOK

LEMMA PromptedSystemIs ==
  ASSUME HistoryOK, NEW s, NEW protocol
  PROVE  /\ PromptedSystem(protocol, s) \in Seq(PartType)
         /\ Only(PromptedSystem(protocol, s), Read) = system
<1>1. system \in Seq(PartType) /\ Only(system, Read) = system
  BY SystemIs
<1>2. PICK u : u = <<Prompt>> \o system
  OBVIOUS
<1>3. u \in Seq(PartType)
  BY <1>1, <1>2, PromptIs
<1>4. Only(u, Read) = system
  <2>1. Only(u, Read) = Only(<<Prompt>>, Read) \o Only(system, Read)
    BY <1>1, <1>2, PromptIs, OnlyConcat
  <2>2. <<>> \o system = system
    BY <1>1, ConcatEmptySeq
  <2> QED BY <1>1, <2>1, <2>2, PromptIs
<1> QED BY <1>1, <1>2, <1>3, <1>4 DEF PromptedSystem

\* A message of parts that the upstream may be told of.
LEMMA SaidRead ==
  ASSUME NEW parts \in Seq(SaidPart)
  PROVE  /\ parts \in Seq(PartType) /\ Only(parts, Read) = parts /\ Only(parts, Said) = parts
         /\ ~ToChat => Only(parts, Heeded) = parts
<1>1. parts \in Seq(PartType) /\ \A i \in DOMAIN parts : parts[i].kind \in Said
  BY SaidPartType
<1>2. \A i \in DOMAIN parts : parts[i].kind \in Read
  BY <1>1 DEF Read
<1>3. ~ToChat => Heeded = Said
  BY DEF Heeded
<1> QED BY <1>1, <1>2, <1>3, OnlyAll

\* Parts that are written as they are, and those that are written as text.
LEMMA RenderedSame ==
  ASSUME NEW s, NEW parts \in Seq(SaidPart), NEW list \in Seq(PartType), Len(list) = Len(parts),
         \A i \in 1..Len(parts) : Rendered(s)[parts[i]] = list[i]
  PROVE  Map(Rendered(s), parts) = list
<1>1. PICK m : m = Map(Rendered(s), parts)
  OBVIOUS
<1>2. parts \in Seq(PartType)
  BY SaidPartType
<1>3. m \in Seq(PartType)
  BY <1>1, RenderedParts
<1>4. Len(m) = Len(parts) /\ \A i \in 1..Len(parts) : m[i] = Rendered(s)[parts[i]]
  BY <1>1, <1>2, MapElements
<1>5. \A i \in 1..Len(m) : m[i] = list[i]
  BY <1>4
<1> QED BY <1>1, <1>3, <1>4, <1>5, SeqEqual

\* Without soft tools, between like protocols, nothing is changed.
LEMMA SentAsIs ==
  ASSUME HistoryOK, ~ToChat, NEW s, ~s.functionCalling
  PROVE  Flat(Told(Read), history) = Flat(HeardOf(s), history)
<1>1. ASSUME NEW i \in DOMAIN history
      PROVE  Told(Read)[history[i]] = HeardOf(s)[history[i]]
  <2>1. PICK m, p : m = history[i] /\ p = m.parts
    OBVIOUS
  <2>2. m \in MessageType /\ p \in Seq(SaidPart)
    BY <2>1, HistoryIs
  <2>3. Later(m, s) = {}
    <3>1. path # "anthropic_chat"
      BY DEF ToChat
    <3> QED BY <3>1 DEF Later
  <2>4. HeardOf(s)[m] = Heard(Speaker(m), Map(Rendered(s), Only(p, Heeded)))
    BY <2>1, <2>2, <2>3, HeardOfPlain
  <2>5. Told(Read)[m] = Heard(Speaker(m), Only(p, Read))
    BY <2>1, <2>2, ToldIs
  <2>6. p \in Seq(PartType) /\ Only(p, Read) = p /\ Only(p, Heeded) = p
    BY <2>2, SaidRead
  <2>7. Map(Rendered(s), p) = p
    <3>1. ASSUME NEW k \in 1..Len(p)
          PROVE  Rendered(s)[p[k]] = p[k]
      <4>1. p[k] \in PartType
        BY <2>6
      <4> QED BY <4>1 DEF Rendered
    <3> QED BY <2>2, <2>6, <3>1, RenderedSame
  <2> QED BY <2>1, <2>4, <2>5, <2>6, <2>7
<1> QED BY <1>1, FlatSame

\* An item of the input as PreprocessInput leaves it.
InputItem == [m \in MessageType |-> IF m.type = "function_call_output"
                                    THEN Message("message", "user", Each(m.parts, ResultText)) ELSE m]
InputHeard == [m \in MessageType |-> Told(Read)[InputItem[m]]]

LEMMA InputItemIs ==
  ASSUME NEW m \in MessageType
  PROVE  /\ InputItem[m] \in MessageType
         /\ m.type # "function_call_output" => InputItem[m] = m
         /\ m.type = "function_call_output" =>
              /\ InputItem[m].type = "message" /\ InputItem[m].role = "user"
              /\ InputItem[m].parts = Each(m.parts, ResultText)
<1>1. PICK p, n : p = Each(m.parts, ResultText) /\ n = Message("message", "user", p)
  OBVIOUS
<1>2. m.parts \in Seq(PartType) /\ "message" \in Type /\ "user" \in Role
  BY RoleIs DEF MessageType
<1>3. p \in Seq(PartType)
  BY <1>1, <1>2, EachFormatted
<1>4. n \in MessageType /\ n.type = "message" /\ n.role = "user" /\ n.parts = p
  BY <1>1, <1>2, <1>3 DEF Message, MessageType
<1>5. InputItem[m] = IF m.type = "function_call_output" THEN n ELSE m
  BY <1>1 DEF InputItem
<1> QED BY <1>1, <1>4, <1>5

LEMMA InputHeardIs ==
  /\ Makes(InputItem, MessageType, MessageType)
  /\ Makes(InputHeard, MessageType, Seq(HeardType))
  /\ \A m \in MessageType : InputHeard[m] = Told(Read)[InputItem[m]]
  /\ \A m \in MessageType : m.type # "function_call_output" => InputHeard[Prompted(m)] = InputHeard[m]
  /\ \A role \in Role : InputHeard[PromptMessage(role)] = <<>>
<1>1. \A m \in MessageType : InputItem[m] \in MessageType
  BY InputItemIs
<1>2. \A m \in MessageType : InputHeard[m] = Told(Read)[InputItem[m]]
  BY DEF InputHeard
<1>3. ASSUME NEW m \in MessageType
      PROVE  InputHeard[m] \in Seq(HeardType)
  <2>1. PICK n : n = InputItem[m]
    OBVIOUS
  <2>2. Told(Read)[n] \in Seq(HeardType)
    BY <1>1, <2>1, ToldMakes DEF Makes
  <2> QED BY <1>2, <2>1, <2>2
<1>4. ASSUME NEW m \in MessageType, m.type # "function_call_output"
      PROVE  InputHeard[Prompted(m)] = InputHeard[m]
  <2>1. PICK n : n = Prompted(m)
    OBVIOUS
  <2>2. n \in MessageType /\ n.type # "function_call_output"
    BY <1>4, <2>1, PromptedIs
  <2>3. InputItem[n] = n /\ InputItem[m] = m
    BY <1>4, <2>2, InputItemIs
  <2>4. Told(Read)[n] = Told(Read)[m]
    BY <2>1, ToldPrompted
  <2> QED BY <1>2, <2>1, <2>2, <2>3, <2>4
<1>5. ASSUME NEW role \in Role
      PROVE  InputHeard[PromptMessage(role)] = <<>>
  <2>1. PICK n : n = PromptMessage(role)
    OBVIOUS
  <2>2. n \in MessageType /\ n.type = "message"
    BY <2>1, PromptMessageIs
  <2>3. InputItem[n] = n
    BY <2>2, InputItemIs
  <2> QED BY <1>2, <2>1, <2>2, <2>3, ToldMakes
<1> QED BY <1>1, <1>2, <1>3, <1>4, <1>5 DEF Makes

LEMMA PreprocessInputIs ==
  ASSUME NEW items \in Seq(MessageType)
  PROVE  /\ PreprocessInput(items) = Map(InputItem, items)
         /\ PreprocessInput(items) \in Seq(MessageType)
         /\ Flat(Told(Read), PreprocessInput(items)) = Flat(InputHeard, items)
<1>1. \A i \in DOMAIN items : items[i] \in MessageType
  OBVIOUS
<1>2. PreprocessInput(items) = Map(InputItem, items)
  BY <1>1 DEF PreprocessInput, Map, Each, InputItem
<1>3. Map(InputItem, items) \in Seq(MessageType)
  BY InputHeardIs, MapType
<1>4. \A i \in DOMAIN items : InputHeard[items[i]] = Told(Read)[InputItem[items[i]]]
  BY <1>1, InputHeardIs
<1>5. Flat(Told(Read), Map(InputItem, items)) = Flat(InputHeard, items)
  BY <1>4, FlatMap
<1> QED BY <1>2, <1>3, <1>5


LEMMA MaxIs ==
  ASSUME NEW n \in Nat, NEW T \in SUBSET (1..n), T # {}
  PROVE  Max(T) \in T /\ \A y \in T : Max(T) >= y
<1> DEFINE D == {n - x : x \in T}
<1>1. D \in SUBSET Nat /\ D # {}
  <2>1. \A x \in T : n - x \in Nat
    OBVIOUS
  <2> QED BY <2>1
<1>2. PICK d \in D : \A e \in D : d <= e
  BY <1>1, LeastNatural
<1>3. PICK x \in T : d = n - x
  BY <1>2
<1>4. \A y \in T : x >= y
  <2>1. ASSUME NEW y \in T
        PROVE  x >= y
    <3>1. n - y \in D
      OBVIOUS
    <3>2. n - x <= n - y
      BY <1>2, <1>3, <3>1
    <3> QED BY <3>2
  <2> QED BY <2>1
<1> QED BY <1>4 DEF Max

LastInput(items) ==
  SelectLastInSeq(items, LAMBDA item : item.type = "message" /\ item.role = "user")

IsInput(item) == item.type = "message" /\ item.role = "user"

LEMMA LastInputIs ==
  ASSUME NEW items \in Seq(MessageType)
  PROVE  \/ /\ LastInput(items) \in DOMAIN items /\ IsInput(items[LastInput(items)])
            /\ \A k \in DOMAIN items : IsInput(items[k]) => LastInput(items) >= k
         \/ LastInput(items) = 0 /\ \A k \in DOMAIN items : ~IsInput(items[k])
<1> DEFINE I == {i \in 1..Len(items) : IsInput(items[i])}
<1>1. LastInput(items) = IF I # {} THEN Max(I) ELSE 0
  BY DEF LastInput, SelectLastInSeq, IsInput
<1>2. Len(items) \in Nat /\ I \in SUBSET (1..Len(items)) /\ DOMAIN items = 1..Len(items)
  OBVIOUS
<1>3. I # {} => Max(I) \in I /\ \A y \in I : Max(I) >= y
  BY <1>2, MaxIs
<1> QED BY <1>1, <1>2, <1>3

LEMMA LastUserIs ==
  ASSUME NEW items \in Seq(MessageType)
  PROVE  \/ /\ LastUserMessageIndex(items) \in DOMAIN items
            /\ items[LastUserMessageIndex(items)].role = "user"
            /\ \A k \in DOMAIN items : items[k].role = "user" => LastUserMessageIndex(items) >= k
         \/ LastUserMessageIndex(items) = 0 /\ \A k \in DOMAIN items : items[k].role # "user"
<1> DEFINE I == {i \in 1..Len(items) : items[i].role = "user"}
<1>1. LastUserMessageIndex(items) = IF I # {} THEN Max(I) ELSE 0
  BY DEF LastUserMessageIndex, SelectLastInSeq
<1>2. Len(items) \in Nat /\ I \in SUBSET (1..Len(items)) /\ DOMAIN items = 1..Len(items)
  OBVIOUS
<1>3. I # {} => Max(I) \in I /\ \A y \in I : Max(I) >= y
  BY <1>2, MaxIs
<1> QED BY <1>1, <1>2, <1>3

\* What is heard of an item, with soft tools.
LEMMA ItemHeard ==
  ASSUME path = "responses", NEW s, s.functionCalling, NEW m \in MessageType, m.parts \in Seq(SaidPart),
         ResponsesForm(m)
  PROVE  InputHeard[m] = HeardOf(s)[m]
<1>1. PICK p, r, n : p = m.parts /\ r = Rendered(s) /\ n = InputItem[m]
  OBVIOUS
<1>2. p \in Seq(SaidPart) /\ p \in Seq(PartType) /\ Only(p, Read) = p
  BY <1>1, SaidRead
<1>3. ~ToChat /\ Later(m, s) = {}
  BY DEF ToChat, Later
<1>4. Only(p, Heeded) = p
  BY <1>2, <1>3, SaidRead
<1>5. HeardOf(s)[m] = Heard(Speaker(m), Map(r, p))
  BY <1>1, <1>3, <1>4, HeardOfPlain
<1>6. n \in MessageType /\ InputHeard[m] = Heard(Speaker(n), Only(n.parts, Read))
  BY <1>1, InputItemIs, InputHeardIs, ToldIs
<1>7. \A i \in 1..Len(p) : p[i] \in PartType /\ p[i].kind \in Said
  BY <1>2, SaidPartType
<1>8. CASE m.type = "function_call_output"
  <2>1. PICK e : e = Each(p, ResultText)
    OBVIOUS
  <2>2. e \in Seq(PartType) /\ Len(e) = Len(p) /\ \A i \in 1..Len(p) : e[i] = ResultText(p[i])
    BY <1>2, <2>1, EachFormatted
  <2>3. n.type = "message" /\ n.role = "user" /\ n.parts = e
    BY <1>1, <1>8, <2>1, InputItemIs
  <2>4. Speaker(m) = "user" /\ Speaker(n) = "user" /\ Of(m, Results)
    BY <1>8, <2>3 DEF Speaker, ResponsesForm
  <2>5. ASSUME NEW i \in 1..Len(p)
        PROVE  r[p[i]] = e[i]
    <3>1. PICK x : x = p[i]
      OBVIOUS
    <3>2. x \in PartType /\ x.kind \in Results
      BY <1>1, <1>7, <2>4, <3>1 DEF Of
    <3>3. IsResult(x) /\ x.kind \in Said /\ x.kind # "call"
      BY <3>2 DEF IsResult, Said, Results
    <3>4. Formatted(x) = ResultText(x)
      BY <3>3 DEF Formatted, IsCall
    <3>5. r[x] = Formatted(x)
      BY <1>1, <3>2, <3>3 DEF Rendered
    <3> QED BY <2>2, <3>1, <3>4, <3>5
  <2>6. Map(r, p) = e
    BY <1>1, <1>2, <2>2, <2>5, RenderedSame
  <2>7. Only(e, Read) = e
    <3>1. \A i \in DOMAIN e : e[i].kind \in Read
      <4>1. ASSUME NEW i \in DOMAIN e
            PROVE  e[i].kind \in Read
        <5>1. i \in 1..Len(p) /\ e[i] = ResultText(p[i]) /\ p[i] \in PartType
          BY <1>7, <2>2
        <5>2. e[i].kind = "result_text"
          BY <5>1, FormattedType
        <5> QED BY <5>2 DEF Read, Written
      <4> QED BY <4>1
    <3> QED BY <2>2, <3>1, OnlyAll
  <2> QED BY <1>5, <1>6, <2>3, <2>4, <2>6, <2>7
<1>9. CASE m.type # "function_call_output"
  <2>1. n = m
    BY <1>1, <1>9, InputItemIs
  <2>2. \A i \in DOMAIN p : p[i].kind \in {"text", "call"}
    BY <1>1, <1>9 DEF ResponsesForm, Of
  <2>3. ASSUME NEW i \in 1..Len(p)
        PROVE  r[p[i]] = p[i]
    <3>1. PICK x : x = p[i]
      OBVIOUS
    <3>2. x \in PartType /\ x.kind \in {"text", "call"}
      BY <1>2, <1>7, <2>2, <3>1
    <3>3. x.kind = "text" => r[x] = x
      BY <1>1, <3>2, RenderedType
    <3>4. x.kind = "call" => r[x] = x
      BY <1>1, <3>2 DEF Rendered
    <3> QED BY <3>1, <3>2, <3>3, <3>4
  <2>4. Map(r, p) = p
    BY <1>1, <1>2, <2>3, RenderedSame
  <2> QED BY <1>1, <1>2, <1>5, <1>6, <2>1, <2>4
<1> QED BY <1>8, <1>9

LEMMA ResponsesRequest ==
  ASSUME HistoryOK, path = "responses", NEW s \in Setting
  PROVE  RequestOK(PrepareResponses(s), s)
<1>1. PICK t, h, v, r : /\ t = Told(Read) /\ h = HeardOf(s) /\ v = InputHeard
                        /\ r = PrepareResponses(s)
  OBVIOUS
<1>2. history \in Seq(MessageType) /\ ~ToChat
  BY HistoryIs DEF ToChat
<1>3. system \in Seq(PartType) /\ Only(system, Read) = system
  BY SystemIs
<1>4. CASE ~s.functionCalling
  <2>1. r = Sent(FALSE, system, history)
    BY <1>1, <1>4 DEF PrepareResponses
  <2>2. r # Refused /\ r.soft = FALSE /\ r.system = system /\ r.messages = history
    <3>1. r # Refused
      BY <2>1, SentIsNot
    <3> QED BY <2>1, <3>1 DEF Sent
  <2>3. s.functionCalling = FALSE
    BY <1>4, SettingAssumption
  <2>4. Flat(t, history) = Flat(h, history)
    BY <1>1, <1>2, <1>4, SentAsIs
  <2> QED BY <1>1, <1>2, <1>3, <2>2, <2>3, <2>4 DEF RequestOK
<1>5. CASE s.functionCalling
  <2>1. PICK j, k, u, z, y, a : /\ j = ResolvePromptInjection("responses", s) /\ k = LastInput(history)
                                /\ z = IntoLatest(history, k)
                                /\ y = <<PromptMessage(j.role)>> \o history
                                /\ a = InjectInput(history, s) /\ u = PromptedSystem("responses", s)
    OBVIOUS
  <2>2. Makes(v, MessageType, Seq(HeardType)) /\ v[PromptMessage("user")] = <<>>
        /\ j.role \in Role /\ v[PromptMessage(j.role)] = <<>>
    BY <1>1, <2>1, InputHeardIs, RoleIs, InjectionIs
  <2>3. z \in Seq(MessageType) /\ Flat(v, z) = Flat(v, history)
    <3>1. ASSUME k \in DOMAIN history
          PROVE  v[Prompted(history[k])] = v[history[k]]
      <4>1. IsInput(history[k])
        BY <1>2, <2>1, <3>1, LastInputIs
      <4>2. history[k] \in MessageType /\ history[k].type # "function_call_output"
        BY <1>2, <3>1, <4>1 DEF IsInput
      <4> QED BY <1>1, <4>2, InputHeardIs
    <3> QED BY <1>2, <2>1, <2>2, <3>1, LatestSilent
  <2>4. y \in Seq(MessageType) /\ Flat(v, y) = Flat(v, history)
    BY <1>2, <2>1, <2>2, FrontSilent
  <2>5. a = z \/ a = y \/ a = history
    <3>1. a = CASE j.target = "last_user_message" -> z
                [] j.target = "message" -> y
                [] OTHER -> history
      BY <2>1 DEF InjectInput, LastInput
    <3> QED BY <3>1
  <2>6. a \in Seq(MessageType) /\ Flat(v, a) = Flat(v, history)
    BY <1>2, <2>3, <2>4, <2>5
  <2>7. PICK b : b = PreprocessInput(a)
    OBVIOUS
  <2>8. b \in Seq(MessageType) /\ Flat(t, b) = Flat(v, a)
    BY <1>1, <2>6, <2>7, PreprocessInputIs
  <2>9. Flat(v, history) = Flat(h, history)
    <3>1. ASSUME NEW i \in DOMAIN history
          PROVE  v[history[i]] = h[history[i]]
      <4>1. PICK m : m = history[i]
        OBVIOUS
      <4>2. m \in MessageType /\ WellFormed(m) /\ m.parts \in Seq(SaidPart)
        BY <4>1, HistoryIs
      <4>3. ResponsesForm(m)
        BY <4>2 DEF WellFormed, ViaResponses
      <4> QED BY <1>1, <1>5, <4>1, <4>2, <4>3, ItemHeard
    <3> QED BY <3>1, FlatSame
  <2>10. r = Sent(TRUE, u, b)
    BY <1>1, <1>5, <2>1, <2>7 DEF PrepareResponses
  <2>11. r # Refused /\ r.soft = TRUE /\ r.system = u /\ r.messages = b
    <3>1. r # Refused
      BY <2>10, SentIsNot
    <3> QED BY <2>10, <3>1 DEF Sent
  <2>12. u \in Seq(PartType) /\ Only(u, Read) = system
    BY <2>1, PromptedSystemIs
  <2>13. s.functionCalling = TRUE
    BY <1>5, SettingAssumption
  <2> QED BY <1>1, <2>6, <2>8, <2>9, <2>11, <2>12, <2>13 DEF RequestOK
<1> QED BY <1>4, <1>5

\* The messages of the Anthropic protocol.
Blocked == [m \in MessageType |-> PreprocessBlocks(m)]

LEMMA BlockedIs ==
  ASSUME NEW m \in MessageType
  PROVE  /\ Blocked[m] \in MessageType /\ Blocked[m] = PreprocessBlocks(m)
         /\ Blocked[m].type = m.type /\ Blocked[m].role = m.role
         /\ Speaker(Blocked[m]) = Speaker(m)
         /\ Blocked[m].parts
              = Each(Only(m.parts, Said \ {"call"}) \o Only(m.parts, {"call"}), Formatted)
<1>1. PICK p, n, e : /\ p = Only(m.parts, Said \ {"call"}) \o Only(m.parts, {"call"})
                     /\ n = PreprocessBlocks(m) /\ e = Each(p, Formatted)
  OBVIOUS
<1>2. p \in Seq(PartType)
  <2>1. m.parts \in Seq(PartType)
    BY DEF MessageType
  <2>2. Only(m.parts, Said \ {"call"}) \in Seq(PartType) /\ Only(m.parts, {"call"}) \in Seq(PartType)
    BY <2>1, OnlyType
  <2> QED BY <1>1, <2>2
<1>3. e \in Seq(PartType)
  BY <1>1, <1>2, EachFormatted
<1>4. n = [m EXCEPT !.parts = e]
  BY <1>1 DEF PreprocessBlocks
<1>5. n \in MessageType /\ n.type = m.type /\ n.role = m.role /\ n.parts = e
  BY <1>3, <1>4 DEF MessageType
<1>6. Speaker(n) = Speaker(m)
  BY <1>5 DEF Speaker
<1>7. Blocked[m] = n
  BY <1>1 DEF Blocked
<1> QED BY <1>1, <1>5, <1>6, <1>7

LEMMA BlockHeard ==
  ASSUME path = "anthropic", NEW s, s.functionCalling, NEW m \in MessageType, m.parts \in Seq(SaidPart)
  PROVE  Told(Read)[Blocked[m]] = HeardOf(s)[m]
<1>1. PICK p, q, e, r, n : /\ p = m.parts /\ q = Only(p, Said \ {"call"}) \o Only(p, {"call"})
                           /\ e = Each(q, Formatted) /\ r = Rendered(s) /\ n = Blocked[m]
  OBVIOUS
<1>2. p \in Seq(SaidPart) /\ p \in Seq(PartType) /\ Only(p, Said) = p
  BY <1>1, SaidRead
<1>3. ~ToChat /\ Later(m, s) = {"call"}
  BY DEF ToChat, Later
<1>4. Only(p, Heeded) = p
  BY <1>2, <1>3, SaidRead
<1>5. HeardOf(s)[m] = Heard(Speaker(m), Map(r, q))
  BY <1>1, <1>3, <1>4 DEF HeardOf
<1>6. q \in Seq(SaidPart) /\ q \in Seq(PartType)
  <2>1. PICK a, b : a = Only(p, Said \ {"call"}) /\ b = Only(p, {"call"})
    OBVIOUS
  <2>2. a \in Seq(SaidPart) /\ b \in Seq(SaidPart) /\ a \in Seq(PartType) /\ b \in Seq(PartType)
    BY <1>2, <2>1, OnlySaid
  <2> QED BY <1>1, <2>1, <2>2
<1>7. e \in Seq(PartType) /\ Len(e) = Len(q) /\ \A i \in 1..Len(q) : e[i] = Formatted(q[i])
  BY <1>1, <1>6, EachFormatted
<1>8. \A i \in 1..Len(q) : q[i] \in PartType /\ q[i].kind \in Said
  BY <1>6, SaidPartType
<1>9. \A i \in 1..Len(q) : r[q[i]] = e[i]
  <2>1. ASSUME NEW i \in 1..Len(q)
        PROVE  r[q[i]] = e[i]
    <3>1. PICK x : x = q[i]
      OBVIOUS
    <3>2. x \in PartType /\ x.kind \in Said /\ e[i] = Formatted(x)
      BY <1>7, <1>8, <3>1
    <3>3. r[x] = Formatted(x)
      BY <1>1, <3>2 DEF Rendered
    <3> QED BY <3>1, <3>2, <3>3
  <2> QED BY <2>1
<1>10. Map(r, q) = e
  <2>1. /\ q \in Seq(SaidPart) /\ e \in Seq(PartType) /\ Len(e) = Len(q)
        /\ \A i \in 1..Len(q) : Rendered(s)[q[i]] = e[i]
    BY <1>1, <1>6, <1>7, <1>9
  <2>2. Map(Rendered(s), q) = e
    BY <2>1, RenderedSame
  <2> QED BY <1>1, <2>2
<1>11. Only(e, Read) = e
  <2>1. Only(Map(r, q), Read) = Map(r, q)
    BY <1>1, <1>6, RenderedParts
  <2> QED BY <1>10, <2>1
<1>12. n \in MessageType /\ Speaker(n) = Speaker(m) /\ n.parts = e
  BY <1>1, BlockedIs
<1>13. Told(Read)[n] = Heard(Speaker(n), Only(n.parts, Read))
  BY <1>12, ToldIs
<1> QED BY <1>1, <1>5, <1>10, <1>11, <1>12, <1>13

LEMMA AnthropicRequest ==
  ASSUME HistoryOK, path = "anthropic", NEW s \in Setting
  PROVE  RequestOK(PrepareAnthropic(s), s)
<1>1. PICK t, h, r : t = Told(Read) /\ h = HeardOf(s) /\ r = PrepareAnthropic(s)
  OBVIOUS
<1>2. history \in Seq(MessageType) /\ ~ToChat
  BY HistoryIs DEF ToChat
<1>3. system \in Seq(PartType) /\ Only(system, Read) = system
  BY SystemIs
<1>4. CASE ~s.functionCalling
  <2>1. r = Sent(FALSE, system, history)
    BY <1>1, <1>4 DEF PrepareAnthropic
  <2>2. r # Refused /\ r.soft = FALSE /\ r.system = system /\ r.messages = history
    <3>1. r # Refused
      BY <2>1, SentIsNot
    <3> QED BY <2>1, <3>1 DEF Sent
  <2>3. s.functionCalling = FALSE
    BY <1>4, SettingAssumption
  <2>4. Flat(t, history) = Flat(h, history)
    BY <1>1, <1>2, <1>4, SentAsIs
  <2> QED BY <1>1, <1>2, <1>3, <2>2, <2>3, <2>4 DEF RequestOK
<1>5. CASE s.functionCalling
  <2>1. PICK j, k, u, z, y, p, b :
          /\ j = ResolvePromptInjection("anthropic", s) /\ k = LastUserMessageIndex(history)
          /\ p = Map(Blocked, history) /\ z = IntoLatest(p, k)
          /\ y = <<PromptMessage(j.role)>> \o p /\ u = PromptedSystem("anthropic", s)
          /\ b = CASE j.target = "last_user_message" -> z
                   [] j.target = "message" -> y
                   [] OTHER -> p
    OBVIOUS
  <2>2. Makes(t, MessageType, Seq(HeardType)) /\ t[PromptMessage("user")] = <<>>
        /\ j.role \in Role /\ t[PromptMessage(j.role)] = <<>>
    BY <1>1, <2>1, ToldMakes, RoleIs, InjectionIs
  <2>3. p \in Seq(MessageType) /\ p = Each(history, PreprocessBlocks)
    <3>1. Makes(Blocked, MessageType, MessageType)
      BY BlockedIs DEF Makes
    <3>2. p \in Seq(MessageType)
      BY <1>2, <2>1, <3>1, MapType
    <3>3. \A i \in DOMAIN history : Blocked[history[i]] = PreprocessBlocks(history[i])
      BY <1>2 DEF Blocked
    <3> QED BY <2>1, <3>2, <3>3 DEF Map, Each
  <2>4. z \in Seq(MessageType) /\ Flat(t, z) = Flat(t, p)
    <3>1. k \in DOMAIN p => t[Prompted(p[k])] = t[p[k]]
      BY <1>1, <2>3, ToldPrompted
    <3> QED BY <2>1, <2>2, <2>3, <3>1, LatestSilent
  <2>5. y \in Seq(MessageType) /\ Flat(t, y) = Flat(t, p)
    BY <2>1, <2>2, <2>3, FrontSilent
  <2>6. b \in Seq(MessageType) /\ Flat(t, b) = Flat(t, p)
    <3>1. b = z \/ b = y \/ b = p
      BY <2>1
    <3> QED BY <2>3, <2>4, <2>5, <3>1
  <2>7. Flat(t, p) = Flat(h, history)
    <3>1. ASSUME NEW i \in DOMAIN history
          PROVE  h[history[i]] = t[Blocked[history[i]]]
      <4>1. PICK m : m = history[i]
        OBVIOUS
      <4>2. m \in MessageType /\ m.parts \in Seq(SaidPart)
        BY <4>1, HistoryIs
      <4> QED BY <1>1, <1>5, <4>1, <4>2, BlockHeard
    <3> QED BY <2>1, <3>1, FlatMap
  <2>8. r = Sent(TRUE, u, b)
    BY <1>1, <1>5, <2>1, <2>3 DEF PrepareAnthropic
  <2>9. r # Refused /\ r.soft = TRUE /\ r.system = u /\ r.messages = b
    <3>1. r # Refused
      BY <2>8, SentIsNot
    <3> QED BY <2>8, <3>1 DEF Sent
  <2>10. u \in Seq(PartType) /\ Only(u, Read) = system
    BY <2>1, PromptedSystemIs
  <2>11. s.functionCalling = TRUE
    BY <1>5, SettingAssumption
  <2> QED BY <1>1, <2>6, <2>7, <2>9, <2>10, <2>11 DEF RequestOK
<1> QED BY <1>4, <1>5

\* Every request that is sent is read as all that was said.
LEMMA EveryRequest ==
  ASSUME HistoryOK, ~Unsupported, NEW s \in Setting
  PROVE  RequestOK(Prepare(s), s)
<1>1. CASE path = "chat"
  <2>1. Prepare(s) = PrepareChat(ChatMessages, s)
    BY <1>1 DEF Prepare, ChatMessages
  <2> QED BY <1>1, <2>1, ChatRequest DEF ToChat
<1>2. CASE path = "responses_chat"
  <2>1. Prepare(s) = PrepareChat(ChatMessages, s)
    BY <1>2 DEF Prepare, ChatMessages
  <2> QED BY <1>2, <2>1, ChatRequest DEF ToChat
<1>3. CASE path = "anthropic_chat"
  <2>1. Prepare(s) = PrepareChat(ChatMessages, s)
    BY <1>3 DEF Prepare, ChatMessages
  <2> QED BY <1>3, <2>1, ChatRequest DEF ToChat
<1>4. CASE path = "responses"
  <2>1. Prepare(s) = PrepareResponses(s)
    BY <1>4 DEF Prepare
  <2> QED BY <1>4, <2>1, ResponsesRequest
<1>5. CASE path = "anthropic"
  <2>1. Prepare(s) = PrepareAnthropic(s)
    BY <1>5 DEF Prepare
  <2> QED BY <1>5, <2>1, AnthropicRequest
<1> QED BY <1>1, <1>2, <1>3, <1>4, <1>5 DEF HistoryOK

LEMMA RenderingIs ==
  ASSUME NEW s, request.soft = s.functionCalling, NEW x \in PartType
  PROVE  Rendering(x) = Rendered(s)[x]
<1>1. x.kind \notin Said => Formatted(x) = x
  BY DEF Formatted, IsResult, IsCall, Said
<1>2. Rendered(s)[x] = IF \/ x.kind \notin Said
                          \/ ~s.functionCalling /\ ~ToChat
                          \/ x.kind = "call" /\ path = "responses"
                       THEN x ELSE Formatted(x)
  BY DEF Rendered
<1>3. Rendering(x) = IF (~s.functionCalling /\ ~ToChat) \/ (x.kind = "call" /\ path = "responses")
                     THEN x ELSE Formatted(x)
  BY DEF Rendering, IsCall
<1> QED BY <1>1, <1>2, <1>3

\* All that was said is heard by the upstream.
LEMMA AllReaches ==
  ASSUME HistoryOK, NEW s, RequestOK(request, s)
  PROVE  Reaches(Rendered(s), Spoken(system, history, Heeded),
                 Map(Bare, Spoken(request.system, request.messages, Read)))
<1>1. PICK r, a, b, c, d : /\ r = Rendered(s)
                           /\ a = Block(0, "system", Only(system, Heeded)) /\ b = Heard("system", system)
                           /\ c = FlattenSeq(Blocks(history, Heeded)) /\ d = Flat(HeardOf(s), history)
  OBVIOUS
<1>2. history \in Seq(MessageType) /\ system \in Seq(SaidPart) /\ system \in Seq(PartType)
  BY HistoryIs, SystemIs
<1>3. Makes(HeardOf(s), MessageType, Seq(HeardType))
  BY HeardOfIs
<1>4. a \in Seq(Entry) /\ b \in Seq(HeardType) /\ Reaches(r, a, b)
  <2>1. \A i \in DOMAIN system : system[i].kind = "text"
    BY DEF HistoryOK
  <2> QED BY <1>1, <1>2, <2>1, SystemReaches
<1>5. c \in Seq(Entry) /\ d \in Seq(HeardType)
  BY <1>1, <1>2, <1>3, SaidType, FlatType
<1>6. Reaches(r, c, d)
  <2>1. ASSUME NEW i \in 1..Len(history)
        PROVE  Reaches(r, Block(i, Speaker(history[i]), Only(history[i].parts, Heeded)),
                       HeardOf(s)[history[i]])
    <3>1. PICK m : m = history[i]
      OBVIOUS
    <3>2. m \in MessageType /\ i \in Nat
      BY <1>2, <3>1
    <3> QED BY <1>1, <3>1, <3>2, HeardOfIs
  <2> QED BY <1>1, <1>2, <1>3, <2>1, ReachesAll
<1>7. Spoken(system, history, Heeded) = a \o c
  BY <1>1, <1>2, SpokenType
<1>8. Map(Bare, Spoken(request.system, request.messages, Read)) = b \o d
  <2>1. request.system \in Seq(PartType) /\ request.messages \in Seq(MessageType)
    BY DEF RequestOK
  <2>2. Map(Bare, Spoken(request.system, request.messages, Read))
          = Heard("system", Only(request.system, Read)) \o Flat(Told(Read), request.messages)
    BY <2>1, BareSpoken
  <2> QED BY <1>1, <2>2 DEF RequestOK
<1>9. Reaches(r, a \o c, b \o d)
  BY <1>4, <1>5, <1>6, ReachesConcat
<1> QED BY <1>1, <1>7, <1>8, <1>9

LEMMA UpstreamReads ==
  ASSUME TypeOK, HistoryOK, NEW s, RequestOK(request, s)
  PROVE  HistoryReaches
<1>1. PICK said, read, r, h : /\ said = Spoken(system, history, Heeded)
                              /\ read = Spoken(request.system, request.messages, Read)
                              /\ r = Rendered(s) /\ h = Map(Bare, read)
  OBVIOUS
<1>2. said \in Seq(Entry) /\ read \in Seq(Entry)
  <2>1. history \in Seq(MessageType) /\ system \in Seq(PartType)
    BY HistoryIs, SystemIs
  <2>2. request.system \in Seq(PartType) /\ request.messages \in Seq(MessageType)
    BY DEF RequestOK
  <2> QED BY <1>1, <2>1, <2>2, SpokenType
<1>3. Reaches(r, said, h)
  BY <1>1, AllReaches
<1>4. Len(h) = Len(read) /\ \A j \in 1..Len(read) : h[j] = Bare[read[j]]
  BY <1>1, <1>2, MapElements
<1>5. /\ DOMAIN said = 1..Len(said) /\ DOMAIN read = 1..Len(read) /\ Len(read) \in Nat
      /\ Len(said) \in Nat
      /\ \A i \in 1..Len(said) : said[i] \in Entry
      /\ \A j \in 1..Len(read) : read[j] \in Entry
  BY <1>2
<1>6. \A j \in 1..Len(read) : h[j].part = read[j].part /\ h[j].by = read[j].by
  <2>1. \A e \in Entry : Bare[e] = [by |-> e.by, part |-> e.part]
    BY DEF Bare
  <2>2. ASSUME NEW j \in 1..Len(read)
        PROVE  h[j].part = read[j].part /\ h[j].by = read[j].by
    <3>1. PICK e : e = read[j]
      OBVIOUS
    <3>2. e \in Entry /\ h[j] = [by |-> e.by, part |-> e.part]
      BY <1>4, <1>5, <2>1, <3>1
    <3> QED BY <3>1, <3>2
  <2> QED BY <2>2
<1>7. ASSUME NEW i \in 1..Len(said)
      PROVE  Rendering(said[i].part) = r[said[i].part]
  <2>1. said[i].part \in PartType
    BY <1>5 DEF Entry
  <2> QED BY <1>1, <2>1, RenderingIs DEF RequestOK
<1>8. ASSUME NEW i \in 1..Len(said), NEW j \in 1..Len(read), Carries(r, said[i], h[j])
      PROVE  read[j].part = Rendering(said[i].part) /\ read[j].by = said[i].by
  BY <1>6, <1>7, <1>8 DEF Carries
<1>9. Len(read) = Len(said)
  BY <1>3, <1>4 DEF Reaches
<1>10. ASSUME NEW i \in DOMAIN said
       PROVE  \E j \in DOMAIN read :
                /\ read[j].part = Rendering(said[i].part) /\ read[j].by = said[i].by
                /\ \A k \in 1..(i - 1) :
                     said[k].at < said[i].at \/ said[k].part.kind = said[i].part.kind =>
                       \E l \in 1..(j - 1) :
                         read[l].part = Rendering(said[k].part) /\ read[l].by = said[k].by
  <2>1. i \in 1..Len(said)
    BY <1>5
  <2>2. PICK j \in 1..Len(h) : /\ Carries(r, said[i], h[j])
                               /\ \A k \in 1..(i - 1) :
                                    said[k].at < said[i].at \/ said[k].part.kind = said[i].part.kind =>
                                      \E l \in 1..(j - 1) : Carries(r, said[k], h[l])
    BY <1>3, <2>1 DEF Reaches
  <2>3. j \in 1..Len(read)
    BY <1>4
  <2>4. ASSUME NEW k \in 1..(i - 1),
               said[k].at < said[i].at \/ said[k].part.kind = said[i].part.kind
        PROVE  \E l \in 1..(j - 1) :
                 read[l].part = Rendering(said[k].part) /\ read[l].by = said[k].by
    <3>1. PICK l \in 1..(j - 1) : Carries(r, said[k], h[l])
      BY <2>2, <2>4
    <3>2. k \in 1..Len(said) /\ l \in 1..Len(read)
      BY <1>5, <2>1, <2>3
    <3> QED BY <1>8, <3>1, <3>2
  <2> QED BY <1>5, <1>8, <2>1, <2>2, <2>3, <2>4
<1> DEFINE Reached(u, v) ==
             \A i \in DOMAIN u : \E j \in DOMAIN v :
               /\ v[j].part = Rendering(u[i].part) /\ v[j].by = u[i].by
               /\ \A k \in 1..(i - 1) :
                    u[k].at < u[i].at \/ u[k].part.kind = u[i].part.kind =>
                      \E l \in 1..(j - 1) : v[l].part = Rendering(u[k].part) /\ v[l].by = u[k].by
<1>11. Reached(said, read)
  BY <1>10
<1>12. HistoryReaches
         <=> /\ TypeOK
             /\ pc = "upstream" =>
                  LET u == Spoken(system, history, IF ToChat THEN Said \ {"empty"} ELSE Said)
                      v == Spoken(request.system, request.messages, Said \union Written)
                  IN  Len(v) = Len(u) /\ Reached(u, v)
  BY DEF HistoryReaches
<1>13. /\ said = Spoken(system, history, IF ToChat THEN Said \ {"empty"} ELSE Said)
       /\ read = Spoken(request.system, request.messages, Said \union Written)
  BY <1>1 DEF Heeded, Read
<1> HIDE DEF Reached
<1> QED BY <1>9, <1>11, <1>12, <1>13

-----------------------------------------------------------------------------
(* The calls of the history *)

Parts == [m \in MessageType |-> m.parts]
Numbers(messages) == {part.n : part \in Range(CallsOf(messages))}

LEMMA PartsIs ==
  ASSUME NEW messages \in Seq(MessageType)
  PROVE  /\ Makes(Parts, MessageType, Seq(PartType))
         /\ PartsOf(messages) = Flat(Parts, messages) /\ PartsOf(messages) \in Seq(PartType)
         /\ CallsOf(messages) \in Seq(PartType)
<1>1. \A i \in DOMAIN messages : messages[i] \in MessageType
  OBVIOUS
<1>2. PartsOf(messages) = Flat(Parts, messages)
  BY <1>1 DEF PartsOf, Each, Flat, Map, Parts
<1>3. Makes(Parts, MessageType, Seq(PartType))
  BY DEF Parts, Makes, MessageType
<1>4. Flat(Parts, messages) \in Seq(PartType)
  BY <1>3, FlatType
<1>5. CallsOf(messages) \in Seq(PartType)
  BY <1>2, <1>4, OnlyType DEF CallsOf
<1> QED BY <1>2, <1>3, <1>4, <1>5

LEMMA PartsConcat ==
  ASSUME NEW a \in Seq(MessageType), NEW b \in Seq(MessageType)
  PROVE  PartsOf(a \o b) = PartsOf(a) \o PartsOf(b)
<1>1. a \o b \in Seq(MessageType)
  OBVIOUS
<1>2. PartsOf(a) = Flat(Parts, a) /\ PartsOf(b) = Flat(Parts, b) /\ PartsOf(a \o b) = Flat(Parts, a \o b)
  BY <1>1, PartsIs
<1>3. Makes(Parts, MessageType, Seq(PartType))
  BY PartsIs
<1>4. Flat(Parts, a \o b) = Flat(Parts, a) \o Flat(Parts, b)
  BY <1>3, FlatConcat
<1> QED BY <1>2, <1>4

\* The numbers of the calls are those of the parts that are calls.
LEMMA NumbersAre ==
  ASSUME NEW messages \in Seq(MessageType)
  PROVE  /\ \A x : (\E i \in DOMAIN PartsOf(messages) : PartsOf(messages)[i] = x) /\ x.kind = "call"
                     => x.n \in Numbers(messages)
         /\ Numbers(messages) \in SUBSET Nat /\ IsFiniteSet(Numbers(messages))
<1>1. PICK p, q : p = PartsOf(messages) /\ q = CallsOf(messages)
  OBVIOUS
<1>2. p \in Seq(PartType) /\ q \in Seq(PartType) /\ q = Only(p, {"call"})
  BY <1>1, PartsIs DEF CallsOf
<1>3. Numbers(messages) = {q[i].n : i \in 1..Len(q)}
  BY <1>1, <1>2 DEF Numbers, Range
<1>4. ASSUME NEW i \in DOMAIN p, p[i].kind = "call"
      PROVE  p[i].n \in Numbers(messages)
  <2>1. PICK c : c = {"call"}
    OBVIOUS
  <2>2. p[i].kind \in c
    BY <1>4, <2>1
  <2>3. \E j \in DOMAIN Only(p, c) : Only(p, c)[j] = p[i]
    <3>1. \A h \in DOMAIN p : p[h].kind \in c =>
            \E j \in DOMAIN Only(p, c) :
              /\ Only(p, c)[j] = p[h]
              /\ \A k \in 1..(h - 1) : p[k].kind \in c =>
                   \E l \in 1..(j - 1) : Only(p, c)[l] = p[k]
      <4>1. p \in Seq(PartType)
        BY <1>2
      <4> QED BY <4>1, OnlyOrder
    <3> QED BY <2>2, <3>1
  <2>4. PICK j \in DOMAIN q : q[j] = p[i]
    BY <1>2, <2>1, <2>3
  <2>5. j \in 1..Len(q)
    BY <1>2
  <2> QED BY <1>3, <2>4, <2>5
<1>5. \A i \in 1..Len(q) : q[i].n \in Nat
  <2>1. ASSUME NEW i \in 1..Len(q)
        PROVE  q[i].n \in Nat
    <3>1. q[i] \in PartType
      BY <1>2
    <3> QED BY <3>1 DEF PartType
  <2> QED BY <2>1
<1>6. IsFiniteSet(Numbers(messages))
  <2>1. Len(q) \in Nat /\ IsFiniteSet(1..Len(q))
    BY <1>2, FS_Interval
  <2>2. IsFiniteSet({q[i].n : i \in 1..Len(q)})
    <3>1. PICK f, D, T : D = 1..Len(q) /\ T = {q[i].n : i \in D} /\ f = [i \in D |-> q[i].n]
      OBVIOUS
    <3>2. f \in Surjection(D, T)
      BY <3>1 DEF Surjection
    <3>3. IsFiniteSet(T)
      <4>1. IsFiniteSet(D)
        BY <2>1, <3>1
      <4> QED BY <3>2, <4>1, FS_Surjection
    <3> QED BY <3>1, <3>3
  <2> QED BY <1>3, <2>2
<1> QED BY <1>1, <1>3, <1>4, <1>5, <1>6

LEMMA NumbersGrow ==
  ASSUME NEW a \in Seq(MessageType), NEW b \in Seq(MessageType)
  PROVE  /\ Numbers(a) \subseteq Numbers(a \o b) /\ Numbers(b) \subseteq Numbers(a \o b)
<1>1. PICK p, q, r : p = CallsOf(a) /\ q = CallsOf(b) /\ r = p \o q
  OBVIOUS
<1>2. p \in Seq(PartType) /\ q \in Seq(PartType)
  BY <1>1, PartsIs
<1>3. CallsOf(a \o b) = r
  <2>1. PICK u, v : u = PartsOf(a) /\ v = PartsOf(b)
    OBVIOUS
  <2>2. u \in Seq(PartType) /\ v \in Seq(PartType) /\ PartsOf(a \o b) = u \o v
    BY <2>1, PartsIs, PartsConcat
  <2>3. Only(u \o v, {"call"}) = Only(u, {"call"}) \o Only(v, {"call"})
    BY <2>2, OnlyConcat
  <2> QED BY <1>1, <2>1, <2>2, <2>3 DEF CallsOf
<1>4. /\ r \in Seq(PartType) /\ Len(r) = Len(p) + Len(q) /\ Len(p) \in Nat /\ Len(q) \in Nat
      /\ \A i \in 1..Len(p) + Len(q) : r[i] = IF i <= Len(p) THEN p[i] ELSE q[i - Len(p)]
  BY <1>1, <1>2, ConcatProperties
<1>5. ASSUME NEW i \in DOMAIN p
      PROVE  i \in DOMAIN r /\ r[i] = p[i]
  BY <1>2, <1>4
<1>6. ASSUME NEW i \in DOMAIN q
      PROVE  i + Len(p) \in DOMAIN r /\ r[i + Len(p)] = q[i]
  <2>1. i \in 1..Len(q)
    BY <1>2
  <2>2. i + Len(p) \in 1..Len(p) + Len(q) /\ ~(i + Len(p) <= Len(p)) /\ i + Len(p) - Len(p) = i
    BY <1>4, <2>1
  <2> QED BY <1>4, <2>2
<1>7. Range(p) \subseteq Range(r) /\ Range(q) \subseteq Range(r)
  BY <1>5, <1>6 DEF Range
<1> QED BY <1>1, <1>3, <1>7 DEF Numbers

LEMMA NoNumbers == Numbers(<<>>) = {}
<1>1. PartsOf(<<>>) = <<>>
  <2>1. <<>> \in Seq(MessageType)
    OBVIOUS
  <2> QED BY <2>1, PartsIs, FlatEmpty
<1>2. CallsOf(<<>>) = <<>>
  BY <1>1, OnlyEmpty DEF CallsOf
<1>3. Range(<<>>) = {}
  BY DEF Range
<1> QED BY <1>2, <1>3 DEF Numbers

-----------------------------------------------------------------------------
(* The inductive invariant *)

\* A conversation opens with text, so that no request is empty.
OpensWithText(messages) ==
  messages # <<>> => Len(messages[1].parts) = 1 /\ messages[1].parts[1].kind = "text"

IInv ==
  /\ HistoryOK /\ OpensWithText(history)
  /\ path \in Path /\ pc \in {"client", "proxy", "upstream", "refused"} /\ turns \in 0..MaxTurns
  /\ pending \subseteq Numbers(history) /\ known \subseteq Numbers(history)
  /\ pc # "client" => history # <<>>
  /\ pc \in {"client", "proxy"} => request = Nothing /\ madeWith = None
  /\ pc = "refused" => request = Refused /\ madeWith \in Setting
  /\ pc = "upstream" => madeWith \in Setting /\ ~Unsupported /\ request = Prepare(madeWith)

\* What is prepared depends on the conversation and the store, and on nothing else.
LEMMA SameRequest ==
  ASSUME path' = path, system' = system, history' = history, known' = known
  PROVE  /\ \A s : Prepare(s)' = Prepare(s)
         /\ Unsupported' = Unsupported
<1>1. \A s : Prepare(s)' = Prepare(s)
  BY DEF Prepare, PrepareChat, ResponsesInputToMessages, AnthropicMessagesToChat,
         PrepareResponses, PrepareAnthropic, Unsupported, SystemMessage, AnthropicMessageToChat,
         PreprocessMessages, PreprocessBlocks, PreprocessInput, InjectInput, PromptedSystem,
         Preprocess, Each, Formatted, ResultText
<1>2. Unsupported' = Unsupported
  BY DEF Unsupported
<1> QED BY <1>1, <1>2

LEMMA SameHistory ==
  ASSUME path' = path, system' = system, history' = history
  PROVE  /\ HistoryOK' = HistoryOK /\ OpensWithText(history)' = OpensWithText(history)
         /\ Numbers(history)' = Numbers(history)
<1>1. HistoryOK' = HistoryOK
  BY DEF HistoryOK, WellFormed, ViaResponses, ViaAnthropic
<1>2. OpensWithText(history)' = OpensWithText(history)
  BY DEF OpensWithText
<1>3. Numbers(history)' = Numbers(history)
  OBVIOUS
<1> QED BY <1>1, <1>2, <1>3

LEMMA InitType == Init => IInv
<1> SUFFICES ASSUME Init PROVE IInv
  OBVIOUS
<1>1. path \in Path /\ path \in {"chat", "responses", "responses_chat", "anthropic", "anthropic_chat"}
  BY PathAssumption DEF Init
<1>2. /\ system \in Seq(SaidPart) /\ \A i \in DOMAIN system : system[i].kind = "text"
      /\ path = "chat" => system = <<>>
      /\ Len(system) \in Nat
  <2>1. PICK x : x = Part("text", 1)
    OBVIOUS
  <2>2. x \in SaidPart /\ x.kind = "text"
    BY <2>1 DEF Part, SaidPart, Said
  <2>3. (system = <<>> \/ system = <<x>>) /\ (path = "chat" => system = <<>>)
    BY <2>1 DEF Init
  <2>4. <<>> \in Seq(SaidPart) /\ <<x>> \in Seq(SaidPart) /\ DOMAIN <<x>> = {1} /\ DOMAIN <<>> = {}
        /\ <<x>>[1] = x
    BY <2>2
  <2>5. Len(system) \in Nat
    BY <2>3, <2>4
  <2> QED BY <2>2, <2>3, <2>4, <2>5
<1>3. CASE history = <<>>
  <2>1. <<>> \in Seq(MessageType) /\ DOMAIN <<>> = {}
    OBVIOUS
  <2>2. HistoryOK /\ OpensWithText(history)
    BY <1>1, <1>2, <1>3, <2>1 DEF HistoryOK, OpensWithText
  <2>3. 0 \in 0..MaxTurns
    BY BoundAssumption
  <2> QED BY <1>1, <2>2, <2>3 DEF IInv, Init
<1>4. CASE history # <<>>
  <2>1. PICK x, role, m : /\ x = Part("text", Len(system) + 1) /\ m = Message("message", role, <<x>>)
                          /\ history = <<m>>
                          /\ role \in CASE path = "chat" -> {"system", "developer"}
                                        [] ViaResponses -> {"developer"} [] OTHER -> {}
    BY <1>4 DEF Init
  <2>2. x \in SaidPart /\ x \in PartType /\ x.kind = "text"
    <3>1. x \in SaidPart /\ x.kind = "text"
      BY <1>2, <2>1 DEF Part, SaidPart, Said
    <3> QED BY <3>1, SaidPartType
  <2>3. (path = "chat" /\ role \in {"system", "developer"}) \/ (ViaResponses /\ role = "developer")
    <3>1. CASE path = "chat"
      BY <2>1, <3>1
    <3>2. CASE path # "chat" /\ ViaResponses
      BY <2>1, <3>2
    <3>3. CASE path # "chat" /\ ~ViaResponses
      BY <2>1, <3>3
    <3> QED BY <3>1, <3>2, <3>3
  <2>4. PICK p : p = <<x>>
    OBVIOUS
  <2>5. /\ p \in Seq(SaidPart) /\ p \in Seq(PartType) /\ p # <<>> /\ Len(p) = 1 /\ p[1] = x
        /\ \A i \in DOMAIN p : p[i].kind = "text"
    BY <2>2, <2>4
  <2>6. m \in MessageType /\ m.type = "message" /\ m.role = role /\ m.parts = p
    <3>1. "message" \in Type /\ role \in Role
      BY <2>3, RoleIs
    <3> QED BY <2>1, <2>4, <2>5, <3>1 DEF Message, MessageType
  <2>7. WellFormed(m)
    <3>1. Of(m, {"text"})
      BY <2>5, <2>6 DEF Of
    <3>2. path = "chat" => ChatForm(m)
      BY <2>3, <2>6, <3>1 DEF ChatForm, ViaResponses
    <3>3. ViaResponses => ResponsesForm(m)
      BY <2>3, <2>5, <2>6, <3>1 DEF ResponsesForm, ViaResponses
    <3>4. ~ViaAnthropic
      BY <2>3 DEF ViaAnthropic, ViaResponses
    <3> QED BY <2>5, <2>6, <3>2, <3>3, <3>4 DEF WellFormed
  <2>8. history \in Seq(MessageType) /\ DOMAIN history = {1} /\ history[1] = m
    BY <2>1, <2>6
  <2>9. HistoryOK /\ OpensWithText(history)
    BY <1>1, <1>2, <2>5, <2>6, <2>7, <2>8 DEF HistoryOK, OpensWithText
  <2>10. 0 \in 0..MaxTurns
    BY BoundAssumption
  <2> QED BY <1>1, <2>9, <2>10 DEF IInv, Init
<1> QED BY <1>3, <1>4

-----------------------------------------------------------------------------
(* What the client and the upstream add to the history *)

Added(turn) ==
  /\ turn \in Seq(MessageType) /\ turn # <<>> /\ \A i \in DOMAIN turn : WellFormed(turn[i])
  /\ history = <<>> => OpensWithText(turn)

LEMMA Grows ==
  ASSUME IInv, UNCHANGED <<path, system>>, NEW turn, Added(turn), history' = history \o turn
  PROVE  /\ HistoryOK' /\ OpensWithText(history)' /\ history' # <<>>
         /\ Numbers(history) \subseteq Numbers(history)' /\ Numbers(turn) \subseteq Numbers(history)'
<1>1. history \in Seq(MessageType) /\ \A i \in DOMAIN history : WellFormed(history[i])
  BY DEF IInv, HistoryOK
<1>2. turn \in Seq(MessageType) /\ turn # <<>> /\ \A i \in DOMAIN turn : WellFormed(turn[i])
      /\ (history = <<>> => OpensWithText(turn))
  BY DEF Added
<1>3. PICK h : h = history \o turn
  OBVIOUS
<1>4. /\ h \in Seq(MessageType) /\ Len(h) = Len(history) + Len(turn)
      /\ Len(history) \in Nat /\ Len(turn) \in Nat /\ Len(turn) > 0
      /\ \A i \in 1..Len(history) + Len(turn) :
           h[i] = IF i <= Len(history) THEN history[i] ELSE turn[i - Len(history)]
  <2>1. Len(turn) > 0 /\ Len(turn) \in Nat /\ Len(history) \in Nat
    BY <1>1, <1>2, EmptySeq
  <2> QED BY <1>1, <1>2, <1>3, <2>1, ConcatProperties
<1>5. ASSUME NEW i \in DOMAIN h
      PROVE  WellFormed(h[i])
  <2>1. i \in 1..Len(history) + Len(turn)
    BY <1>4
  <2>2. CASE i <= Len(history)
    <3>1. i \in DOMAIN history /\ h[i] = history[i]
      BY <1>1, <1>4, <2>1, <2>2
    <3> QED BY <1>1, <3>1
  <2>3. CASE ~(i <= Len(history))
    <3>1. i - Len(history) \in 1..Len(turn) /\ h[i] = turn[i - Len(history)]
      BY <1>4, <2>1, <2>3
    <3>2. i - Len(history) \in DOMAIN turn
      BY <1>2, <3>1
    <3> QED BY <1>2, <3>1, <3>2
  <2> QED BY <2>2, <2>3
<1>6. \A m : WellFormed(m)' = WellFormed(m)
  BY DEF WellFormed, ViaResponses, ViaAnthropic
<1>7. history' = h
  BY <1>3
<1>8. HistoryOK'
  <2>1. history' \in Seq(MessageType) /\ \A i \in DOMAIN history' : WellFormed(history'[i])
    BY <1>4, <1>5, <1>7
  <2>2. \A i \in DOMAIN history' : WellFormed(history[i])'
    <3>1. ASSUME NEW i \in DOMAIN h
          PROVE  WellFormed(history[i])'
      <4>1. PICK m : m = h[i]
        OBVIOUS
      <4>2. WellFormed(m)'
        BY <1>5, <1>6, <4>1
      <4>3. history'[i] = m
        BY <1>7, <4>1
      <4> QED BY <4>2, <4>3 DEF WellFormed
    <3> QED BY <1>7, <3>1
  <2> QED BY <2>1, <2>2 DEF IInv, HistoryOK
<1>9. OpensWithText(h)
  <2>1. CASE history = <<>>
    <3>1. Len(history) = 0
      BY <2>1
    <3>2. 1 \in 1..Len(history) + Len(turn) /\ h[1] = turn[1]
      BY <1>4, <3>1
    <3> QED BY <1>2, <2>1, <3>2 DEF OpensWithText
  <2>2. CASE history # <<>>
    <3>1. Len(history) > 0
      BY <1>1, <2>2, EmptySeq
    <3>2. 1 \in 1..Len(history) + Len(turn) /\ h[1] = history[1]
      BY <1>4, <3>1
    <3>3. OpensWithText(history)
      BY DEF IInv
    <3> QED BY <2>2, <3>2, <3>3 DEF OpensWithText
  <2> QED BY <2>1, <2>2
<1>10. h # <<>>
  <2>1. Len(h) # 0
    BY <1>4
  <2>2. Len(<<>>) = 0
    OBVIOUS
  <2> QED BY <2>1, <2>2
<1>11. Numbers(history) \subseteq Numbers(h) /\ Numbers(turn) \subseteq Numbers(h)
  BY <1>1, <1>2, <1>3, NumbersGrow
<1>12. OpensWithText(history)' /\ Numbers(history)' = Numbers(h)
  <2>1. OpensWithText(history)' <=> OpensWithText(h)
    BY <1>7
  <2>2. Numbers(history)' = Numbers(h)
    BY <1>7
  <2> QED BY <1>9, <2>1, <2>2
<1> QED BY <1>7, <1>8, <1>10, <1>11, <1>12

\* One part, in a message of its own.
LEMMA OnePart ==
  ASSUME NEW x \in SaidPart, NEW type \in Type, NEW role \in Role
  PROVE  /\ Message(type, role, <<x>>) \in MessageType
         /\ Message(type, role, <<x>>).type = type /\ Message(type, role, <<x>>).role = role
         /\ Message(type, role, <<x>>).parts = <<x>>
         /\ <<x>> \in Seq(SaidPart) /\ <<x>> # <<>> /\ Len(<<x>>) = 1 /\ <<x>>[1] = x
         /\ \A kinds : x.kind \in kinds => Of(Message(type, role, <<x>>), kinds)
<1>1. PICK p, m : p = <<x>> /\ m = Message(type, role, p)
  OBVIOUS
<1>2. x \in PartType
  BY SaidPartType
<1>3. p \in Seq(SaidPart) /\ p \in Seq(PartType) /\ p # <<>> /\ Len(p) = 1 /\ p[1] = x /\ DOMAIN p = {1}
  BY <1>1, <1>2
<1>4. m \in MessageType /\ m.type = type /\ m.role = role /\ m.parts = p
  BY <1>1, <1>3 DEF Message, MessageType
<1>5. \A kinds : x.kind \in kinds => Of(m, kinds)
  BY <1>3, <1>4 DEF Of
<1> QED BY <1>1, <1>3, <1>4, <1>5

LEMMA FreshType ==
  ASSUME HistoryOK, NEW i \in Nat
  PROVE  Fresh(i) \in Nat
<1>1. Len(system) \in Nat
  BY SystemIs
<1>2. Len(PartsOf(history)) \in Nat
  <2>1. PartsOf(history) \in Seq(PartType)
    BY HistoryIs, PartsIs
  <2> QED BY <2>1
<1> QED BY <1>1, <1>2 DEF Fresh

LEMMA TextIs ==
  ASSUME HistoryOK, NEW i \in Nat, NEW texts \in {<<>>, <<Part("text", Fresh(i))>>}
  PROVE  /\ texts \in Seq(SaidPart) /\ \A k \in DOMAIN texts : texts[k].kind = "text"
         /\ texts # <<>> => Len(texts) = 1 /\ texts[1].kind = "text"
<1>1. PICK x : x = Part("text", Fresh(i))
  OBVIOUS
<1>2. x \in SaidPart /\ x.kind = "text"
  BY <1>1, FreshType DEF Part, SaidPart, Said
<1>3. texts = <<>> \/ texts = <<x>>
  BY <1>1
<1>4. CASE texts = <<>>
  BY <1>4
<1>5. CASE texts = <<x>>
  <2>1. texts \in Seq(SaidPart) /\ DOMAIN texts = {1} /\ Len(texts) = 1 /\ texts[1] = x
    BY <1>2, <1>5
  <2> QED BY <1>2, <2>1
<1> QED BY <1>3, <1>4, <1>5

ResultsOf(order, kind) == Each(order, LAMBDA n : Part(kind[n], n))

LEMMA ResultsType ==
  ASSUME IInv, NEW calls \in SUBSET pending, NEW order \in SetToSeqs(calls),
         NEW kind \in [calls -> {"result", "empty"}]
  PROVE  /\ ResultsOf(order, kind) \in Seq(SaidPart)
         /\ \A k \in DOMAIN ResultsOf(order, kind) : ResultsOf(order, kind)[k].kind \in Results
         /\ calls # {} => ResultsOf(order, kind) # <<>>
         /\ history = <<>> => ResultsOf(order, kind) = <<>>
<1>1. PICK results : results = ResultsOf(order, kind)
  OBVIOUS
<1>2. history \in Seq(MessageType) /\ pending \subseteq Numbers(history)
  BY DEF IInv, HistoryOK
<1>3. calls \in SUBSET Nat /\ IsFiniteSet(calls)
  <2>1. Numbers(history) \in SUBSET Nat /\ IsFiniteSet(Numbers(history))
    BY <1>2, NumbersAre
  <2> QED BY <1>2, <2>1, FS_Subset
<1>4. PICK c : c = Cardinality(calls)
  OBVIOUS
<1>5. c \in Nat /\ (calls # {} => c # 0) /\ (calls = {} => c = 0)
  BY <1>3, <1>4, FS_CardinalityType, FS_EmptySet
<1>6. order \in [1..c -> calls]
  BY <1>4 DEF SetToSeqs
<1>7. results = [i \in 1..c |-> Part(kind[order[i]], order[i])]
  BY <1>1, <1>6 DEF Each, ResultsOf
<1>8. ASSUME NEW i \in 1..c
      PROVE  results[i] \in SaidPart /\ results[i].kind \in Results
  <2>1. order[i] \in Nat /\ kind[order[i]] \in Results
    BY <1>3, <1>6 DEF Results
  <2>2. results[i] = [kind |-> kind[order[i]], n |-> order[i]]
    BY <1>7 DEF Part
  <2> QED BY <2>1, <2>2 DEF SaidPart, Said
<1>9. results \in Seq(SaidPart) /\ Len(results) = c /\ DOMAIN results = 1..c
  BY <1>5, <1>7, <1>8
<1>10. calls # {} => results # <<>>
  <2>1. Len(<<>>) = 0
    OBVIOUS
  <2> QED BY <1>5, <1>9, <2>1
<1>11. history = <<>> => results = <<>>
  <2>1. ASSUME history = <<>>
        PROVE  calls = {}
    BY <1>2, <2>1, NoNumbers
  <2> QED BY <1>5, <1>9, <2>1, EmptySeq
<1> QED BY <1>1, <1>8, <1>9, <1>10, <1>11

LEMMA TurnIs ==
  ASSUME IInv,
         NEW results \in Seq(SaidPart), \A k \in DOMAIN results : results[k].kind \in Results,
         history = <<>> => results = <<>>,
         NEW texts \in {<<>>, <<Part("text", Fresh(1))>>},
         NEW type \in IF ViaResponses THEN {"message", "untyped"} ELSE {"message"},
         NEW turn \in Turns(results, texts, type), results # <<>> \/ texts # <<>>
  PROVE  Added(turn)
<1>1. HistoryOK
  BY DEF IInv
<1>2. /\ texts \in Seq(SaidPart) /\ \A k \in DOMAIN texts : texts[k].kind = "text"
      /\ texts # <<>> => Len(texts) = 1 /\ texts[1].kind = "text"
  <2>1. 1 \in Nat
    OBVIOUS
  <2> QED BY <1>1, <2>1, TextIs
<1>3. results \in Seq(PartType) /\ texts \in Seq(PartType)
  BY <1>2, SaidPartType
<1>4. /\ Len(results) \in Nat /\ DOMAIN results = 1..Len(results)
      /\ Len(texts) \in Nat /\ DOMAIN texts = 1..Len(texts)
      /\ (results # <<>> => Len(results) > 0) /\ (texts # <<>> => Len(texts) > 0)
  BY <1>2, EmptySeq
<1>5. /\ "message" \in Type /\ "untyped" \in Type /\ "function_call_output" \in Type
      /\ "user" \in Role /\ "tool" \in Role /\ "" \in Role
  BY RoleIs
<1>6. CASE ViaAnthropic
  <2>1. PICK parts : (parts = results \o texts \/ parts = texts \o results)
                     /\ turn = <<Message("message", "user", parts)>>
    BY <1>6 DEF Turns
  <2>2. PICK m : m = Message("message", "user", parts)
    OBVIOUS
  <2>3. /\ parts \in Seq(SaidPart) /\ parts # <<>>
        /\ \A k \in DOMAIN parts : parts[k].kind \in {"text"} \union Results
    <3>1. ASSUME NEW a \in Seq(SaidPart), NEW b \in Seq(SaidPart), parts = a \o b, a # <<>> \/ b # <<>>,
                 \A k \in DOMAIN a : a[k].kind \in {"text"} \union Results,
                 \A k \in DOMAIN b : b[k].kind \in {"text"} \union Results
          PROVE  /\ parts \in Seq(SaidPart) /\ parts # <<>>
                 /\ \A k \in DOMAIN parts : parts[k].kind \in {"text"} \union Results
      <4>1. /\ parts \in Seq(SaidPart) /\ Len(parts) = Len(a) + Len(b)
            /\ \A k \in 1..Len(a) + Len(b) : parts[k] = IF k <= Len(a) THEN a[k] ELSE b[k - Len(a)]
        BY <3>1, ConcatProperties
      <4>2. Len(a) \in Nat /\ Len(b) \in Nat /\ DOMAIN a = 1..Len(a) /\ DOMAIN b = 1..Len(b)
            /\ DOMAIN parts = 1..Len(a) + Len(b)
        BY <4>1
      <4>3. parts # <<>>
        <5>1. Len(a) > 0 \/ Len(b) > 0
          BY <3>1, EmptySeq
        <5>2. Len(parts) # 0 /\ Len(<<>>) = 0
          BY <4>1, <4>2, <5>1
        <5> QED BY <5>2
      <4>4. ASSUME NEW k \in DOMAIN parts
            PROVE  parts[k].kind \in {"text"} \union Results
        <5>1. k \in 1..Len(a) + Len(b)
          BY <4>2
        <5>2. CASE k <= Len(a)
          <6>1. k \in DOMAIN a /\ parts[k] = a[k]
            BY <4>1, <4>2, <5>1, <5>2
          <6> QED BY <3>1, <6>1
        <5>3. CASE ~(k <= Len(a))
          <6>1. k - Len(a) \in DOMAIN b /\ parts[k] = b[k - Len(a)]
            BY <4>1, <4>2, <5>1, <5>3
          <6> QED BY <3>1, <6>1
        <5> QED BY <5>2, <5>3
      <4> QED BY <4>1, <4>3, <4>4
    <3>2. /\ \A k \in DOMAIN results : results[k].kind \in {"text"} \union Results
          /\ \A k \in DOMAIN texts : texts[k].kind \in {"text"} \union Results
      BY <1>2
    <3>3. CASE parts = results \o texts
      BY <1>2, <3>1, <3>2, <3>3
    <3>4. CASE parts = texts \o results
      BY <1>2, <3>1, <3>2, <3>4
    <3> QED BY <2>1, <3>3, <3>4
  <2>4. m \in MessageType /\ m.type = "message" /\ m.role = "user" /\ m.parts = parts
    <3>1. parts \in Seq(PartType)
      BY <2>3, SaidPartType
    <3> QED BY <1>5, <2>2, <3>1 DEF Message, MessageType
  <2>5. WellFormed(m)
    <3>1. Of(m, {"text"} \union Results)
      BY <2>3, <2>4 DEF Of
    <3>2. AnthropicForm(m)
      BY <2>4, <3>1 DEF AnthropicForm
    <3>3. path # "chat" /\ ~ViaResponses
      BY <1>6 DEF ViaAnthropic, ViaResponses
    <3> QED BY <2>3, <2>4, <3>2, <3>3 DEF WellFormed
  <2>6. turn \in Seq(MessageType) /\ turn # <<>> /\ DOMAIN turn = {1} /\ turn[1] = m
    BY <2>1, <2>2, <2>4
  <2>7. history = <<>> => OpensWithText(turn)
    <3>1. ASSUME history = <<>>
          PROVE  parts = texts /\ texts # <<>>
      <4>1. results = <<>>
        BY <3>1
      <4>2. <<>> \o texts = texts /\ texts \o <<>> = texts
        BY <1>2, ConcatEmptySeq
      <4> QED BY <2>1, <4>1, <4>2
    <3> QED BY <1>2, <2>4, <2>6, <3>1 DEF OpensWithText
  <2> QED BY <2>5, <2>6, <2>7 DEF Added
<1>7. CASE ~ViaAnthropic
  <2>1. PICK a, b : /\ a = Each(results, LAMBDA result :
                             IF path = "chat" THEN Message("message", "tool", <<result>>)
                             ELSE Message("function_call_output", "", <<result>>))
                    /\ b = Each(texts, LAMBDA text : Message(type, "user", <<text>>))
                    /\ turn = a \o b
    BY <1>7 DEF Turns
  <2>2. path = "chat" \/ ViaResponses
    BY <1>1, <1>7 DEF HistoryOK, ViaAnthropic, ViaResponses
  <2>3. (path = "chat" => ~ViaResponses) /\ (ViaResponses => path # "chat")
    BY DEF ViaResponses
  <2>4. ASSUME NEW i \in 1..Len(results)
        PROVE  a[i] \in MessageType /\ WellFormed(a[i])
    <3>1. PICK x, m : /\ x = results[i]
                      /\ m = IF path = "chat" THEN Message("message", "tool", <<x>>)
                             ELSE Message("function_call_output", "", <<x>>)
      OBVIOUS
    <3>2. a[i] = m
      BY <1>4, <2>1, <3>1 DEF Each
    <3>3. x \in SaidPart /\ x.kind \in Results
      <4>1. i \in DOMAIN results
        BY <1>4
      <4>2. results[i] \in SaidPart
        BY <4>1
      <4>3. results[i].kind \in Results
        BY <4>1
      <4> QED BY <3>1, <4>2, <4>3
    <3>4. CASE path = "chat"
      <4>1. PICK ty, ro : /\ ty = "message" /\ ro = "tool"
                          /\ m = Message(ty, ro, <<x>>) /\ ty \in Type /\ ro \in Role
        BY <1>5, <3>1, <3>4
      <4>2. /\ m \in MessageType /\ m.type = "message" /\ m.role = "tool" /\ m.parts = <<x>>
            /\ Of(m, Results) /\ <<x>> \in Seq(SaidPart) /\ <<x>> # <<>> /\ Len(<<x>>) = 1
        BY <3>3, <4>1, OnePart
      <4>3. ChatForm(m)
        BY <4>2 DEF ChatForm
      <4> QED BY <1>7, <2>3, <3>2, <3>4, <4>2, <4>3 DEF WellFormed
    <3>5. CASE path # "chat"
      <4>1. PICK ty, ro : /\ ty = "function_call_output" /\ ro = ""
                          /\ m = Message(ty, ro, <<x>>) /\ ty \in Type /\ ro \in Role
        BY <1>5, <3>1, <3>5
      <4>2. /\ m \in MessageType /\ m.type = "function_call_output" /\ m.role = ""
            /\ m.parts = <<x>>
            /\ Of(m, Results) /\ <<x>> \in Seq(SaidPart) /\ <<x>> # <<>> /\ Len(<<x>>) = 1
        <5>1. /\ m \in MessageType /\ m.type = ty /\ m.role = ro /\ m.parts = <<x>>
              /\ Of(m, Results) /\ <<x>> \in Seq(SaidPart) /\ <<x>> # <<>> /\ Len(<<x>>) = 1
          <6>1. m = Message(ty, ro, <<x>>) /\ ty \in Type /\ ro \in Role /\ x \in SaidPart
                /\ x.kind \in Results
            BY <3>3, <4>1
          <6> QED BY <6>1, OnePart
        <5> QED BY <4>1, <5>1
      <4>3. ResponsesForm(m)
        BY <4>2 DEF ResponsesForm
      <4> QED BY <1>7, <2>3, <3>2, <3>5, <4>2, <4>3 DEF WellFormed
    <3> QED BY <3>4, <3>5
  <2>5. ASSUME NEW i \in 1..Len(texts)
        PROVE  /\ b[i] \in MessageType /\ WellFormed(b[i])
               /\ Len(b[i].parts) = 1 /\ b[i].parts[1].kind = "text"
    <3>1. PICK x, m : x = texts[i] /\ m = Message(type, "user", <<x>>)
      OBVIOUS
    <3>2. b[i] = m
      BY <1>4, <2>1, <3>1 DEF Each
    <3>3. x \in SaidPart /\ x.kind \in {"text"}
      BY <1>2, <1>4, <3>1
    <3>4. type \in {"message", "untyped"} /\ (path = "chat" => type = "message") /\ type \in Type
      <4>1. type \in {"message", "untyped"} /\ (path = "chat" => type = "message")
        BY <2>3
      <4> QED BY <1>5, <4>1
    <3>5. /\ m \in MessageType /\ m.type = type /\ m.role = "user" /\ m.parts = <<x>>
          /\ Of(m, {"text"}) /\ <<x>> \in Seq(SaidPart) /\ <<x>> # <<>> /\ Len(<<x>>) = 1
          /\ <<x>>[1] = x
      <4>1. "user" \in Role
        BY <1>5
      <4> QED BY <3>1, <3>3, <3>4, <4>1, OnePart
    <3>6. path = "chat" => ChatForm(m)
      BY <3>4, <3>5 DEF ChatForm
    <3>7. ViaResponses => ResponsesForm(m)
      BY <3>4, <3>5 DEF ResponsesForm
    <3>8. WellFormed(m)
      BY <1>7, <3>5, <3>6, <3>7 DEF WellFormed
    <3> QED BY <3>2, <3>3, <3>5, <3>8
  <2>6. /\ a \in Seq(MessageType) /\ Len(a) = Len(results) /\ DOMAIN a = 1..Len(results)
        /\ b \in Seq(MessageType) /\ Len(b) = Len(texts) /\ DOMAIN b = 1..Len(texts)
    <3>1. DOMAIN a = 1..Len(results) /\ DOMAIN b = 1..Len(texts)
      BY <1>4, <2>1 DEF Each
    <3>2. a = [i \in 1..Len(results) |-> a[i]] /\ b = [i \in 1..Len(texts) |-> b[i]]
      BY <1>4, <2>1, <3>1 DEF Each
    <3> QED BY <1>4, <2>4, <2>5, <3>1, <3>2
  <2>7. /\ turn \in Seq(MessageType) /\ Len(turn) = Len(a) + Len(b)
        /\ \A i \in 1..Len(a) + Len(b) : turn[i] = IF i <= Len(a) THEN a[i] ELSE b[i - Len(a)]
    <3>1. a \in Seq(MessageType) /\ b \in Seq(MessageType) /\ turn = a \o b
      BY <2>1, <2>6
    <3> QED BY <3>1, ConcatProperties
  <2>8. turn # <<>>
    <3>1. Len(turn) # 0 /\ Len(<<>>) = 0
      BY <1>4, <2>6, <2>7
    <3> QED BY <3>1
  <2>9. ASSUME NEW i \in DOMAIN turn
        PROVE  WellFormed(turn[i])
    <3>1. i \in 1..Len(results) + Len(texts)
      BY <2>6, <2>7
    <3>2. CASE i <= Len(results)
      <4>1. i \in 1..Len(results) /\ turn[i] = a[i]
        BY <1>4, <2>6, <2>7, <3>1, <3>2
      <4> QED BY <2>4, <4>1
    <3>3. CASE ~(i <= Len(results))
      <4>1. i - Len(results) \in 1..Len(texts) /\ turn[i] = b[i - Len(results)]
        BY <1>4, <2>6, <2>7, <3>1, <3>3
      <4> QED BY <2>5, <4>1
    <3> QED BY <3>2, <3>3
  <2>10. history = <<>> => OpensWithText(turn)
    <3>1. ASSUME history = <<>>
          PROVE  Len(turn[1].parts) = 1 /\ turn[1].parts[1].kind = "text"
      <4>1. Len(a) = 0 /\ Len(texts) > 0 /\ Len(<<>>) = 0
        BY <1>4, <2>6, <3>1
      <4>2. 1 \in 1..Len(a) + Len(b) /\ turn[1] = b[1] /\ 1 \in 1..Len(texts)
        BY <1>4, <2>6, <2>7, <4>1
      <4> QED BY <2>5, <4>2
    <3> QED BY <3>1 DEF OpensWithText
  <2> QED BY <2>7, <2>8, <2>9, <2>10 DEF Added
<1> QED BY <1>6, <1>7

AnswerItem == [x \in PartType |-> IF x.kind = "call" THEN Message("function_call", "", <<x>>)
                                  ELSE Message("message", "assistant", <<x>>)]

LEMMA AnswerItemIs ==
  ASSUME NEW x \in SaidPart, x.kind \in {"text", "call"}
  PROVE  /\ AnswerItem[x] \in MessageType /\ ResponsesForm(AnswerItem[x])
         /\ AnswerItem[x].parts = <<x>> /\ <<x>> \in Seq(SaidPart) /\ <<x>> # <<>>
<1>1. x \in PartType
  BY SaidPartType
<1>2. PICK m : m = AnswerItem[x]
  OBVIOUS
<1>3. /\ "message" \in Type /\ "function_call" \in Type /\ "assistant" \in Role /\ "" \in Role
  BY RoleIs
<1>4. CASE x.kind = "call"
  <2>1. PICK ty, ro, c : ty = "function_call" /\ ro = "" /\ c = {"call"}
    OBVIOUS
  <2>2. m = Message(ty, ro, <<x>>) /\ ty \in Type /\ ro \in Role /\ x.kind \in c
    BY <1>1, <1>2, <1>3, <1>4, <2>1 DEF AnswerItem
  <2>3. /\ m \in MessageType /\ m.type = ty /\ m.role = ro /\ m.parts = <<x>>
        /\ Of(m, c) /\ <<x>> \in Seq(SaidPart) /\ <<x>> # <<>> /\ Len(<<x>>) = 1
    BY <2>2, OnePart
  <2>4. ResponsesForm(m)
    BY <2>1, <2>3 DEF ResponsesForm
  <2> QED BY <1>2, <2>3, <2>4
<1>5. CASE x.kind = "text"
  <2>1. PICK ty, ro, c : ty = "message" /\ ro = "assistant" /\ c = {"text"}
    OBVIOUS
  <2>2. m = Message(ty, ro, <<x>>) /\ ty \in Type /\ ro \in Role /\ x.kind \in c
    BY <1>1, <1>2, <1>3, <1>5, <2>1 DEF AnswerItem
  <2>3. /\ m \in MessageType /\ m.type = ty /\ m.role = ro /\ m.parts = <<x>>
        /\ Of(m, c) /\ <<x>> \in Seq(SaidPart) /\ <<x>> # <<>> /\ Len(<<x>>) = 1
    BY <2>2, OnePart
  <2>4. ResponsesForm(m)
    BY <2>1, <2>3 DEF ResponsesForm
  <2> QED BY <1>2, <2>3, <2>4
<1> QED BY <1>4, <1>5

\* An answer of these parts.
AnswerOf(parts) ==
  IF ViaResponses
  THEN Each(parts, LAMBDA part : IF IsCall(part) THEN Message("function_call", "", <<part>>)
                                 ELSE Message("message", "assistant", <<part>>))
  ELSE <<Message("message", "assistant", parts)>>

LEMMA AnswerIs ==
  ASSUME IInv, history # <<>>, NEW parts \in Seq(SaidPart), parts # <<>>,
         \A i \in DOMAIN parts : parts[i].kind \in {"text", "call"}
  PROVE  Added(AnswerOf(parts)) /\ PartsOf(AnswerOf(parts)) = parts
<1>1. PICK turn : turn = AnswerOf(parts)
  OBVIOUS
<1>2. /\ parts \in Seq(PartType) /\ Len(parts) \in Nat /\ Len(parts) > 0 /\ DOMAIN parts = 1..Len(parts)
      /\ \A i \in 1..Len(parts) : parts[i] \in SaidPart /\ parts[i] \in PartType
  BY SaidPartType, EmptySeq
<1>3. CASE ViaResponses
  <2>1. turn = Map(AnswerItem, parts)
    <3>1. turn = Each(parts, LAMBDA part : IF IsCall(part) THEN Message("function_call", "", <<part>>)
                                          ELSE Message("message", "assistant", <<part>>))
      BY <1>1, <1>3 DEF AnswerOf
    <3> QED BY <1>2, <3>1 DEF Map, Each, AnswerItem, IsCall
  <2>2. /\ Len(turn) = Len(parts) /\ DOMAIN turn = 1..Len(parts)
        /\ \A i \in 1..Len(parts) : turn[i] = AnswerItem[parts[i]]
    <3>1. parts \in Seq(PartType)
      BY <1>2
    <3>2. /\ Len(Map(AnswerItem, parts)) = Len(parts) /\ DOMAIN Map(AnswerItem, parts) = 1..Len(parts)
          /\ \A i \in 1..Len(parts) : Map(AnswerItem, parts)[i] = AnswerItem[parts[i]]
      BY <3>1, MapElements
    <3> QED BY <2>1, <3>2
  <2>3. ASSUME NEW i \in 1..Len(parts)
        PROVE  turn[i] \in MessageType /\ WellFormed(turn[i]) /\ turn[i].parts = <<parts[i]>>
    <3>1. PICK x, m : x = parts[i] /\ m = AnswerItem[x]
      OBVIOUS
    <3>2. x \in SaidPart /\ x.kind \in {"text", "call"}
      BY <1>2, <3>1
    <3>3. /\ m \in MessageType /\ ResponsesForm(m) /\ m.parts = <<x>>
          /\ <<x>> \in Seq(SaidPart) /\ <<x>> # <<>>
      BY <3>1, <3>2, AnswerItemIs
    <3>4. path # "chat" /\ ~ViaAnthropic
      BY <1>3 DEF ViaResponses, ViaAnthropic
    <3>5. WellFormed(m)
      BY <3>3, <3>4 DEF WellFormed
    <3> QED BY <2>2, <3>1, <3>3, <3>5
  <2>4. turn \in Seq(MessageType) /\ turn # <<>>
    <3>1. turn = [i \in 1..Len(parts) |-> turn[i]]
      BY <1>2, <2>1 DEF Map
    <3>2. turn \in Seq(MessageType)
      BY <1>2, <2>3, <3>1
    <3>3. Len(<<>>) = 0
      OBVIOUS
    <3> QED BY <1>2, <2>2, <3>2, <3>3
  <2>5. Added(turn)
    BY <2>2, <2>3, <2>4 DEF Added
  <2>6. PartsOf(turn) = parts
    <3>1. PICK id, h : id = [x \in PartType |-> x] /\ h = Singly(id, PartType)
      OBVIOUS
    <3>2. \A i \in DOMAIN parts : h[parts[i]] = Parts[AnswerItem[parts[i]]]
      <4>1. ASSUME NEW i \in DOMAIN parts
            PROVE  h[parts[i]] = Parts[AnswerItem[parts[i]]]
        <5>1. PICK x, m : x = parts[i] /\ m = AnswerItem[x]
          OBVIOUS
        <5>2. x \in PartType /\ m \in MessageType /\ m.parts = <<x>>
          BY <1>2, <2>2, <2>3, <5>1
        <5>3. h[x] = <<x>>
          BY <3>1, <5>2 DEF Singly
        <5>4. Parts[m] = <<x>>
          BY <5>2 DEF Parts
        <5> QED BY <5>1, <5>3, <5>4
      <4> QED BY <4>1
    <3>3. Flat(Parts, Map(AnswerItem, parts)) = Flat(h, parts)
      <4>1. PICK f, g : f = Parts /\ g = AnswerItem
        OBVIOUS
      <4>2. \A i \in DOMAIN parts : h[parts[i]] = f[g[parts[i]]]
        BY <3>2, <4>1
      <4>3. Flat(f, Map(g, parts)) = Flat(h, parts)
        BY <4>2, FlatMap
      <4> QED BY <4>1, <4>3
    <3>4. Makes(id, PartType, PartType)
      BY <3>1 DEF Makes
    <3>5. Flat(h, parts) = Map(id, parts)
      BY <1>2, <3>1, <3>4, FlatSingly
    <3>6. Map(id, parts) = parts
      <4>1. Map(id, parts) \in Seq(PartType)
        BY <1>2, <3>4, MapType
      <4>2. Len(Map(id, parts)) = Len(parts) /\ \A i \in 1..Len(parts) : Map(id, parts)[i] = id[parts[i]]
        <5>1. parts \in Seq(PartType)
          BY <1>2
        <5> QED BY <5>1, MapElements
      <4>3. \A i \in 1..Len(parts) : id[parts[i]] = parts[i]
        BY <1>2, <3>1
      <4>4. \A i \in 1..Len(parts) : Map(id, parts)[i] = parts[i]
        BY <4>2, <4>3
      <4> QED BY <1>2, <4>1, <4>2, <4>4, SeqEqual
    <3>7. PartsOf(turn) = Flat(Parts, turn)
      BY <2>4, PartsIs
    <3> QED BY <2>1, <3>3, <3>5, <3>6, <3>7
  <2> QED BY <1>1, <2>5, <2>6
<1>4. CASE ~ViaResponses
  <2>1. PICK m : m = Message("message", "assistant", parts)
    OBVIOUS
  <2>2. turn = <<m>>
    BY <1>1, <1>4, <2>1 DEF AnswerOf
  <2>3. m \in MessageType /\ m.type = "message" /\ m.role = "assistant" /\ m.parts = parts
    <3>1. "message" \in Type /\ "assistant" \in Role
      BY RoleIs
    <3> QED BY <1>2, <2>1, <3>1 DEF Message, MessageType
  <2>4. Of(m, {"text", "call"})
    BY <2>3 DEF Of
  <2>5. ChatForm(m) /\ AnthropicForm(m)
    BY <2>3, <2>4 DEF ChatForm, AnthropicForm
  <2>6. WellFormed(m)
    BY <1>4, <2>3, <2>5 DEF WellFormed
  <2>7. turn \in Seq(MessageType) /\ turn # <<>> /\ DOMAIN turn = {1} /\ turn[1] = m
    BY <2>2, <2>3
  <2>8. Added(turn)
    BY <2>6, <2>7 DEF Added
  <2>9. PartsOf(turn) = parts
    <3>1. PartsOf(turn) = Flat(Parts, turn) /\ Makes(Parts, MessageType, Seq(PartType))
      BY <2>7, PartsIs
    <3>2. Flat(Parts, <<m>>) = Parts[m]
      BY <2>3, <3>1, FlatOne
    <3> QED BY <2>2, <2>3, <3>1, <3>2 DEF Parts
  <2> QED BY <1>1, <2>8, <2>9
<1> QED BY <1>3, <1>4

LEMMA ReplyIs ==
  ASSUME IInv, history # <<>>, NEW n \in Nat,
         NEW before \in {<<>>, <<Part("text", Fresh(1))>>},
         NEW after \in {<<>>, <<Part("text", Fresh(n + 2))>>},
         NEW calls, calls = [i \in 1..n |-> Part("call", Fresh(i + 1))], before # <<>> \/ n > 0
  PROVE  /\ Added(Answers(before, calls, after))
         /\ \A i \in 1..n : calls[i].n \in Numbers(Answers(before, calls, after))
<1>1. HistoryOK
  BY DEF IInv
<1>2. /\ before \in Seq(SaidPart) /\ \A k \in DOMAIN before : before[k].kind = "text"
      /\ after \in Seq(SaidPart) /\ \A k \in DOMAIN after : after[k].kind = "text"
  <2>1. 1 \in Nat /\ n + 2 \in Nat
    OBVIOUS
  <2> QED BY <1>1, <2>1, TextIs
<1>3. \A i \in 1..n : calls[i] \in SaidPart /\ calls[i].kind = "call"
  <2>1. ASSUME NEW i \in 1..n
        PROVE  calls[i] \in SaidPart /\ calls[i].kind = "call"
    <3>1. i + 1 \in Nat
      OBVIOUS
    <3>2. Fresh(i + 1) \in Nat
      BY <1>1, <3>1, FreshType
    <3>3. calls[i] = [kind |-> "call", n |-> Fresh(i + 1)]
      BY DEF Part
    <3> QED BY <3>2, <3>3 DEF SaidPart, Said
  <2> QED BY <2>1
<1>4. calls \in Seq(SaidPart) /\ Len(calls) = n /\ DOMAIN calls = 1..n
  BY <1>3
<1>5. PICK u, parts : u = before \o calls /\ parts = u \o after
  OBVIOUS
<1>6. /\ u \in Seq(SaidPart) /\ Len(u) = Len(before) + n /\ Len(before) \in Nat
      /\ \A i \in 1..Len(before) + n : u[i] = IF i <= Len(before) THEN before[i] ELSE calls[i - Len(before)]
  <2>1. before \in Seq(SaidPart) /\ calls \in Seq(SaidPart) /\ u = before \o calls
    BY <1>2, <1>4, <1>5
  <2>2. /\ u \in Seq(SaidPart) /\ Len(u) = Len(before) + Len(calls)
        /\ \A i \in 1..Len(before) + Len(calls) :
             u[i] = IF i <= Len(before) THEN before[i] ELSE calls[i - Len(before)]
    BY <2>1, ConcatProperties
  <2>3. Len(before) \in Nat
    BY <1>2
  <2> QED BY <1>4, <2>2, <2>3
<1>7. /\ parts \in Seq(SaidPart) /\ Len(parts) = Len(u) + Len(after) /\ Len(after) \in Nat
      /\ \A i \in 1..Len(u) + Len(after) : parts[i] = IF i <= Len(u) THEN u[i] ELSE after[i - Len(u)]
  <2>1. u \in Seq(SaidPart) /\ after \in Seq(SaidPart) /\ parts = u \o after
    BY <1>2, <1>5, <1>6
  <2>2. Len(after) \in Nat
    BY <1>2
  <2> QED BY <2>1, <2>2, ConcatProperties
<1>8. DOMAIN before = 1..Len(before) /\ DOMAIN after = 1..Len(after)
      /\ DOMAIN parts = 1..Len(before) + n + Len(after)
  BY <1>2, <1>6, <1>7
<1>9. parts # <<>>
  <2>1. Len(parts) > 0
    <3>1. before # <<>> => Len(before) > 0
      BY <1>2, EmptySeq
    <3> QED BY <1>6, <1>7, <3>1
  <2>2. Len(<<>>) = 0
    OBVIOUS
  <2> QED BY <2>1, <2>2
<1>10. ASSUME NEW i \in DOMAIN parts
       PROVE  parts[i].kind \in {"text", "call"}
  <2>1. i \in 1..Len(before) + n + Len(after)
    BY <1>8
  <2>2. CASE i <= Len(before)
    <3>1. i \in DOMAIN before /\ parts[i] = before[i]
      BY <1>6, <1>7, <1>8, <2>1, <2>2
    <3> QED BY <1>2, <3>1
  <2>3. CASE ~(i <= Len(before)) /\ i <= Len(before) + n
    <3>1. i - Len(before) \in 1..n /\ parts[i] = calls[i - Len(before)]
      BY <1>6, <1>7, <2>1, <2>3, SMTT(30)
    <3> QED BY <1>3, <3>1
  <2>4. CASE ~(i <= Len(before) + n)
    <3>1. i - Len(u) \in DOMAIN after /\ parts[i] = after[i - Len(u)]
      BY <1>6, <1>7, <1>8, <2>1, <2>4
    <3> QED BY <1>2, <3>1
  <2> QED BY <2>2, <2>3, <2>4
<1>11. PICK turn : turn = Answers(before, calls, after)
  OBVIOUS
<1>12. Added(turn) /\ PartsOf(turn) = parts
  <2>1. turn = AnswerOf(before \o calls \o after)
    BY <1>11 DEF Answers, AnswerOf
  <2>2. /\ parts \in Seq(SaidPart) /\ parts # <<>>
        /\ \A i \in DOMAIN parts : parts[i].kind \in {"text", "call"}
    BY <1>7, <1>9, <1>10
  <2>3. Added(AnswerOf(parts)) /\ PartsOf(AnswerOf(parts)) = parts
    BY <2>2, AnswerIs
  <2>4. turn = AnswerOf(parts)
    BY <1>5, <2>1
  <2> QED BY <2>3, <2>4
<1>13. ASSUME NEW i \in 1..n
       PROVE  calls[i].n \in Numbers(turn)
  <2>1. PICK x : x = calls[i]
    OBVIOUS
  <2>2. i + Len(before) \in DOMAIN parts /\ parts[i + Len(before)] = x
    <3>1. PICK b, k : b = Len(before) /\ k = i + b
      OBVIOUS
    <3>2. b \in Nat /\ k \in 1..b + n /\ ~(k <= b) /\ k - b = i
      BY <1>6, <3>1
    <3>3. u[k] = calls[i]
      BY <1>6, <3>1, <3>2
    <3>4. k \in DOMAIN parts /\ parts[k] = u[k]
      BY <1>6, <1>7, <1>8, <3>1, <3>2
    <3> QED BY <2>1, <3>1, <3>3, <3>4
  <2>3. turn \in Seq(MessageType) /\ x.kind = "call"
    BY <1>3, <1>12, <2>1 DEF Added
  <2>4. \E k \in DOMAIN PartsOf(turn) : PartsOf(turn)[k] = x
    BY <1>12, <2>2
  <2>5. \A y : (\E k \in DOMAIN PartsOf(turn) : PartsOf(turn)[k] = y) /\ y.kind = "call"
                 => y.n \in Numbers(turn)
    BY <2>3, NumbersAre
  <2> QED BY <2>1, <2>3, <2>4, <2>5
<1> QED BY <1>11, <1>12, <1>13

LEMMA AskType ==
  ASSUME IInv, Ask
  PROVE  IInv'
<1>1. PICK calls \in SUBSET pending : \E order \in SetToSeqs(calls) :
        \E kind \in [calls -> {"result", "empty"}] :
        \E texts \in {<<>>, <<Part("text", Fresh(1))>>} :
        \E type \in IF ViaResponses THEN {"message", "untyped"} ELSE {"message"} :
        \E turn \in Turns(Each(order, LAMBDA n : Part(kind[n], n)), texts, type) :
          (calls # {} \/ texts # <<>>) /\ history' = history \o turn
  BY DEF Ask
<1>2. PICK order \in SetToSeqs(calls), kind \in [calls -> {"result", "empty"}] :
        \E texts \in {<<>>, <<Part("text", Fresh(1))>>} :
        \E type \in IF ViaResponses THEN {"message", "untyped"} ELSE {"message"} :
        \E turn \in Turns(Each(order, LAMBDA n : Part(kind[n], n)), texts, type) :
          (calls # {} \/ texts # <<>>) /\ history' = history \o turn
  BY <1>1
<1>3. PICK results : results = ResultsOf(order, kind)
  OBVIOUS
<1>4. PICK texts \in {<<>>, <<Part("text", Fresh(1))>>},
            type \in IF ViaResponses THEN {"message", "untyped"} ELSE {"message"} :
        \E turn \in Turns(results, texts, type) :
          (calls # {} \/ texts # <<>>) /\ history' = history \o turn
  BY <1>2, <1>3 DEF ResultsOf
<1>5. PICK turn \in Turns(results, texts, type) :
          (calls # {} \/ texts # <<>>) /\ history' = history \o turn
  BY <1>4
<1>6. /\ results \in Seq(SaidPart) /\ \A k \in DOMAIN results : results[k].kind \in Results
      /\ calls # {} => results # <<>>
      /\ history = <<>> => results = <<>>
  BY <1>3, ResultsType
<1>7. Added(turn)
  <2>1. turn \in Turns(results, texts, type) /\ (results # <<>> \/ texts # <<>>)
    BY <1>5, <1>6
  <2> QED BY <1>6, <2>1, TurnIs
<1>8. UNCHANGED <<path, system, known, request, madeWith>> /\ pending' = {} /\ turns' = turns + 1
      /\ pc' = "proxy" /\ pc = "client" /\ turns < MaxTurns
  BY DEF Ask
<1>9. /\ HistoryOK' /\ OpensWithText(history)' /\ history' # <<>>
      /\ Numbers(history) \subseteq Numbers(history)'
  BY <1>5, <1>7, <1>8, Grows
<1>10. turns' \in 0..MaxTurns
  BY <1>8, BoundAssumption DEF IInv
<1>11. known' \subseteq Numbers(history)' /\ pending' \subseteq Numbers(history)'
  BY <1>8, <1>9 DEF IInv
<1>12. path' \in Path /\ request' = Nothing /\ madeWith' = None
  BY <1>8 DEF IInv, Nothing, None
<1> QED BY <1>8, <1>9, <1>10, <1>11, <1>12 DEF IInv, Nothing, None

LEMMA ForgetType ==
  ASSUME IInv, Forget
  PROVE  IInv'
<1>1. pc = "proxy" /\ UNCHANGED <<pc, path, system, history, pending, turns, request, madeWith>>
      /\ known' \in SUBSET known
  BY DEF Forget, Memory!Forget
<1>2. HistoryOK' /\ OpensWithText(history)' /\ Numbers(history)' = Numbers(history)
  BY <1>1, SameHistory DEF IInv
<1>3. pending' \subseteq Numbers(history)' /\ known' \subseteq Numbers(history)'
  BY <1>1, <1>2 DEF IInv
<1> QED BY <1>1, <1>2, <1>3 DEF IInv, Nothing, None

LEMMA SendType ==
  ASSUME IInv, Send
  PROVE  IInv'
<1>1. PICK s \in Setting : request' = Prepare(s) /\ madeWith' = s
  BY DEF Send
<1>2. pc = "proxy" /\ UNCHANGED <<path, system, history, pending, turns, known>>
      /\ pc' = IF request' = Refused THEN "refused" ELSE "upstream"
  BY DEF Send
<1>3. HistoryOK' /\ OpensWithText(history)' /\ Numbers(history)' = Numbers(history)
  BY <1>2, SameHistory DEF IInv
<1>4. pending' \subseteq Numbers(history)' /\ known' \subseteq Numbers(history)' /\ history' # <<>>
  BY <1>2, <1>3 DEF IInv
<1>5. Unsupported' = Unsupported /\ Prepare(s)' = Prepare(s)
  BY <1>2, SameRequest
<1>6. Refused' = Refused
  BY DEF Refused
<1>7. CASE Unsupported
  <2>1. request' = Refused
    BY <1>1, <1>7 DEF Prepare
  <2> QED BY <1>1, <1>2, <1>3, <1>4, <1>6, <2>1 DEF IInv
<1>8. CASE ~Unsupported
  <2>1. RequestOK(Prepare(s), s)
    BY <1>8, EveryRequest DEF IInv
  <2>2. request' # Refused
    BY <1>1, <2>1 DEF RequestOK
  <2> QED BY <1>1, <1>2, <1>3, <1>4, <1>5, <1>8, <2>2 DEF IInv
<1> QED BY <1>7, <1>8

LEMMA ReplyType ==
  ASSUME IInv, Reply
  PROVE  IInv'
<1>1. PICK n \in 0..(IF request.soft THEN MaxCalls - Len(CallsOf(history)) ELSE 0) :
        \E before \in {<<>>, <<Part("text", Fresh(1))>>} :
        \E after \in {<<>>} \union (IF ToChat \/ n = 0 THEN {} ELSE {<<Part("text", Fresh(n + 2))>>}) :
        \E calls : /\ calls = [i \in 1..n |-> Part("call", Fresh(i + 1))]
                   /\ before # <<>> \/ n > 0
                   /\ history' = history \o Answers(before, calls, after)
                   /\ pending' = {calls[i].n : i \in 1..n}
                   /\ IF n = 0 THEN UNCHANGED known ELSE Memory!Remember(pending')
  BY DEF Reply
<1>2. PICK before \in {<<>>, <<Part("text", Fresh(1))>>},
           after \in {<<>>} \union (IF ToChat \/ n = 0 THEN {} ELSE {<<Part("text", Fresh(n + 2))>>}) :
        \E calls : /\ calls = [i \in 1..n |-> Part("call", Fresh(i + 1))]
                   /\ before # <<>> \/ n > 0
                   /\ history' = history \o Answers(before, calls, after)
                   /\ pending' = {calls[i].n : i \in 1..n}
                   /\ IF n = 0 THEN UNCHANGED known ELSE Memory!Remember(pending')
  BY <1>1
<1>3. PICK calls : /\ calls = [i \in 1..n |-> Part("call", Fresh(i + 1))]
                   /\ before # <<>> \/ n > 0
                   /\ history' = history \o Answers(before, calls, after)
                   /\ pending' = {calls[i].n : i \in 1..n}
                   /\ IF n = 0 THEN UNCHANGED known ELSE Memory!Remember(pending')
  BY <1>2
<1>4. /\ pc = "upstream" /\ request' = Nothing /\ madeWith' = None /\ pc' = "client"
      /\ UNCHANGED <<path, system, turns>>
  BY DEF Reply
<1>5. n \in Nat
  <2>1. Len(CallsOf(history)) \in Nat
    <3>1. CallsOf(history) \in Seq(PartType)
      BY PartsIs DEF IInv, HistoryOK
    <3> QED BY <3>1
  <2> QED BY <1>3, <2>1, BoundAssumption
<1>6. PICK turn : turn = Answers(before, calls, after)
  OBVIOUS
<1>7. Added(turn) /\ \A i \in 1..n : calls[i].n \in Numbers(turn)
  <2>1. history # <<>>
    BY <1>4 DEF IInv
  <2>2. after \in {<<>>, <<Part("text", Fresh(n + 2))>>}
    BY <1>3
  <2> QED BY <1>3, <1>5, <1>6, <2>1, <2>2, ReplyIs
<1>8. /\ HistoryOK' /\ OpensWithText(history)' /\ history' # <<>>
      /\ Numbers(history) \subseteq Numbers(history)' /\ Numbers(turn) \subseteq Numbers(history)'
  <2>1. history' = history \o turn
    BY <1>3, <1>6
  <2> QED BY <1>4, <1>7, <2>1, Grows
<1>9. pending' \subseteq Numbers(history)'
  BY <1>3, <1>7, <1>8
<1>10. known' \subseteq Numbers(history)'
  <2>1. CASE n = 0
    BY <1>3, <1>8, <2>1 DEF IInv
  <2>2. CASE n # 0
    <3>1. known' \subseteq known \union pending'
      BY <1>3, <2>2 DEF Memory!Remember
    <3> QED BY <1>8, <1>9, <3>1 DEF IInv
  <2> QED BY <2>1, <2>2
<1>11. Nothing' = Nothing /\ None' = None
  BY DEF Nothing, None, Sent
<1>12. path' \in Path /\ turns' \in 0..MaxTurns
  BY <1>4 DEF IInv
<1> QED BY <1>4, <1>8, <1>9, <1>10, <1>11, <1>12 DEF IInv

\* Every history is made of messages in the form their protocol has for them, whatever the
\* client and the upstream add to it, opens with text, and knows the calls that are pending
\* or remembered; what the upstream is sent is what Prepare made of it.
THEOREM IInvHolds == Spec => []IInv
<1>1. Init => IInv
  BY InitType
<1>2. IInv /\ [Next]_vars => IInv'
  <2> SUFFICES ASSUME IInv, [Next]_vars PROVE IInv'
    OBVIOUS
  <2>1. CASE Ask
    BY <2>1, AskType
  <2>2. CASE Forget
    BY <2>2, ForgetType
  <2>3. CASE Send
    BY <2>3, SendType
  <2>4. CASE Reply
    BY <2>4, ReplyType
  <2>5. CASE UNCHANGED vars
    <3>1. path' = path /\ system' = system /\ history' = history /\ known' = known
          /\ UNCHANGED <<pc, pending, turns, request, madeWith>>
      BY <2>5 DEF vars
    <3>2. HistoryOK' /\ OpensWithText(history)' /\ Numbers(history)' = Numbers(history)
      BY <3>1, SameHistory DEF IInv
    <3>3. \A s : Prepare(s)' = Prepare(s)
      BY <3>1, SameRequest
    <3>4. Unsupported' = Unsupported
      BY <3>1, SameRequest
    <3>5. Nothing' = Nothing /\ None' = None /\ Refused' = Refused
      BY DEF Nothing, None, Refused, Sent
    <3>6. pc = "upstream" => Prepare(madeWith)' = Prepare(madeWith)
      BY <3>1, <3>3
    <3> QED BY <3>1, <3>2, <3>4, <3>5, <3>6 DEF IInv
  <2> QED BY <2>1, <2>2, <2>3, <2>4, <2>5 DEF Next
<1> QED BY <1>1, <1>2, PTL DEF Spec

\* A request is never empty.
LEMMA RequestSaysSomething ==
  ASSUME IInv, pc = "upstream"
  PROVE  /\ RequestOK(request, madeWith) /\ request # Nothing /\ request # Refused
<1>1. PICK s : s = madeWith
  OBVIOUS
<1>2. HistoryOK /\ history # <<>> /\ s \in Setting /\ RequestOK(request, s)
  BY <1>1, EveryRequest DEF IInv
<1>3. request.messages \in Seq(MessageType)
  BY <1>2 DEF RequestOK
<1>4. request # Refused
  BY <1>2 DEF RequestOK
<1>5. request # Nothing
  <2>1. PICK a, b, c, d, e : /\ a = Heard("system", Only(request.system, Read))
                             /\ b = Flat(Told(Read), request.messages)
                             /\ c = Heard("system", system) /\ d = Flat(HeardOf(s), history)
                             /\ e = c \o d
    OBVIOUS
  <2>2. a \o b = e
    BY <1>2, <2>1 DEF RequestOK
  <2>3. c \in Seq(HeardType) /\ d \in Seq(HeardType) /\ Makes(HeardOf(s), MessageType, Seq(HeardType))
        /\ history \in Seq(MessageType)
    BY <1>2, <2>1, SystemIs, HistoryIs, HeardOfIs, FlatType
  <2>4. d # <<>>
    <3>1. PICK m : m = history[1]
      OBVIOUS
    <3>2. 1 \in DOMAIN history /\ m \in MessageType /\ Len(m.parts) = 1 /\ m.parts[1].kind = "text"
      <4>1. Len(history) > 0 /\ DOMAIN history = 1..Len(history) /\ Len(history) \in Nat
        BY <1>2, <2>3, EmptySeq
      <4> QED BY <1>2, <2>3, <3>1, <4>1 DEF IInv, OpensWithText
    <3>3. m.parts \in Seq(PartType) /\ DOMAIN m.parts = {1}
      BY <3>2 DEF MessageType
    <3>4. Only(m.parts, Heeded) = m.parts
      <4>1. \A i \in DOMAIN m.parts : m.parts[i].kind \in Heeded
        BY <3>2, <3>3 DEF Heeded, Said
      <4> QED BY <3>3, <4>1, OnlyAll
    <3>5. Speaker(m) \in Actor /\ 1 \in Nat
      BY <3>2, SpeakerType
    <3>6. Reaches(Rendered(s), Block(1, Speaker(m), Only(m.parts, Heeded)), HeardOf(s)[m])
      BY <3>2, <3>5, HeardOfIs
    <3>7. Len(Block(1, Speaker(m), m.parts)) = 1
      BY <3>2, <3>3, <3>5, BlockIs
    <3>8. Len(HeardOf(s)[m]) = 1
      BY <3>4, <3>6, <3>7 DEF Reaches
    <3>9. HeardOf(s)[m] \in Seq(HeardType)
      BY <2>3, <3>2 DEF Makes
    <3>10. 1 \in DOMAIN HeardOf(s)[history[1]]
      BY <3>1, <3>8, <3>9
    <3>11. \A i \in DOMAIN history : \A k \in DOMAIN HeardOf(s)[history[i]] :
             \E j \in DOMAIN Flat(HeardOf(s), history) :
               Flat(HeardOf(s), history)[j] = HeardOf(s)[history[i]][k]
      BY <2>3, FlatFrom
    <3>12. DOMAIN d # {}
      BY <2>1, <3>2, <3>10, <3>11
    <3> QED BY <3>12
  <2>5. e # <<>>
    <3>1. e \in Seq(HeardType) /\ Len(e) = Len(c) + Len(d)
      BY <2>1, <2>3, ConcatProperties
    <3>2. Len(d) > 0 /\ Len(d) \in Nat /\ Len(c) \in Nat
      BY <2>3, <2>4, EmptySeq
    <3>3. Len(e) # 0 /\ Len(<<>>) = 0
      BY <3>1, <3>2
    <3> QED BY <3>3
  <2>6. ASSUME request = Nothing
        PROVE  FALSE
    <3>1. request.system = <<>> /\ request.messages = <<>>
      BY <2>6 DEF Nothing, Sent
    <3>2. a = <<>> /\ b = <<>>
      BY <2>1, <3>1, OnlyEmpty, HeardEmpty, FlatEmpty
    <3>3. <<>> \o <<>> = <<>>
      OBVIOUS
    <3> QED BY <2>2, <2>5, <3>2, <3>3
  <2> QED BY <2>6
<1> QED BY <1>1, <1>2, <1>4, <1>5

\* No request is empty, and the calls that are pending or of which the store knows the names
\* are calls of the history, for any settings and any number of turns and calls.
THEOREM TypeCorrect == Spec => []TypeOK
<1>1. IInv => TypeOK
  <2> SUFFICES ASSUME IInv PROVE TypeOK
    OBVIOUS
  <2>1. pc = "upstream" => request # Nothing /\ request # Refused /\ madeWith \in Setting
    BY RequestSaysSomething DEF IInv
  <2>2. Nothing # Refused
    BY SentIsNot DEF Nothing
  <2>3. /\ pending \subseteq {part.n : part \in Range(CallsOf(history))}
        /\ known \subseteq {part.n : part \in Range(CallsOf(history))}
    BY DEF IInv, Numbers
  <2> QED BY <2>1, <2>2, <2>3 DEF IInv, TypeOK
<1> QED BY <1>1, IInvHolds, PTL

\* Whatever was said in any number of turns, whichever of its pairs of protocols the proxy
\* works between, and whatever the settings are at each turn, the upstream is told all of
\* it, once, in order, said by whoever said it (but for what Rendered and HistoryReaches
\* leave out).
THEOREM EverythingReaches == Spec => []HistoryReaches
<1>1. IInv /\ TypeOK => HistoryReaches
  <2> SUFFICES ASSUME IInv, TypeOK PROVE HistoryReaches
    OBVIOUS
  <2>1. CASE pc = "upstream"
    <3>1. RequestOK(request, madeWith) /\ HistoryOK
      BY <2>1, RequestSaysSomething DEF IInv
    <3> QED BY <3>1, UpstreamReads
  <2>2. CASE pc # "upstream"
    BY <2>2 DEF HistoryReaches
  <2> QED BY <2>1, <2>2
<1> QED BY <1>1, IInvHolds, TypeCorrect, PTL

-----------------------------------------------------------------------------
(* A list around one of its elements *)

LEMMA Around ==
  ASSUME NEW S, NEW s \in Seq(S), NEW i \in 1..Len(s)
  PROVE  \E a \in Seq(S) : \E b \in Seq(S) :
           /\ s = a \o (<<s[i]>> \o b)
           /\ Len(a) = i - 1 /\ Len(b) = Len(s) - i
           /\ \A j \in 1..Len(a) : a[j] = s[j] /\ j # i /\ j \in DOMAIN s
           /\ \A j \in 1..Len(b) : b[j] = s[i + j] /\ i + j # i /\ i + j \in DOMAIN s
<1>1. PICK n, x : n = Len(s) /\ x = s[i]
  OBVIOUS
<1>2. n \in Nat /\ DOMAIN s = 1..n /\ i \in 1..n /\ x \in S /\ \A j \in 1..n : s[j] \in S
  BY <1>1
<1>3. PICK a, b : a = [j \in 1..(i - 1) |-> s[j]] /\ b = [j \in 1..(n - i) |-> s[i + j]]
  OBVIOUS
<1>4. a \in Seq(S) /\ Len(a) = i - 1 /\ \A j \in 1..Len(a) : a[j] = s[j]
  <2>1. \A j \in 1..(i - 1) : s[j] \in S /\ i - 1 \in Nat
    BY <1>2
  <2> QED BY <1>2, <1>3, <2>1
<1>5. b \in Seq(S) /\ Len(b) = n - i /\ \A j \in 1..Len(b) : b[j] = s[i + j]
  <2>1. n - i \in Nat /\ \A j \in 1..(n - i) : i + j \in 1..n
    BY <1>2
  <2> QED BY <1>2, <1>3, <2>1
<1>6. PICK u, c : u = <<x>> /\ c = u \o b
  OBVIOUS
<1>7. u \in Seq(S) /\ Len(u) = 1 /\ u[1] = x
  BY <1>2, <1>6
<1>8. /\ c \in Seq(S) /\ Len(c) = 1 + Len(b)
      /\ \A j \in 1..1 + Len(b) : c[j] = IF j <= 1 THEN u[j] ELSE b[j - 1]
  BY <1>5, <1>6, <1>7, ConcatProperties
<1>9. PICK t : t = a \o c
  OBVIOUS
<1>10. /\ t \in Seq(S) /\ Len(t) = Len(a) + Len(c)
       /\ \A j \in 1..Len(a) + Len(c) : t[j] = IF j <= Len(a) THEN a[j] ELSE c[j - Len(a)]
  BY <1>4, <1>8, <1>9, ConcatProperties
<1>11. Len(t) = Len(s)
  BY <1>1, <1>2, <1>4, <1>5, <1>8, <1>10
<1>12. ASSUME NEW j \in 1..Len(t)
       PROVE  t[j] = s[j]
  <2>1. j \in 1..n /\ j \in 1..Len(a) + Len(c)
    BY <1>1, <1>10, <1>11
  <2>2. CASE j < i
    BY <1>2, <1>4, <1>10, <2>1, <2>2
  <2>3. CASE j = i
    <3>1. t[j] = c[1]
      BY <1>2, <1>4, <1>10, <2>1, <2>3
    <3>2. c[1] = x
      BY <1>5, <1>7, <1>8
    <3> QED BY <1>1, <2>3, <3>1, <3>2
  <2>4. CASE j > i
    <3>1. t[j] = c[j - i + 1] /\ j - i + 1 \in 1..1 + Len(b)
      BY <1>2, <1>4, <1>5, <1>10, <2>1, <2>4
    <3>2. c[j - i + 1] = b[j - i] /\ j - i \in 1..Len(b)
      BY <1>2, <1>5, <1>8, <2>1, <2>4, <3>1
    <3>3. b[j - i] = s[i + (j - i)] /\ i + (j - i) = j
      BY <1>2, <1>5, <2>1, <3>2
    <3> QED BY <3>1, <3>2, <3>3
  <2> QED BY <1>2, <2>1, <2>2, <2>3, <2>4
<1>13. t = s
  BY <1>10, <1>11, <1>12, SeqEqual
<1>14. \A j \in 1..Len(a) : j # i /\ j \in DOMAIN s
  BY <1>2, <1>4
<1>15. \A j \in 1..Len(b) : i + j # i /\ i + j \in DOMAIN s
  BY <1>2, <1>5
<1>16. s = a \o (<<s[i]>> \o b)
  BY <1>1, <1>6, <1>9, <1>13
<1>17. Len(b) = Len(s) - i
  BY <1>1, <1>5
<1> QED BY <1>4, <1>5, <1>14, <1>15, <1>16, <1>17

-----------------------------------------------------------------------------
(* Where the prompt is *)

Promptless(parts) == \A i \in DOMAIN parts : parts[i].kind # "prompt"
Silent(said) == \A i \in DOMAIN said : said[i].part # Prompt
Places(said) == {i \in DOMAIN said : said[i].part = Prompt}

LEMMA PromptlessIs ==
  /\ \A parts \in Seq(PartType) : Only(parts, Read) = parts => Promptless(parts)
  /\ \A parts \in Seq(SaidPart) : Promptless(parts)
  /\ Promptless(<<>>)
<1>1. "prompt" \notin Read /\ "prompt" \notin Said
  BY DEF Read, Said, Results, Written
<1>2. ASSUME NEW parts \in Seq(PartType), Only(parts, Read) = parts
      PROVE  Promptless(parts)
  <2>1. \A j \in DOMAIN Only(parts, Read) : Only(parts, Read)[j].kind \in Read
    BY OnlyFrom
  <2> QED BY <1>1, <1>2, <2>1 DEF Promptless
<1>3. ASSUME NEW parts \in Seq(SaidPart)
      PROVE  Promptless(parts)
  BY <1>1, SaidPartType DEF Promptless
<1> QED BY <1>2, <1>3 DEF Promptless

LEMMA SilentBlock ==
  ASSUME NEW at \in Nat, NEW by \in Actor, NEW parts \in Seq(PartType), Promptless(parts)
  PROVE  Silent(Block(at, by, parts))
<1>1. PICK z : z = Block(at, by, parts)
  OBVIOUS
<1>2. z \in Seq(Entry) /\ Len(z) = Len(parts)
      /\ \A i \in 1..Len(parts) : z[i] = [at |-> at, by |-> by, part |-> parts[i]]
  BY <1>1, BlockIs
<1>3. ASSUME NEW i \in DOMAIN z
      PROVE  z[i].part # Prompt
  <2>1. i \in 1..Len(parts) /\ i \in DOMAIN parts
    <3>1. DOMAIN z = 1..Len(z) /\ DOMAIN parts = 1..Len(parts)
      BY <1>2
    <3> QED BY <1>2, <3>1
  <2>2. parts[i].kind # "prompt" /\ z[i].part = parts[i]
    <3>1. z[i] = [at |-> at, by |-> by, part |-> parts[i]]
      BY <1>2, <2>1
    <3>2. parts[i].kind # "prompt"
      BY <2>1 DEF Promptless
    <3> QED BY <3>1, <3>2
  <2> QED BY <2>2, PromptIs
<1> QED BY <1>1, <1>3 DEF Silent

LEMMA SilentConcat ==
  ASSUME NEW a \in Seq(Entry), NEW b \in Seq(Entry), Silent(a), Silent(b)
  PROVE  Silent(a \o b) /\ a \o b \in Seq(Entry)
<1>1. PICK c : c = a \o b
  OBVIOUS
<1>2. /\ c \in Seq(Entry) /\ Len(c) = Len(a) + Len(b)
      /\ \A i \in 1..Len(a) + Len(b) : c[i] = IF i <= Len(a) THEN a[i] ELSE b[i - Len(a)]
  BY <1>1, ConcatProperties
<1>3. ASSUME NEW i \in DOMAIN c
      PROVE  c[i].part # Prompt
  <2>1. i \in 1..Len(a) + Len(b) /\ Len(a) \in Nat /\ Len(b) \in Nat
    BY <1>2
  <2>2. CASE i <= Len(a)
    <3>1. i \in DOMAIN a /\ c[i] = a[i]
      BY <1>2, <2>1, <2>2
    <3> QED BY <3>1 DEF Silent
  <2>3. CASE ~(i <= Len(a))
    <3>1. i - Len(a) \in DOMAIN b /\ c[i] = b[i - Len(a)]
      BY <1>2, <2>1, <2>3
    <3> QED BY <3>1 DEF Silent
  <2> QED BY <2>2, <2>3
<1> QED BY <1>1, <1>2, <1>3 DEF Silent

\* e is where the prompt is.
One(said, a, e, b) ==
  /\ Places(said) = {Len(a) + 1} /\ Len(a) + 1 \in Nat
  /\ said[Len(a) + 1] = e /\ Len(said) = Len(a) + 1 + Len(b)
  /\ b # <<>> => Len(a) + 1 < Len(said) /\ said[Len(a) + 1 + 1] = b[1]
  /\ Len(a) + 1 > 1 => Len(a) \in DOMAIN a /\ said[Len(a) + 1 - 1] = a[Len(a)]

LEMMA OnePlace ==
  ASSUME NEW a \in Seq(Entry), NEW e \in Entry, NEW b \in Seq(Entry),
         Silent(a), e.part = Prompt, Silent(b)
  PROVE  One(a \o (<<e>> \o b), a, e, b)
<1>1. PICK u, c, n, k, t : t = a \o (<<e>> \o b) /\ u = <<e>> /\ c = u \o b /\ n = Len(a) /\ k = Len(b)
  OBVIOUS
<1>2. u \in Seq(Entry) /\ Len(u) = 1 /\ u[1] = e /\ n \in Nat /\ k \in Nat
  BY <1>1
<1>3. c \in Seq(Entry) /\ Len(c) = 1 + k
      /\ \A i \in 1..1 + k : c[i] = IF i <= 1 THEN u[i] ELSE b[i - 1]
  BY <1>1, <1>2, ConcatProperties
<1>4. t = a \o c
  BY <1>1
<1>5. t \in Seq(Entry) /\ Len(t) = n + Len(c)
      /\ \A i \in 1..n + Len(c) : t[i] = IF i <= n THEN a[i] ELSE c[i - n]
  BY <1>1, <1>3, <1>4, ConcatProperties
<1>6. Len(t) = n + 1 + k /\ DOMAIN t = 1..n + 1 + k
  BY <1>2, <1>3, <1>5
<1>7. /\ \A i \in 1..n : t[i] = a[i] /\ t[i].part # Prompt
      /\ t[n + 1] = e
  <2>1. ASSUME NEW i \in 1..n
        PROVE  t[i] = a[i] /\ t[i].part # Prompt
    <3>1. t[i] = a[i] /\ i \in DOMAIN a
      BY <1>1, <1>2, <1>3, <1>5
    <3> QED BY <3>1 DEF Silent
  <2>2. t[n + 1] = c[1]
    <3>1. PICK j : j = n + 1
      OBVIOUS
    <3>2. j \in 1..n + Len(c) /\ ~(j <= n) /\ j - n = 1
      BY <1>2, <1>3, <3>1
    <3>3. t[j] = c[j - n]
      BY <1>5, <3>2
    <3> QED BY <3>1, <3>2, <3>3
  <2>3. c[1] = u[1]
    BY <1>2, <1>3
  <2> QED BY <1>2, <2>1, <2>2, <2>3
<1>8. ASSUME NEW i \in 1..k
      PROVE  t[n + 1 + i] = b[i] /\ t[n + 1 + i].part # Prompt
  <2>1. t[n + 1 + i] = c[1 + i]
    <3>1. PICK j : j = n + 1 + i
      OBVIOUS
    <3>2. j \in 1..n + Len(c) /\ ~(j <= n) /\ j - n = 1 + i
      BY <1>2, <1>3, <3>1
    <3>3. t[j] = c[j - n]
      BY <1>5, <3>2
    <3> QED BY <3>1, <3>2, <3>3
  <2>2. c[1 + i] = b[i] /\ i \in DOMAIN b
    BY <1>1, <1>2, <1>3
  <2> QED BY <2>1, <2>2 DEF Silent
<1>9. Places(t) = {n + 1}
  <2>1. ASSUME NEW i \in DOMAIN t
        PROVE  t[i].part = Prompt <=> i = n + 1
    <3>1. i \in 1..n \/ i = n + 1 \/ i - n - 1 \in 1..k
      BY <1>2, <1>6
    <3>2. CASE i \in 1..n
      BY <1>2, <1>7, <3>2
    <3>3. CASE i - n - 1 \in 1..k
      <4>1. PICK l \in 1..k : l = i - n - 1
        BY <3>3
      <4>2. i \in Nat /\ i = n + 1 + l /\ i # n + 1
        BY <1>2, <1>6, <4>1
      <4> QED BY <1>8, <4>2
    <3> QED BY <1>7, <3>1, <3>2, <3>3
  <2>2. n + 1 \in DOMAIN t
    BY <1>2, <1>6
  <2> QED BY <2>1, <2>2 DEF Places
<1>10. b # <<>> => n + 1 < Len(t) /\ t[n + 1 + 1] = b[1]
  <2>1. b # <<>> => k > 0
    BY <1>1, EmptySeq
  <2> QED BY <1>2, <1>6, <1>8, <2>1
<1>11. n + 1 > 1 => n \in DOMAIN a /\ t[n + 1 - 1] = a[n]
  BY <1>1, <1>2, <1>7
<1>12. /\ Places(t) = {n + 1} /\ n + 1 \in Nat /\ t[n + 1] = e /\ Len(t) = n + 1 + k
       /\ b # <<>> => n + 1 < Len(t) /\ t[n + 1 + 1] = b[1]
       /\ n + 1 > 1 => n \in DOMAIN a /\ t[n + 1 - 1] = a[n]
  BY <1>2, <1>6, <1>7, <1>9, <1>10, <1>11
<1>13. t = a \o (<<e>> \o b) /\ n = Len(a) /\ k = Len(b)
  BY <1>1
<1>14. One(t, a, e, b)
  BY <1>12, <1>13 DEF One
<1> QED BY <1>13, <1>14

\* A list of lists that is joined as it is.
Itself == [x \in Seq(Entry) |-> x]

LEMMA ItselfIs ==
  ASSUME NEW list \in Seq(Seq(Entry))
  PROVE  /\ Makes(Itself, Seq(Entry), Seq(Entry))
         /\ FlattenSeq(list) = Flat(Itself, list) /\ FlattenSeq(list) \in Seq(Entry)
<1>1. Makes(Itself, Seq(Entry), Seq(Entry))
  BY DEF Makes, Itself
<1>2. Map(Itself, list) = list
  <2>1. PICK z : z = Map(Itself, list)
    OBVIOUS
  <2>2. z \in Seq(Seq(Entry)) /\ Len(z) = Len(list)
    BY <1>1, <2>1, MapIs
  <2>3. \A i \in 1..Len(z) : z[i] = list[i]
    <3>1. ASSUME NEW i \in 1..Len(list)
          PROVE  z[i] = list[i]
      <4>1. z[i] = Itself[list[i]]
        <5>1. i \in DOMAIN list
          OBVIOUS
        <5> QED BY <2>1, <5>1 DEF Map
      <4>2. list[i] \in Seq(Entry)
        OBVIOUS
      <4> QED BY <4>1, <4>2 DEF Itself
    <3> QED BY <2>2, <3>1
  <2>4. z = list
    BY <2>2, <2>3, SeqEqual
  <2> QED BY <2>1, <2>4
<1>3. Flat(Itself, list) \in Seq(Entry)
  BY <1>1, FlatType
<1> QED BY <1>1, <1>2, <1>3 DEF Flat

AllSilent(list) == \A i \in DOMAIN list : Silent(list[i])

LEMMA JoinedSilent ==
  ASSUME NEW list \in Seq(Seq(Entry)), AllSilent(list)
  PROVE  Silent(Flat(Itself, list)) /\ Flat(Itself, list) \in Seq(Entry)
<1>1. PICK f : f = Itself
  OBVIOUS
<1>2. Makes(f, Seq(Entry), Seq(Entry))
  BY <1>1, ItselfIs
<1>3. PICK z : z = Flat(f, list)
  OBVIOUS
<1>4. \A j \in DOMAIN Flat(f, list) : \E i \in DOMAIN list : \E k \in DOMAIN f[list[i]] :
              Flat(f, list)[j] = f[list[i]][k]
  BY <1>2, FlatFrom
<1>5. ASSUME NEW j \in DOMAIN z
      PROVE  z[j].part # Prompt
  <2>1. PICK i \in DOMAIN list : \E k \in DOMAIN f[list[i]] : z[j] = f[list[i]][k]
    BY <1>3, <1>4
  <2>2. PICK k \in DOMAIN f[list[i]] : z[j] = f[list[i]][k]
    BY <2>1
  <2>3. list[i] \in Seq(Entry)
    OBVIOUS
  <2>4. f[list[i]] = list[i]
    BY <1>1, <2>3 DEF Itself
  <2>5. Silent(list[i])
    BY DEF AllSilent
  <2> QED BY <2>2, <2>4, <2>5 DEF Silent
<1>6. z \in Seq(Entry)
  BY <1>2, <1>3, FlatType
<1> QED BY <1>1, <1>3, <1>5, <1>6 DEF Silent

\* All that is read, the prompt too.
Reading(instructions, messages) == Spoken(instructions, messages, AnyKind)

LEMMA AllOfThem ==
  ASSUME NEW parts \in Seq(PartType)
  PROVE  Only(parts, AnyKind) = parts
<1>1. \A i \in DOMAIN parts : parts[i].kind \in AnyKind
  <2>1. ASSUME NEW i \in DOMAIN parts
        PROVE  parts[i].kind \in AnyKind
    <3>1. parts[i] \in PartType
      OBVIOUS
    <3> QED BY <3>1, PartKind
  <2> QED BY <2>1
<1> QED BY <1>1, OnlyAll

LEMMA ReadingIs ==
  ASSUME NEW instructions \in Seq(PartType), NEW messages \in Seq(MessageType)
  PROVE  /\ Reading(instructions, messages)
              = Block(0, "system", instructions) \o Flat(Itself, Blocks(messages, AnyKind))
         /\ Blocks(messages, AnyKind) \in Seq(Seq(Entry))
         /\ Len(Blocks(messages, AnyKind)) = Len(messages)
         /\ \A i \in DOMAIN messages :
              Blocks(messages, AnyKind)[i] = Block(i, Speaker(messages[i]), messages[i].parts)
<1>1. PICK z : z = Blocks(messages, AnyKind)
  OBVIOUS
<1>2. z \in Seq(Seq(Entry)) /\ Len(z) = Len(messages)
  BY <1>1, BlocksType
<1>3. FlattenSeq(z) = Flat(Itself, z)
  BY <1>2, ItselfIs
<1>4. Spoken(instructions, messages, AnyKind)
        = Block(0, "system", Only(instructions, AnyKind)) \o FlattenSeq(z)
  BY <1>1, SpokenType
<1>5. Only(instructions, AnyKind) = instructions
  BY AllOfThem
<1>6. ASSUME NEW i \in DOMAIN messages
      PROVE  z[i] = Block(i, Speaker(messages[i]), messages[i].parts)
  <2>1. PICK p : p = messages[i].parts
    OBVIOUS
  <2>2. messages[i] \in MessageType
    OBVIOUS
  <2>3. p \in Seq(PartType)
    BY <2>1, <2>2 DEF MessageType
  <2>4. Only(p, AnyKind) = p
    BY <2>3, AllOfThem
  <2>5. z[i] = Block(i, Speaker(messages[i]), Only(messages[i].parts, AnyKind))
    BY <1>1 DEF Blocks
  <2> QED BY <2>1, <2>4, <2>5
<1> QED BY <1>1, <1>2, <1>3, <1>4, <1>5, <1>6 DEF Reading

Elsewhere(messages, k) == \A i \in DOMAIN messages : i # k => Promptless(messages[i].parts)
AllPromptless(messages) == \A i \in DOMAIN messages : Promptless(messages[i].parts)

LEMMA MessageSilent ==
  ASSUME NEW messages \in Seq(MessageType), NEW i \in DOMAIN messages, Promptless(messages[i].parts)
  PROVE  Silent(Block(i, Speaker(messages[i]), messages[i].parts))
<1>1. PICK m, p, by : m = messages[i] /\ p = m.parts /\ by = Speaker(m)
  OBVIOUS
<1>2. m \in MessageType
  BY <1>1
<1>3. p \in Seq(PartType) /\ by \in Actor /\ i \in Nat
  BY <1>1, <1>2, SpeakerType DEF MessageType
<1>4. Promptless(p)
  BY <1>1
<1>5. Silent(Block(i, by, p))
  BY <1>3, <1>4, SilentBlock
<1> QED BY <1>1, <1>5

\* Nothing is read as the prompt if it is nowhere.
LEMMA PromptNowhere ==
  ASSUME NEW instructions \in Seq(PartType), Promptless(instructions),
         NEW messages \in Seq(MessageType), AllPromptless(messages)
  PROVE  /\ Silent(Reading(instructions, messages)) /\ Places(Reading(instructions, messages)) = {}
         /\ Silent(Flat(Itself, Blocks(messages, AnyKind)))
         /\ Flat(Itself, Blocks(messages, AnyKind)) \in Seq(Entry)
<1>1. PICK z, y, b : /\ z = Blocks(messages, AnyKind) /\ y = Flat(Itself, z)
                     /\ b = Block(0, "system", instructions)
  OBVIOUS
<1>2. z \in Seq(Seq(Entry)) /\ Len(z) = Len(messages)
  BY <1>1, ReadingIs
<1>3. AllSilent(z)
  <2>1. ASSUME NEW i \in DOMAIN z
        PROVE  Silent(z[i])
    <3>1. i \in DOMAIN messages
      BY <1>2
    <3>2. z[i] = Block(i, Speaker(messages[i]), messages[i].parts)
      BY <1>1, <3>1, ReadingIs
    <3>3. Promptless(messages[i].parts)
      BY <3>1 DEF AllPromptless
    <3> QED BY <3>1, <3>2, <3>3, MessageSilent
  <2> QED BY <2>1 DEF AllSilent
<1>4. Silent(y) /\ y \in Seq(Entry)
  BY <1>1, <1>2, <1>3, JoinedSilent
<1>5. Silent(b) /\ b \in Seq(Entry)
  <2>1. "system" \in Actor /\ 0 \in Nat
    BY DEF Actor
  <2> QED BY <1>1, <2>1, SilentBlock, BlockIs
<1>6. PICK r : r = b \o y
  OBVIOUS
<1>7. Silent(r)
  BY <1>4, <1>5, <1>6, SilentConcat
<1>8. Places(r) = {}
  BY <1>7 DEF Places, Silent
<1>9. Reading(instructions, messages) = r
  BY <1>1, <1>6, ReadingIs
<1> QED BY <1>1, <1>4, <1>7, <1>8, <1>9

\* A block that begins with the prompt.
LEMMA PromptedBlock ==
  ASSUME NEW at \in Nat, NEW by \in Actor, NEW parts \in Seq(PartType)
  PROVE  /\ Block(at, by, <<Prompt>> \o parts)
              = <<[at |-> at, by |-> by, part |-> Prompt]>> \o Block(at, by, parts)
         /\ [at |-> at, by |-> by, part |-> Prompt] \in Entry
<1>1. PICK u, q, e, x : /\ u = <<Prompt>> /\ q = u \o parts /\ x = Block(at, by, q)
                        /\ e = [at |-> at, by |-> by, part |-> Prompt]
  OBVIOUS
<1>2. u \in Seq(PartType) /\ Len(u) = 1 /\ u[1] = Prompt
  BY <1>1, PromptIs
<1>3. q \in Seq(PartType) /\ Len(q) = 1 + Len(parts)
      /\ \A i \in 1..1 + Len(parts) : q[i] = IF i <= 1 THEN u[i] ELSE parts[i - 1]
  BY <1>1, <1>2, ConcatProperties
<1>4. x \in Seq(Entry) /\ Len(x) = Len(q)
      /\ \A i \in 1..Len(q) : x[i] = [at |-> at, by |-> by, part |-> q[i]]
  BY <1>1, <1>3, BlockIs
<1>5. PICK d, y, v : d = Block(at, by, parts) /\ v = <<e>> /\ y = v \o d
  OBVIOUS
<1>6. d \in Seq(Entry) /\ Len(d) = Len(parts)
      /\ \A i \in 1..Len(parts) : d[i] = [at |-> at, by |-> by, part |-> parts[i]]
  BY <1>5, BlockIs
<1>7. e \in Entry
  BY <1>1, PromptIs DEF Entry
<1>8. v \in Seq(Entry) /\ Len(v) = 1 /\ v[1] = e
  BY <1>5, <1>7
<1>9. y \in Seq(Entry) /\ Len(y) = 1 + Len(d)
      /\ \A i \in 1..1 + Len(d) : y[i] = IF i <= 1 THEN v[i] ELSE d[i - 1]
  BY <1>5, <1>6, <1>8, ConcatProperties
<1>10. ASSUME NEW i \in 1..Len(x)
       PROVE  x[i] = y[i]
  <2>1. i \in 1..Len(q) /\ i \in 1..1 + Len(parts) /\ i \in 1..1 + Len(d)
    BY <1>3, <1>4, <1>6
  <2>2. CASE i = 1
    <3>1. q[1] = Prompt /\ x[1] = [at |-> at, by |-> by, part |-> q[1]] /\ y[1] = e
      BY <1>2, <1>3, <1>4, <1>8, <1>9, <2>1, <2>2
    <3> QED BY <1>1, <2>2, <3>1
  <2>3. CASE i # 1
    <3>1. PICK j : j = i - 1
      OBVIOUS
    <3>2. j \in 1..Len(parts) /\ ~(i <= 1)
      BY <2>1, <2>3, <3>1
    <3>3. q[i] = parts[j] /\ y[i] = d[j]
      BY <1>3, <1>9, <2>1, <3>1, <3>2
    <3>4. d[j] = [at |-> at, by |-> by, part |-> parts[j]]
      BY <1>6, <3>2
    <3>5. x[i] = [at |-> at, by |-> by, part |-> q[i]]
      BY <1>4, <2>1
    <3> QED BY <3>3, <3>4, <3>5
  <2> QED BY <2>2, <2>3
<1>11. x = y
  <2>1. Len(x) = Len(y)
    BY <1>3, <1>4, <1>6, <1>9
  <2> QED BY <1>4, <1>9, <1>10, <2>1, SeqEqual
<1> QED BY <1>1, <1>5, <1>7, <1>11

LEMMA Regrouped ==
  ASSUME NEW a \in Seq(Entry), NEW b \in Seq(Entry), NEW c \in Seq(Entry)
  PROVE  Associates(a, b, c)
BY ConcatRegrouped

LEMMA BlocksSplit ==
  ASSUME NEW u \in Seq(Seq(Entry)), NEW w \in Seq(Entry), NEW v \in Seq(Seq(Entry))
  PROVE  Flat(Itself, u \o (<<w>> \o v)) = Flat(Itself, u) \o (Itself[w] \o Flat(Itself, v))
<1>1. Makes(Itself, Seq(Entry), Seq(Entry))
  BY DEF Makes, Itself
<1>2. PICK o, c : o = <<w>> /\ c = o \o v
  OBVIOUS
<1>3. o \in Seq(Seq(Entry)) /\ c \in Seq(Seq(Entry))
  BY <1>2
<1>4. Flat(Itself, u \o c) = Flat(Itself, u) \o Flat(Itself, c)
  BY <1>1, <1>3, FlatConcat, SMTT(30)
<1>5. Flat(Itself, o \o v) = Flat(Itself, o) \o Flat(Itself, v)
  BY <1>1, <1>3, FlatConcat, SMTT(30)
<1>6. Flat(Itself, <<w>>) = Itself[w]
  BY <1>1, FlatOne
<1> QED BY <1>2, <1>4, <1>5, <1>6

\* The blocks of messages of which one begins with the prompt.
LEMMA BlocksAround ==
  ASSUME NEW messages \in Seq(MessageType), NEW k \in DOMAIN messages, NEW parts \in Seq(PartType),
         Promptless(parts), messages[k].parts = <<Prompt>> \o parts, Elsewhere(messages, k)
  PROVE  \E a \in Seq(Entry) : \E b \in Seq(Entry) :
           /\ Flat(Itself, Blocks(messages, AnyKind))
                = a \o (<<[at |-> k, by |-> Speaker(messages[k]), part |-> Prompt]>>
                          \o (Block(k, Speaker(messages[k]), parts) \o b))
           /\ Silent(a) /\ Silent(b)
           /\ k = 1 => a = <<>>
           /\ k = Len(messages) => b = <<>>
<1>1. PICK z, by, e, d : /\ z = Blocks(messages, AnyKind) /\ by = Speaker(messages[k])
                         /\ e = [at |-> k, by |-> by, part |-> Prompt]
                         /\ d = Block(k, by, parts)
  OBVIOUS
<1>2. z \in Seq(Seq(Entry)) /\ Len(z) = Len(messages)
  BY <1>1, ReadingIs
<1>3. k \in 1..Len(z) /\ k \in Nat /\ DOMAIN z = DOMAIN messages
  BY <1>2
<1>4. by \in Actor
  <2>1. messages[k] \in MessageType
    OBVIOUS
  <2> QED BY <1>1, <2>1, SpeakerType
<1>5. z[k] = <<e>> \o d /\ d \in Seq(Entry) /\ e \in Entry
  <2>1. z[k] = Block(k, by, <<Prompt>> \o parts)
    <3>1. Blocks(messages, AnyKind)[k] = Block(k, Speaker(messages[k]), messages[k].parts)
      BY ReadingIs
    <3> QED BY <1>1, <3>1
  <2>2. Block(k, by, <<Prompt>> \o parts) = <<e>> \o d /\ e \in Entry
    BY <1>1, <1>3, <1>4, PromptedBlock
  <2>3. d \in Seq(Entry)
    BY <1>1, <1>3, <1>4, BlockIs
  <2> QED BY <2>1, <2>2, <2>3
<1>6. PICK u \in Seq(Seq(Entry)), v \in Seq(Seq(Entry)) :
        /\ z = u \o (<<z[k]>> \o v)
        /\ Len(u) = k - 1 /\ Len(v) = Len(z) - k
        /\ \A j \in 1..Len(u) : u[j] = z[j] /\ j # k /\ j \in DOMAIN z
        /\ \A j \in 1..Len(v) : v[j] = z[k + j] /\ k + j # k /\ k + j \in DOMAIN z
  BY <1>2, <1>3, Around
<1>7. \A j \in DOMAIN z : j # k => Silent(z[j])
  <2>1. ASSUME NEW j \in DOMAIN z, j # k
        PROVE  Silent(z[j])
    <3>1. j \in DOMAIN messages
      BY <1>3
    <3>2. z[j] = Block(j, Speaker(messages[j]), messages[j].parts)
      BY <1>1, <3>1, ReadingIs
    <3>3. Promptless(messages[j].parts)
      BY <2>1, <3>1 DEF Elsewhere
    <3> QED BY <3>1, <3>2, <3>3, MessageSilent
  <2> QED BY <2>1
<1>8. AllSilent(u) /\ AllSilent(v)
  <2>1. DOMAIN u = 1..Len(u) /\ DOMAIN v = 1..Len(v)
    OBVIOUS
  <2>2. ASSUME NEW j \in 1..Len(u)
        PROVE  Silent(u[j])
    BY <1>6, <1>7
  <2>3. ASSUME NEW j \in 1..Len(v)
        PROVE  Silent(v[j])
    <3>1. PICK i : i = k + j
      OBVIOUS
    <3>2. v[j] = z[i] /\ i # k /\ i \in DOMAIN z
      BY <1>6, <3>1
    <3> QED BY <1>7, <3>2
  <2> QED BY <2>1, <2>2, <2>3 DEF AllSilent
<1>9. PICK a, b, w : a = Flat(Itself, u) /\ b = Flat(Itself, v) /\ w = z[k]
  OBVIOUS
<1>10. Silent(a) /\ Silent(b) /\ a \in Seq(Entry) /\ b \in Seq(Entry)
  BY <1>8, <1>9, JoinedSilent
<1>11. w \in Seq(Entry) /\ Itself[w] = w
  <2>1. w \in Seq(Entry)
    BY <1>2, <1>3, <1>9
  <2> QED BY <2>1 DEF Itself
<1>12. Flat(Itself, z) = a \o (w \o b)
  <2>1. Makes(Itself, Seq(Entry), Seq(Entry))
    BY <1>2, ItselfIs
  <2>2. Flat(Itself, u \o (<<w>> \o v)) = Flat(Itself, u) \o (Itself[w] \o Flat(Itself, v))
    <3>1. w \in Seq(Entry) /\ u \in Seq(Seq(Entry)) /\ v \in Seq(Seq(Entry))
      BY <1>6, <1>11
    <3> QED BY <3>1, BlocksSplit
  <2>3. z = u \o (<<w>> \o v)
    BY <1>6, <1>9
  <2> QED BY <1>9, <1>11, <2>2, <2>3
<1>13. w \o b = <<e>> \o (d \o b)
  <2>1. PICK o : o = <<e>>
    OBVIOUS
  <2>2. o \in Seq(Entry)
    BY <1>5, <2>1
  <2>3. (o \o d) \o b = o \o (d \o b)
    <3>1. d \in Seq(Entry) /\ b \in Seq(Entry)
      BY <1>5, <1>10
    <3>2. Associates(o, d, b)
      BY <2>2, <3>1, Regrouped
    <3> QED BY <3>2 DEF Associates
  <2> QED BY <1>5, <1>9, <2>1, <2>3
<1>14. k = 1 => a = <<>>
  <2>1. k = 1 => u = <<>>
    BY <1>3, <1>6, EmptySeq
  <2> QED BY <1>9, <2>1, FlatEmpty
<1>15. k = Len(messages) => b = <<>>
  <2>1. k = Len(messages) => v = <<>>
    <3>1. Len(v) = Len(z) - k /\ v \in Seq(Seq(Entry))
      BY <1>6
    <3>2. k = Len(messages) => Len(v) = 0
      BY <1>2, <1>3, <3>1
    <3> QED BY <3>1, <3>2, EmptySeq
  <2> QED BY <1>9, <2>1, FlatEmpty
<1>16. Flat(Itself, z) = a \o (<<e>> \o (d \o b))
  BY <1>12, <1>13
<1> QED BY <1>1, <1>10, <1>14, <1>15, <1>16

\* Where the prompt is read if it is in front of the parts of the message at k.
ReadAt(said, p, k, by, parts, end) ==
  /\ p \in Nat /\ Places(said) = {p} /\ said[p] = [at |-> k, by |-> by, part |-> Prompt]
  /\ parts # <<>> => p < Len(said) /\ said[p + 1] = [at |-> k, by |-> by, part |-> parts[1]]
  /\ parts = <<>> /\ k = end => p = Len(said)
  /\ k = 1 /\ p > 1 => said[p - 1].at = 0

LEMMA PromptInMessage ==
  ASSUME NEW instructions \in Seq(PartType), Promptless(instructions),
         NEW messages \in Seq(MessageType), NEW k \in DOMAIN messages, NEW parts \in Seq(PartType),
         Promptless(parts), messages[k].parts = <<Prompt>> \o parts, Elsewhere(messages, k)
  PROVE  \E p \in Nat : ReadAt(Reading(instructions, messages), p, k, Speaker(messages[k]), parts,
                               Len(messages))
<1>1. PICK by, e, d, y : /\ by = Speaker(messages[k]) /\ e = [at |-> k, by |-> by, part |-> Prompt]
                         /\ d = Block(k, by, parts) /\ y = Flat(Itself, Blocks(messages, AnyKind))
  OBVIOUS
<1>2. by \in Actor /\ k \in Nat
  <2>1. messages[k] \in MessageType /\ k \in Nat
    OBVIOUS
  <2> QED BY <1>1, <2>1, SpeakerType
<1>3. PICK a \in Seq(Entry), b \in Seq(Entry) :
        /\ y = a \o (<<e>> \o (d \o b))
        /\ Silent(a) /\ Silent(b)
        /\ k = 1 => a = <<>>
        /\ k = Len(messages) => b = <<>>
  BY <1>1, BlocksAround, ZenonT(30)
<1>4. e \in Entry /\ e.part = Prompt
  BY <1>1, <1>2, PromptIs DEF Entry
<1>5. /\ d \in Seq(Entry) /\ Silent(d) /\ Len(d) = Len(parts)
      /\ \A i \in 1..Len(parts) : d[i] = [at |-> k, by |-> by, part |-> parts[i]]
  BY <1>1, <1>2, BlockIs, SilentBlock
<1>6. PICK g, h : g = Block(0, "system", instructions) /\ h = d \o b
  OBVIOUS
<1>7. /\ g \in Seq(Entry) /\ Silent(g) /\ Len(g) = Len(instructions)
      /\ \A i \in 1..Len(instructions) : g[i] = [at |-> 0, by |-> "system", part |-> instructions[i]]
  <2>1. "system" \in Actor /\ 0 \in Nat
    BY DEF Actor
  <2> QED BY <1>6, <2>1, BlockIs, SilentBlock
<1>8. /\ h \in Seq(Entry) /\ Silent(h) /\ Len(h) = Len(d) + Len(b)
      /\ \A i \in 1..Len(d) + Len(b) : h[i] = IF i <= Len(d) THEN d[i] ELSE b[i - Len(d)]
  <2>1. d \in Seq(Entry) /\ Silent(d) /\ b \in Seq(Entry) /\ Silent(b)
    BY <1>3, <1>5
  <2>2. h \in Seq(Entry) /\ Silent(h)
    BY <1>6, <2>1, SilentConcat
  <2> QED BY <1>6, <2>1, <2>2, ConcatProperties
<1>9. PICK q, u, r : q = g \o a /\ u = <<e>> /\ r = Reading(instructions, messages)
  OBVIOUS
<1>10. q \in Seq(Entry) /\ Silent(q)
  BY <1>3, <1>7, <1>9, SilentConcat
<1>11. r = q \o (u \o h)
  <2>1. r = g \o y
    BY <1>1, <1>6, <1>9, ReadingIs
  <2>2. PICK t : t = u \o h
    OBVIOUS
  <2>3. t \in Seq(Entry) /\ y = a \o t
    <3>1. u \in Seq(Entry)
      BY <1>4, <1>9
    <3> QED BY <1>3, <1>6, <1>8, <1>9, <2>2, <3>1
  <2>4. g \o (a \o t) = (g \o a) \o t
    <3>1. g \in Seq(Entry) /\ a \in Seq(Entry) /\ t \in Seq(Entry)
      BY <1>3, <1>7, <2>3
    <3>2. Associates(g, a, t)
      BY <3>1, Regrouped
    <3> QED BY <3>2 DEF Associates
  <2> QED BY <1>9, <2>1, <2>2, <2>3, <2>4
<1>12. /\ Places(r) = {Len(q) + 1} /\ Len(q) + 1 \in Nat
       /\ r[Len(q) + 1] = e /\ Len(r) = Len(q) + 1 + Len(h)
       /\ h # <<>> => Len(q) + 1 < Len(r) /\ r[Len(q) + 1 + 1] = h[1]
       /\ Len(q) + 1 > 1 => Len(q) \in DOMAIN q /\ r[Len(q) + 1 - 1] = q[Len(q)]
  <2>1. r = q \o (<<e>> \o h)
    BY <1>9, <1>11
  <2>2. h \in Seq(Entry) /\ Silent(h)
    BY <1>8
  <2>3. One(q \o (<<e>> \o h), q, e, h)
    BY <1>4, <1>10, <2>2, OnePlace
  <2>4. One(r, q, e, h)
    BY <2>1, <2>3
  <2> QED BY <2>4 DEF One
<1>13. PICK p : p = Len(q) + 1
  OBVIOUS
<1>14. /\ Places(r) = {p} /\ p \in Nat /\ r[p] = e /\ Len(r) = p + Len(h)
       /\ h # <<>> => p < Len(r) /\ r[p + 1] = h[1]
       /\ p > 1 => Len(q) \in DOMAIN q /\ r[p - 1] = q[Len(q)]
  BY <1>12, <1>13
<1>15. parts # <<>> => h # <<>> /\ h[1] = [at |-> k, by |-> by, part |-> parts[1]]
  <2>1. ASSUME parts # <<>>
        PROVE  h # <<>> /\ h[1] = [at |-> k, by |-> by, part |-> parts[1]]
    <3>1. Len(parts) > 0 /\ Len(parts) \in Nat /\ Len(b) \in Nat
      BY <2>1, EmptySeq
    <3>2. 1 \in 1..Len(d) + Len(b) /\ 1 <= Len(d) /\ 1 \in 1..Len(parts)
      BY <1>5, <3>1
    <3>3. h[1] = d[1] /\ d[1] = [at |-> k, by |-> by, part |-> parts[1]]
      BY <1>5, <1>8, <3>2
    <3>4. Len(h) # 0
      BY <1>5, <1>8, <3>1
    <3>5. h # <<>>
      BY <1>8, <3>4, EmptySeq
    <3> QED BY <3>3, <3>5
  <2> QED BY <2>1
<1>16. parts = <<>> /\ k = Len(messages) => p = Len(r)
  <2>1. ASSUME parts = <<>>, k = Len(messages)
        PROVE  p = Len(r)
    <3>1. Len(d) = 0 /\ Len(b) = 0
      BY <1>3, <1>5, <2>1, EmptySeq
    <3>2. Len(h) = 0
      BY <1>8, <3>1
    <3> QED BY <1>14, <3>2
  <2> QED BY <2>1
<1>17. k = 1 /\ p > 1 => r[p - 1].at = 0
  <2>1. ASSUME k = 1, p > 1
        PROVE  r[p - 1].at = 0
    <3>1. q = g
      <4>1. a = <<>>
        BY <1>3, <2>1
      <4>2. g \o <<>> = g
        BY <1>7, ConcatEmptySeq
      <4> QED BY <1>9, <4>1, <4>2
    <3>2. Len(q) \in DOMAIN g /\ r[p - 1] = g[Len(q)]
      BY <1>14, <2>1, <3>1
    <3>3. Len(q) \in 1..Len(instructions)
      BY <1>7, <3>2
    <3>4. g[Len(q)] = [at |-> 0, by |-> "system", part |-> instructions[Len(q)]]
      BY <1>7, <3>3
    <3> QED BY <3>2, <3>4
  <2> QED BY <2>1
<1>18. ReadAt(r, p, k, by, parts, Len(messages))
  BY <1>1, <1>14, <1>15, <1>16, <1>17 DEF ReadAt
<1> QED BY <1>1, <1>9, <1>14, <1>18

\* In front of the instructions.
LEMMA PromptInSystem ==
  ASSUME NEW instructions \in Seq(PartType), Promptless(instructions),
         NEW messages \in Seq(MessageType), AllPromptless(messages)
  PROVE  /\ Places(Reading(<<Prompt>> \o instructions, messages)) = {1}
         /\ Reading(<<Prompt>> \o instructions, messages)[1].at = 0
<1>1. PICK e, d, y, w, by : /\ by = "system" /\ e = [at |-> 0, by |-> by, part |-> Prompt]
                            /\ d = Block(0, by, instructions)
                            /\ y = Flat(Itself, Blocks(messages, AnyKind))
                            /\ w = <<Prompt>> \o instructions
  OBVIOUS
<1>2. by \in Actor /\ 0 \in Nat
  BY <1>1 DEF Actor
<1>3. w \in Seq(PartType)
  BY <1>1, PromptIs
<1>4. PICK r : r = Reading(w, messages)
  OBVIOUS
<1>5. r = Block(0, by, w) \o y
  BY <1>1, <1>3, <1>4, ReadingIs
<1>6. Block(0, by, w) = <<e>> \o d /\ e \in Entry /\ e.part = Prompt /\ e.at = 0
  BY <1>1, <1>2, PromptedBlock
<1>7. d \in Seq(Entry) /\ Silent(d)
  BY <1>1, <1>2, BlockIs, SilentBlock
<1>8. y \in Seq(Entry) /\ Silent(y)
  BY <1>1, PromptNowhere
<1>9. PICK h, u, n : h = d \o y /\ u = <<e>> /\ n = <<>>
  OBVIOUS
<1>10. h \in Seq(Entry) /\ Silent(h) /\ u \in Seq(Entry)
  BY <1>6, <1>7, <1>8, <1>9, SilentConcat
<1>11. r = n \o (u \o h)
  <2>1. (u \o d) \o y = u \o (d \o y)
    <3>1. Associates(u, d, y)
      BY <1>7, <1>8, <1>10, Regrouped
    <3> QED BY <3>1 DEF Associates
  <2>2. PICK t : t = u \o h
    OBVIOUS
  <2>3. t \in Seq(Entry)
    BY <1>10, <2>2
  <2>4. <<>> \o t = t
    BY <2>3, ConcatEmptySeq
  <2> QED BY <1>5, <1>6, <1>9, <2>1, <2>2, <2>4
<1>12. n \in Seq(Entry) /\ Silent(n) /\ Len(n) = 0
  BY <1>9 DEF Silent
<1>13. Places(r) = {Len(n) + 1} /\ r[Len(n) + 1] = e
  <2>1. r = n \o (<<e>> \o h)
    BY <1>9, <1>11
  <2>2. One(n \o (<<e>> \o h), n, e, h)
    BY <1>6, <1>10, <1>12, OnePlace
  <2>3. One(r, n, e, h)
    BY <2>1, <2>2
  <2> QED BY <2>3 DEF One
<1>14. Places(r) = {1} /\ r[1] = e
  BY <1>12, <1>13
<1> QED BY <1>1, <1>4, <1>6, <1>14

\* Where the prompt is read if it is a message in front of all.
InFront(said, p, by) ==
  /\ p \in Nat /\ Places(said) = {p} /\ said[p].at = 1 /\ said[p].by = by
  /\ p > 1 => said[p - 1].at = 0

LEMMA FrontPlace ==
  ASSUME NEW instructions \in Seq(PartType), Promptless(instructions),
         NEW messages \in Seq(MessageType), AllPromptless(messages), NEW role \in Role
  PROVE  \E p \in Nat : InFront(Reading(instructions, <<PromptMessage(role)>> \o messages), p,
                                Speaker(PromptMessage(role)))
<1>1. PICK m, u, t, none : /\ m = PromptMessage(role) /\ u = <<m>> /\ t = u \o messages /\ none = <<>>
  OBVIOUS
<1>2. m \in MessageType /\ m.parts = <<Prompt>>
  BY <1>1, PromptMessageIs
<1>3. u \in Seq(MessageType) /\ Len(u) = 1 /\ u[1] = m
  BY <1>1, <1>2
<1>4. t \in Seq(MessageType) /\ Len(t) = 1 + Len(messages)
      /\ \A i \in 1..1 + Len(messages) : t[i] = IF i <= 1 THEN u[i] ELSE messages[i - 1]
  BY <1>1, <1>3, ConcatProperties
<1>5. PICK k : k = 1
  OBVIOUS
<1>6. k \in DOMAIN t /\ t[k] = m
  <2>1. DOMAIN t = 1..1 + Len(messages) /\ Len(messages) \in Nat
    BY <1>4
  <2> QED BY <1>3, <1>4, <1>5, <2>1
<1>7. none \in Seq(PartType) /\ Promptless(none)
  BY <1>1 DEF Promptless
<1>8. t[k].parts = <<Prompt>> \o none
  <2>1. <<Prompt>> \o <<>> = <<Prompt>>
    BY PromptIs, ConcatEmptySeq
  <2> QED BY <1>1, <1>2, <1>6, <2>1
<1>9. Elsewhere(t, k)
  <2>1. ASSUME NEW i \in DOMAIN t, i # k
        PROVE  Promptless(t[i].parts)
    <3>1. PICK j : j = i - 1
      OBVIOUS
    <3>2. i \in 1..1 + Len(messages) /\ ~(i <= 1) /\ j \in 1..Len(messages)
      BY <1>4, <1>5, <2>1, <3>1
    <3>3. t[i] = messages[j] /\ j \in DOMAIN messages
      BY <1>4, <3>1, <3>2
    <3> QED BY <3>3 DEF AllPromptless
  <2> QED BY <2>1 DEF Elsewhere
<1>10. PICK p \in Nat : ReadAt(Reading(instructions, t), p, k, Speaker(t[k]), none, Len(t))
  BY <1>4, <1>6, <1>7, <1>8, <1>9, PromptInMessage
<1>11. PICK r, by : r = Reading(instructions, t) /\ by = Speaker(m)
  OBVIOUS
<1>12. ReadAt(r, p, k, by, none, Len(t))
  BY <1>6, <1>10, <1>11
<1>13. /\ p \in Nat /\ Places(r) = {p} /\ r[p] = [at |-> k, by |-> by, part |-> Prompt]
       /\ k = 1 /\ p > 1 => r[p - 1].at = 0
  BY <1>12 DEF ReadAt
<1>14. InFront(r, p, by)
  BY <1>5, <1>13 DEF InFront
<1> QED BY <1>1, <1>11, <1>13, <1>14

\* Where the prompt is read if it is in one of the messages, or after all.
AtLatest(said, p, messages, index) ==
  /\ p \in Nat /\ Places(said) = {p}
  /\ index \in DOMAIN messages /\ messages[index].parts # <<>> =>
       /\ p < Len(said)
       /\ said[p] = [at |-> index, by |-> Speaker(messages[index]), part |-> Prompt]
       /\ said[p + 1] = [at |-> index, by |-> Speaker(messages[index]),
                         part |-> messages[index].parts[1]]
  /\ index \notin DOMAIN messages => p = Len(said) /\ said[p].by = "user"

LEMMA LatestPlace ==
  ASSUME NEW instructions \in Seq(PartType), Promptless(instructions),
         NEW messages \in Seq(MessageType), AllPromptless(messages), NEW index
  PROVE  \E p \in Nat : AtLatest(Reading(instructions, IntoLatest(messages, index)), p, messages, index)
<1>1. PICK t, r : t = IntoLatest(messages, index) /\ r = Reading(instructions, t)
  OBVIOUS
<1>2. CASE index \in DOMAIN messages
  <2>1. /\ t \in Seq(MessageType) /\ DOMAIN t = DOMAIN messages
        /\ \A i \in DOMAIN messages : t[i] = IF i = index THEN Prompted(messages[i]) ELSE messages[i]
    BY <1>1, <1>2, IntoLatestIs
  <2>2. PICK m, c, by : m = messages[index] /\ c = m.parts /\ by = Speaker(m)
    OBVIOUS
  <2>3. m \in MessageType /\ Promptless(c)
    BY <1>2, <2>2 DEF AllPromptless
  <2>4. c \in Seq(PartType)
    BY <2>2, <2>3 DEF MessageType
  <2>5. t[index] = Prompted(m) /\ index \in DOMAIN t
    BY <1>2, <2>1, <2>2
  <2>6. t[index].parts = <<Prompt>> \o c /\ Speaker(t[index]) = by
    BY <2>2, <2>3, <2>5, PromptedIs
  <2>7. Elsewhere(t, index)
    <3>1. ASSUME NEW i \in DOMAIN t, i # index
          PROVE  Promptless(t[i].parts)
      <4>1. i \in DOMAIN messages /\ t[i] = messages[i]
        BY <2>1, <3>1
      <4> QED BY <4>1 DEF AllPromptless
    <3> QED BY <3>1 DEF Elsewhere
  <2>8. PICK p \in Nat : ReadAt(Reading(instructions, t), p, index, Speaker(t[index]), c, Len(t))
    BY <2>1, <2>3, <2>4, <2>5, <2>6, <2>7, PromptInMessage
  <2>9. ReadAt(r, p, index, by, c, Len(t))
    BY <1>1, <2>6, <2>8
  <2>10. AtLatest(r, p, messages, index)
    BY <1>2, <2>2, <2>9 DEF ReadAt, AtLatest
  <2>11. p \in Nat
    BY <2>9 DEF ReadAt
  <2> QED BY <1>1, <2>10, <2>11
<1>3. CASE index \notin DOMAIN messages
  <2>1. PICK m, none, k : m = PromptMessage("user") /\ none = <<>> /\ k = Len(messages) + 1
    OBVIOUS
  <2>2. "user" \in Role
    BY RoleIs
  <2>3. m \in MessageType /\ m.parts = <<Prompt>> /\ m.role = "user" /\ m.type = "message"
    BY <2>1, <2>2, PromptMessageIs
  <2>4. t = Append(messages, m)
    BY <1>1, <1>3, <2>1, IntoLatestIs
  <2>5. /\ t \in Seq(MessageType) /\ Len(t) = k /\ t[k] = m /\ k \in DOMAIN t
        /\ \A i \in DOMAIN t : i # k => i \in DOMAIN messages /\ t[i] = messages[i]
    BY <2>1, <2>3, <2>4
  <2>6. none \in Seq(PartType) /\ Promptless(none)
    BY <2>1 DEF Promptless
  <2>7. t[k].parts = <<Prompt>> \o none
    <3>1. <<Prompt>> \o <<>> = <<Prompt>>
      BY PromptIs, ConcatEmptySeq
    <3> QED BY <2>1, <2>3, <2>5, <3>1
  <2>8. Elsewhere(t, k)
    <3>1. ASSUME NEW i \in DOMAIN t, i # k
          PROVE  Promptless(t[i].parts)
      <4>1. i \in DOMAIN messages /\ t[i] = messages[i]
        BY <2>5, <3>1
      <4> QED BY <4>1 DEF AllPromptless
    <3> QED BY <3>1 DEF Elsewhere
  <2>9. PICK p \in Nat : ReadAt(Reading(instructions, t), p, k, Speaker(t[k]), none, Len(t))
    BY <2>5, <2>6, <2>7, <2>8, PromptInMessage
  <2>10. Speaker(t[k]) = "user"
    BY <2>3, <2>5 DEF Speaker
  <2>11. ReadAt(r, p, k, "user", none, Len(t))
    BY <1>1, <2>9, <2>10
  <2>12. AtLatest(r, p, messages, index)
    <3>1. /\ p \in Nat /\ Places(r) = {p} /\ r[p] = [at |-> k, by |-> "user", part |-> Prompt]
          /\ p = Len(r)
      BY <2>1, <2>5, <2>11 DEF ReadAt
    <3> QED BY <1>3, <3>1 DEF AtLatest
  <2>13. p \in Nat
    BY <2>11 DEF ReadAt
  <2> QED BY <1>1, <2>12, <2>13
<1> QED BY <1>2, <1>3

-----------------------------------------------------------------------------
(* The items of a Responses input, which are changed when the prompt is there *)

LEMMA InputItemSame ==
  /\ \A role \in Role : InputItem[PromptMessage(role)] = PromptMessage(role)
  /\ \A m \in MessageType : m.type = "message" => InputItem[Prompted(m)] = Prompted(m) /\ InputItem[m] = m
<1>1. "message" # "function_call_output"
  OBVIOUS
<1>2. ASSUME NEW role \in Role
      PROVE  InputItem[PromptMessage(role)] = PromptMessage(role)
  <2>1. PICK m : m = PromptMessage(role)
    OBVIOUS
  <2>2. m \in MessageType /\ m.type = "message"
    BY <2>1, PromptMessageIs
  <2>3. m.type # "function_call_output"
    BY <1>1, <2>2
  <2>4. InputItem[m] = m
    BY <2>2, <2>3, InputItemIs
  <2> QED BY <2>1, <2>4
<1>3. ASSUME NEW m \in MessageType, m.type = "message"
      PROVE  InputItem[Prompted(m)] = Prompted(m) /\ InputItem[m] = m
  <2>1. PICK n : n = Prompted(m)
    OBVIOUS
  <2>2. n \in MessageType /\ n.type = m.type
    BY <2>1, PromptedIs
  <2>3. m.type # "function_call_output" /\ n.type # "function_call_output"
    BY <1>1, <1>3, <2>2
  <2>4. InputItem[n] = n
    BY <2>2, <2>3, InputItemIs
  <2>5. InputItem[m] = m
    BY <2>3, InputItemIs
  <2> QED BY <2>1, <2>4, <2>5
<1> QED BY <1>2, <1>3

LEMMA InputInFront ==
  ASSUME NEW items \in Seq(MessageType), NEW role \in Role
  PROVE  PreprocessInput(<<PromptMessage(role)>> \o items)
           = <<PromptMessage(role)>> \o PreprocessInput(items)
<1>1. PICK m, u, f : m = PromptMessage(role) /\ u = <<m>> /\ f = InputItem
  OBVIOUS
<1>2. m \in MessageType /\ f[m] = m
  BY <1>1, PromptMessageIs, InputItemSame
<1>3. u \in Seq(MessageType) /\ Len(u) = 1 /\ u[1] = m
  BY <1>1, <1>2
<1>4. Makes(f, MessageType, MessageType)
  BY <1>1, InputHeardIs
<1>5. Map(f, u \o items) = Map(f, u) \o Map(f, items)
  BY <1>3, <1>4, MapConcat
<1>6. Map(f, u) = u
  <2>1. PICK z : z = Map(f, u)
    OBVIOUS
  <2>2. z \in Seq(MessageType) /\ Len(z) = 1 /\ z[1] = f[u[1]]
    BY <1>3, <1>4, <2>1, MapIs
  <2>3. \A i \in 1..Len(z) : z[i] = u[i]
    BY <1>2, <1>3, <2>2
  <2>4. z = u
    BY <1>3, <2>2, <2>3, SeqEqual
  <2> QED BY <2>1, <2>4
<1>7. u \o items \in Seq(MessageType)
  BY <1>3
<1>8. PreprocessInput(u \o items) = Map(f, u \o items) /\ PreprocessInput(items) = Map(f, items)
  BY <1>1, <1>7, PreprocessInputIs
<1> QED BY <1>1, <1>5, <1>6, <1>8

LEMMA InputLatest ==
  ASSUME NEW items \in Seq(MessageType), NEW index,
         index \in DOMAIN items => items[index].type = "message"
  PROVE  PreprocessInput(IntoLatest(items, index)) = IntoLatest(PreprocessInput(items), index)
<1>1. PICK f, t, x, y, z : /\ f = InputItem /\ t = IntoLatest(items, index) /\ x = PreprocessInput(items)
                           /\ y = PreprocessInput(t) /\ z = IntoLatest(x, index)
  OBVIOUS
<1>2. Makes(f, MessageType, MessageType)
  BY <1>1, InputHeardIs
<1>3. x = Map(f, items) /\ x \in Seq(MessageType)
  BY <1>1, PreprocessInputIs
<1>4. Len(x) = Len(items) /\ \A i \in 1..Len(items) : x[i] = f[items[i]]
  BY <1>2, <1>3, MapIs
<1>5. DOMAIN x = DOMAIN items /\ DOMAIN items = 1..Len(items)
  BY <1>3, <1>4
<1>6. CASE index \in DOMAIN items
  <2>1. /\ t \in Seq(MessageType) /\ Len(t) = Len(items)
        /\ \A i \in DOMAIN items : t[i] = IF i = index THEN Prompted(items[i]) ELSE items[i]
    BY <1>1, <1>6, IntoLatestIs
  <2>2. y = Map(f, t)
    BY <1>1, <2>1, PreprocessInputIs
  <2>3. y \in Seq(MessageType) /\ Len(y) = Len(t) /\ \A i \in 1..Len(t) : y[i] = f[t[i]]
    BY <1>2, <2>1, <2>2, MapIs
  <2>4. /\ z \in Seq(MessageType) /\ Len(z) = Len(x)
        /\ \A i \in DOMAIN x : z[i] = IF i = index THEN Prompted(x[i]) ELSE x[i]
    BY <1>1, <1>3, <1>5, <1>6, IntoLatestIs
  <2>5. ASSUME NEW i \in 1..Len(y)
        PROVE  y[i] = z[i]
    <3>1. i \in DOMAIN items /\ i \in 1..Len(t) /\ i \in DOMAIN x
      BY <1>5, <2>1, <2>3
    <3>2. CASE i = index
      <4>1. PICK m : m = items[i]
        OBVIOUS
      <4>2. m \in MessageType /\ m.type = "message"
        BY <1>6, <3>1, <3>2, <4>1
      <4>3. y[i] = f[Prompted(m)] /\ z[i] = Prompted(f[m])
        BY <1>4, <1>5, <2>1, <2>3, <2>4, <3>1, <3>2, <4>1
      <4>4. f[Prompted(m)] = Prompted(m) /\ f[m] = m
        BY <1>1, <4>2, InputItemSame
      <4> QED BY <4>3, <4>4
    <3>3. CASE i # index
      BY <1>4, <1>5, <2>1, <2>3, <2>4, <3>1, <3>3
    <3> QED BY <3>2, <3>3
  <2>6. Len(y) = Len(z)
    BY <1>4, <2>1, <2>3, <2>4
  <2>7. y = z
    BY <2>3, <2>4, <2>5, <2>6, SeqEqual
  <2> QED BY <1>1, <2>7
<1>7. CASE index \notin DOMAIN items
  <2>1. PICK m : m = PromptMessage("user")
    OBVIOUS
  <2>2. "user" \in Role
    BY RoleIs
  <2>3. m \in MessageType /\ f[m] = m
    BY <1>1, <2>1, <2>2, PromptMessageIs, InputItemSame
  <2>4. t = Append(items, m)
    BY <1>1, <1>7, <2>1, IntoLatestIs
  <2>5. t \in Seq(MessageType)
    BY <2>3, <2>4
  <2>6. y = Map(f, t)
    BY <1>1, <2>5, PreprocessInputIs
  <2>7. Map(f, Append(items, m)) = Append(Map(f, items), f[m])
    BY <1>2, <2>3, MapAppend
  <2>8. z = Append(x, m)
    BY <1>1, <1>3, <1>5, <1>7, <2>1, IntoLatestIs
  <2> QED BY <1>1, <1>3, <2>3, <2>4, <2>6, <2>7, <2>8
<1> QED BY <1>6, <1>7

-----------------------------------------------------------------------------
(* Where the settings want the prompt *)

\* The target in force.
Target(s) == FirstNonEmpty(s.upstream.target, NormalizePromptInjectionTarget(s.features.target))
RoleOf(s) == FirstNonEmpty(s.upstream.role, s.features.role)

LEMMA TargetIs ==
  ASSUME NEW s \in Setting
  PROVE  Target(s) # "" /\ RoleOf(s) \in Role
<1>1. NormalizePromptInjectionTarget(s.features.target) # ""
  BY DEF NormalizePromptInjectionTarget, FirstNonEmpty
<1>2. Target(s) # ""
  BY <1>1 DEF Target, FirstNonEmpty
<1>3. RoleOf(s) \in Role
  BY DEF RoleOf, FirstNonEmpty, Role
<1> QED BY <1>2, <1>3

LEMMA InjectionCases ==
  ASSUME NEW s \in Setting
  PROVE  /\ Target(s) = "last_user_message" =>
              \A protocol : ResolvePromptInjection(protocol, s).target = "last_user_message"
         /\ Target(s) # "last_user_message" =>
              /\ ResolvePromptInjection("chat", s)
                   = InjectAt("message", FirstNonEmpty(RoleOf(s), "system"))
              /\ ResolvePromptInjection("responses", s)
                   = IF Target(s) = "message"
                     THEN InjectAt("message", IF IsConversationRole(RoleOf(s)) THEN RoleOf(s)
                                              ELSE "developer")
                     ELSE InjectAt("system", "")
              /\ ResolvePromptInjection("anthropic", s)
                   = IF Target(s) = "message" /\ IsConversationRole(RoleOf(s))
                     THEN InjectAt("message", RoleOf(s)) ELSE InjectAt("system", "")
<1>1. PICK t, r, c : t = Target(s) /\ r = RoleOf(s) /\ c = IsConversationRole(r)
  OBVIOUS
<1>2. t # ""
  BY <1>1, TargetIs
<1>3. PICK m : m = (t = "message" \/ (t = "" /\ IsConversationRole(r)))
  OBVIOUS
<1>4. m <=> t = "message"
  BY <1>2, <1>3
<1>5. \A protocol : ResolvePromptInjection(protocol, s) =
        IF t = "last_user_message" THEN InjectAt(t, "user")
        ELSE IF protocol = "responses" /\ m
        THEN InjectAt("message", IF IsConversationRole(r) THEN r ELSE "developer")
        ELSE IF protocol = "anthropic" /\ m /\ IsConversationRole(r)
        THEN InjectAt("message", r)
        ELSE IF protocol = "chat" THEN InjectAt("message", FirstNonEmpty(r, "system"))
        ELSE InjectAt("system", "")
  BY <1>1, <1>3 DEF ResolvePromptInjection, Target, RoleOf
<1>6. CASE t = "last_user_message"
  <2>1. ASSUME NEW protocol
        PROVE  ResolvePromptInjection(protocol, s).target = "last_user_message"
    <3>1. PICK x : x = ResolvePromptInjection(protocol, s)
      OBVIOUS
    <3>2. x = InjectAt(t, "user")
      BY <1>5, <1>6, <3>1
    <3>3. x.target = t
      BY <3>2 DEF InjectAt
    <3> QED BY <1>6, <3>1, <3>3
  <2> QED BY <1>1, <1>6, <2>1
<1>7. CASE t # "last_user_message"
  <2>1. PICK chat, responses, anthropic :
          chat = "chat" /\ responses = "responses" /\ anthropic = "anthropic"
    OBVIOUS
  <2>2. chat # responses /\ chat # anthropic /\ responses # anthropic
    BY <2>1
  <2>3. ResolvePromptInjection(chat, s) = InjectAt("message", FirstNonEmpty(r, "system"))
    BY <1>5, <1>7, <2>1, <2>2
  <2>4. ResolvePromptInjection(responses, s)
          = IF t = "message"
            THEN InjectAt("message", IF IsConversationRole(r) THEN r ELSE "developer")
            ELSE InjectAt("system", "")
    BY <1>4, <1>5, <1>7, <2>1, <2>2
  <2>5. ResolvePromptInjection(anthropic, s)
          = IF t = "message" /\ IsConversationRole(r) THEN InjectAt("message", r)
            ELSE InjectAt("system", "")
    BY <1>4, <1>5, <1>7, <2>1, <2>2
  <2> QED BY <1>1, <1>7, <2>1, <2>3, <2>4, <2>5
<1> QED BY <1>6, <1>7

\* The first of what the user last said.
First ==
  IF ToChat THEN Only(history[Max(UserMessages)].parts, {"text"})[1]
  ELSE history[Max(UserMessages)].parts[1]

\* What PromptPlaced asks of a place of the prompt.
Right(said, i, s) ==
  IF Target(s) = "last_user_message"
  THEN IF UserMessages = {} THEN i = Len(said) /\ said[i].by = "user"
       ELSE Misplaced \/ /\ i < Len(said)
                         /\ said[i + 1] = [said[i] EXCEPT !.part = Rendered(s)[First]]
                         /\ said[i].by = "user"
  ELSE IF ToChat \/ (Target(s) = "message" /\ (path = "anthropic" => IsConversationRole(RoleOf(s))))
  THEN /\ said[i].at = 1 /\ (i > 1 => said[i - 1].at = 0)
       /\ IsConversationRole(RoleOf(s)) => said[i].by = RoleOf(s)
       /\ RoleOf(s) \in {"", "system", "developer"} => said[i].by = "system"
  ELSE i = 1 /\ said[i].at = 0

\* What it asks of all that is read.
WellPlaced(said, s) ==
  /\ s.functionCalling => \E p \in Nat : Places(said) = {p} /\ Right(said, p, s)
  /\ ~s.functionCalling => Places(said) = {}

LEMMA RightInFront ==
  ASSUME NEW s \in Setting, NEW said, NEW p, NEW role \in Role,
         InFront(said, p, Speaker(PromptMessage(role))), Target(s) # "last_user_message",
         ToChat \/ (Target(s) = "message" /\ (path = "anthropic" => IsConversationRole(RoleOf(s)))),
         IsConversationRole(RoleOf(s)) => role = RoleOf(s),
         RoleOf(s) \in {"", "system", "developer"} => role \in {"system", "developer"}
  PROVE  p \in Nat /\ Places(said) = {p} /\ Right(said, p, s)
<1>1. PICK m, by : m = PromptMessage(role) /\ by = Speaker(m)
  OBVIOUS
<1>2. m.role = role /\ m.type = "message"
  BY <1>1, PromptMessageIs
<1>3. /\ role \in {"system", "developer"} => by = "system"
      /\ role = "user" => by = "user"
      /\ role = "assistant" => by = "assistant"
  BY <1>1, <1>2 DEF Speaker
<1>4. IsConversationRole(RoleOf(s)) => by = RoleOf(s)
  BY <1>3 DEF IsConversationRole
<1>5. RoleOf(s) \in {"", "system", "developer"} => by = "system"
  BY <1>3
<1>6. /\ p \in Nat /\ Places(said) = {p} /\ said[p].at = 1 /\ said[p].by = by
      /\ p > 1 => said[p - 1].at = 0
  BY <1>1 DEF InFront
<1> QED BY <1>4, <1>5, <1>6 DEF Right

\* What a prompt that is put into the latest message relies on.
Latest(messages, index, s) ==
  /\ UserMessages = {} => index \notin DOMAIN messages
  /\ UserMessages # {} /\ ~Misplaced =>
       /\ index \in DOMAIN messages /\ messages[index].parts # <<>>
       /\ messages[index].parts[1] = Rendered(s)[First]
       /\ Speaker(messages[index]) = "user"

LEMMA RightLatest ==
  ASSUME NEW s \in Setting, NEW said, NEW p, NEW messages, NEW index,
         AtLatest(said, p, messages, index), Target(s) = "last_user_message",
         Latest(messages, index, s)
  PROVE  p \in Nat /\ Places(said) = {p} /\ Right(said, p, s)
<1>1. p \in Nat /\ Places(said) = {p}
  BY DEF AtLatest
<1>2. UserMessages = {} => p = Len(said) /\ said[p].by = "user"
  BY DEF AtLatest, Latest
<1>3. ASSUME UserMessages # {}, ~Misplaced
      PROVE  /\ p < Len(said)
             /\ said[p + 1] = [said[p] EXCEPT !.part = Rendered(s)[First]]
             /\ said[p].by = "user"
  <2>1. PICK x : x = Rendered(s)[First]
    OBVIOUS
  <2>2. /\ index \in DOMAIN messages /\ messages[index].parts # <<>>
        /\ messages[index].parts[1] = x /\ Speaker(messages[index]) = "user"
    BY <1>3, <2>1 DEF Latest
  <2>3. /\ p < Len(said)
        /\ said[p] = [at |-> index, by |-> "user", part |-> Prompt]
        /\ said[p + 1] = [at |-> index, by |-> "user", part |-> x]
    BY <2>2 DEF AtLatest
  <2> QED BY <2>1, <2>3
<1> QED BY <1>1, <1>2, <1>3 DEF Right

LEMMA RightInSystem ==
  ASSUME NEW s \in Setting, NEW said, Places(said) = {1}, said[1].at = 0,
         Target(s) # "last_user_message", ~ToChat,
         ~(Target(s) = "message" /\ (path = "anthropic" => IsConversationRole(RoleOf(s))))
  PROVE  Right(said, 1, s)
BY DEF Right

LEMMA NothingPrompted ==
  ASSUME HistoryOK
  PROVE  /\ Promptless(system) /\ AllPromptless(history)
         /\ Promptless(<<>>) /\ <<>> \in Seq(PartType)
<1>1. Promptless(system)
  BY SystemIs, PromptlessIs
<1>2. ASSUME NEW i \in DOMAIN history
      PROVE  Promptless(history[i].parts)
  <2>1. history[i].parts \in Seq(SaidPart)
    BY HistoryIs
  <2> QED BY <2>1, PromptlessIs
<1> QED BY <1>1, <1>2, PromptlessIs DEF AllPromptless

LEMMA LastOfUser ==
  ASSUME HistoryOK, UserMessages # {}
  PROVE  /\ Max(UserMessages) \in DOMAIN history /\ Max(UserMessages) \in UserMessages
         /\ history[Max(UserMessages)].role = "user"
         /\ \A k \in UserMessages : Max(UserMessages) >= k
<1>1. history \in Seq(MessageType)
  BY HistoryIs
<1>2. PICK n, T : n = Len(history) /\ T = UserMessages
  OBVIOUS
<1>3. n \in Nat /\ DOMAIN history = 1..n
  BY <1>1, <1>2
<1>4. T \in SUBSET (1..n) /\ T # {}
  BY <1>2, <1>3 DEF UserMessages
<1>5. Max(T) \in T /\ \A y \in T : Max(T) >= y
  BY <1>3, <1>4, MaxIs
<1>6. \A y \in T : y \in DOMAIN history /\ history[y].role = "user"
  BY <1>2 DEF UserMessages
<1> QED BY <1>2, <1>5, <1>6

\* Without soft tools there is no prompt.
LEMMA NotSoft ==
  ASSUME HistoryOK, NEW s, ~s.functionCalling
  PROVE  WellPlaced(Reading(system, history), s)
<1>1. system \in Seq(PartType) /\ history \in Seq(MessageType)
  BY SystemIs, HistoryIs
<1>2. Promptless(system) /\ AllPromptless(history)
  BY NothingPrompted
<1>3. Places(Reading(system, history)) = {}
  BY <1>1, <1>2, PromptNowhere
<1> QED BY <1>3 DEF WellPlaced

LEMMA PromptedSystemCases ==
  ASSUME NEW s, NEW protocol
  PROVE  /\ ResolvePromptInjection(protocol, s).target = "system" =>
              PromptedSystem(protocol, s) = <<Prompt>> \o system
         /\ ResolvePromptInjection(protocol, s).target # "system" =>
              PromptedSystem(protocol, s) = system
BY DEF PromptedSystem

LEMMA InjectAtIs ==
  ASSUME NEW target, NEW role
  PROVE  InjectAt(target, role).target = target /\ InjectAt(target, role).role = role
BY DEF InjectAt

-----------------------------------------------------------------------------
(* The prompt in a request of the Responses protocol *)

LEMMA InputSilent ==
  ASSUME HistoryOK
  PROVE  PreprocessInput(history) \in Seq(MessageType) /\ AllPromptless(PreprocessInput(history))
<1>1. history \in Seq(MessageType)
  BY HistoryIs
<1>2. PICK x, f : x = PreprocessInput(history) /\ f = InputItem
  OBVIOUS
<1>3. x \in Seq(MessageType) /\ x = Map(f, history)
  BY <1>1, <1>2, PreprocessInputIs
<1>4. ASSUME NEW i \in DOMAIN x
      PROVE  Promptless(x[i].parts)
  <2>1. i \in DOMAIN history /\ x[i] = f[history[i]]
    <3>1. DOMAIN x = DOMAIN history
      BY <1>3 DEF Map
    <3> QED BY <1>3, <3>1 DEF Map
  <2>2. PICK m : m = history[i]
    OBVIOUS
  <2>3. m \in MessageType /\ m.parts \in Seq(SaidPart)
    BY <2>1, <2>2, HistoryIs
  <2>4. CASE m.type # "function_call_output"
    <3>1. f[m] = m
      BY <1>2, <2>3, <2>4, InputItemIs
    <3> QED BY <2>1, <2>2, <2>3, <3>1, PromptlessIs
  <2>5. CASE m.type = "function_call_output"
    <3>1. PICK p, q : p = m.parts /\ q = Each(p, ResultText)
      OBVIOUS
    <3>2. p \in Seq(PartType)
      BY <2>3, <3>1 DEF MessageType
    <3>3. q \in Seq(PartType) /\ Len(q) = Len(p) /\ \A j \in 1..Len(p) : q[j] = ResultText(p[j])
      BY <3>1, <3>2, EachFormatted
    <3>4. ASSUME NEW j \in DOMAIN q
          PROVE  q[j].kind # "prompt"
      <4>1. j \in 1..Len(p) /\ p[j] \in PartType
        BY <3>2, <3>3
      <4>2. q[j] = ResultText(p[j]) /\ ResultText(p[j]).kind = "result_text"
        BY <3>3, <4>1, FormattedType
      <4> QED BY <4>2
    <3>5. x[i].parts = q
      BY <1>2, <2>1, <2>2, <2>3, <2>5, <3>1, InputItemIs
    <3> QED BY <3>4, <3>5 DEF Promptless
  <2> QED BY <2>4, <2>5
<1> QED BY <1>2, <1>3, <1>4 DEF AllPromptless

LEMMA InputIsLatest ==
  ASSUME HistoryOK, path = "responses", NEW s
  PROVE  /\ Latest(PreprocessInput(history), LastInput(history), s)
         /\ LastInput(history) \in DOMAIN history => history[LastInput(history)].type = "message"
<1>1. history \in Seq(MessageType) /\ ~ToChat
  BY HistoryIs DEF ToChat
<1>2. PICK x, f, k : x = PreprocessInput(history) /\ f = InputItem /\ k = LastInput(history)
  OBVIOUS
<1>3. x \in Seq(MessageType) /\ x = Map(f, history)
  BY <1>1, <1>2, PreprocessInputIs
<1>4. DOMAIN x = DOMAIN history /\ \A i \in DOMAIN history : x[i] = f[history[i]]
  BY <1>3 DEF Map
<1>5. \/ /\ k \in DOMAIN history /\ IsInput(history[k])
         /\ \A i \in DOMAIN history : IsInput(history[i]) => k >= i
      \/ k = 0 /\ \A i \in DOMAIN history : ~IsInput(history[i])
  BY <1>1, <1>2, LastInputIs
<1>6. 0 \notin DOMAIN history /\ \A i \in DOMAIN history : i \in Nat
  BY <1>1
<1>7. k \in DOMAIN history => IsInput(history[k])
  BY <1>5, <1>6
<1>8. \A i \in DOMAIN history : IsInput(history[i]) => i \in UserMessages
  BY <1>1 DEF IsInput, UserMessages
<1>9. UserMessages = {} => k \notin DOMAIN x
  BY <1>4, <1>7, <1>8
<1>10. ASSUME UserMessages # {}, ~Misplaced
       PROVE  /\ k \in DOMAIN x /\ x[k].parts # <<>>
              /\ x[k].parts[1] = Rendered(s)[First]
              /\ Speaker(x[k]) = "user"
  <2>1. PICK n, m : n = Max(UserMessages) /\ m = history[n]
    OBVIOUS
  <2>2. n \in DOMAIN history /\ n \in UserMessages /\ m.role = "user"
        /\ \A i \in UserMessages : n >= i
    BY <1>10, <2>1, LastOfUser
  <2>3. m \in MessageType /\ WellFormed(m) /\ m.parts \in Seq(SaidPart) /\ m.parts # <<>>
    BY <2>1, <2>2, HistoryIs
  <2>4. ResponsesForm(m)
    BY <2>3 DEF WellFormed, ViaResponses
  <2>5. m.type # "untyped"
    BY <1>10, <2>1 DEF Misplaced
  <2>6. m.type = "message" /\ Of(m, {"text"}) /\ Len(m.parts) = 1
    BY <2>2, <2>4, <2>5 DEF ResponsesForm
  <2>7. IsInput(m)
    BY <2>2, <2>6 DEF IsInput
  <2>8. k \in DOMAIN history /\ k >= n
    BY <1>5, <2>1, <2>2, <2>7
  <2>9. n >= k
    BY <1>7, <1>8, <2>2, <2>8
  <2>10. k = n
    BY <1>6, <2>2, <2>8, <2>9
  <2>11. x[k] = m
    BY <1>2, <1>4, <2>1, <2>2, <2>3, <2>6, <2>10, InputItemSame
  <2>12. First = m.parts[1]
    BY <1>1, <2>1 DEF First
  <2>13. m.parts[1] \in PartType /\ m.parts[1].kind = "text"
    <3>1. 1 \in DOMAIN m.parts
      BY <2>3, <2>6
    <3> QED BY <2>3, <2>6, <3>1, SaidPartType DEF Of
  <2>14. Rendered(s)[m.parts[1]] = m.parts[1]
    BY <2>13, RenderedType
  <2>15. Speaker(m) = "user"
    BY <2>2, <2>6 DEF Speaker
  <2> QED BY <1>4, <2>3, <2>8, <2>11, <2>12, <2>14, <2>15
<1>11. Latest(x, k, s)
  BY <1>9, <1>10 DEF Latest
<1>12. k \in DOMAIN history => history[k].type = "message"
  BY <1>7 DEF IsInput
<1> QED BY <1>2, <1>11, <1>12

LEMMA PromptInResponses ==
  ASSUME HistoryOK, path = "responses", NEW s \in Setting
  PROVE  WellPlaced(Reading(PrepareResponses(s).system, PrepareResponses(s).messages), s)
<1>1. PICK r : r = PrepareResponses(s)
  OBVIOUS
<1>2. history \in Seq(MessageType) /\ system \in Seq(PartType) /\ ~ToChat
  BY HistoryIs, SystemIs DEF ToChat
<1>3. CASE ~s.functionCalling
  <2>1. r = Sent(FALSE, system, history)
    BY <1>1, <1>3 DEF PrepareResponses
  <2>2. r.system = system /\ r.messages = history
    BY <2>1 DEF Sent
  <2>3. WellPlaced(Reading(system, history), s)
    BY <1>3, NotSoft
  <2> QED BY <1>1, <2>2, <2>3
<1>4. CASE s.functionCalling
  <2>1. PICK a, u, x, b, j, protocol :
          /\ protocol = "responses" /\ a = InjectInput(history, s) /\ u = PromptedSystem(protocol, s)
          /\ x = PreprocessInput(history) /\ b = PreprocessInput(a)
          /\ j = ResolvePromptInjection(protocol, s)
    OBVIOUS
  <2>2. r = Sent(TRUE, u, b)
    BY <1>1, <1>4, <2>1 DEF PrepareResponses
  <2>3. r.system = u /\ r.messages = b
    BY <2>2 DEF Sent
  <2>4. x \in Seq(MessageType) /\ AllPromptless(x) /\ Promptless(system)
    BY <2>1, InputSilent, NothingPrompted
  <2>5. a = CASE j.target = "last_user_message" -> IntoLatest(history, LastInput(history))
              [] j.target = "message" -> <<PromptMessage(j.role)>> \o history
              [] OTHER -> history
    BY <2>1 DEF InjectInput, LastInput
  <2>6. /\ j.target = "system" => u = <<Prompt>> \o system
        /\ j.target # "system" => u = system
    BY <2>1, PromptedSystemCases
  <2>7. \E p \in Nat : Places(Reading(u, b)) = {p} /\ Right(Reading(u, b), p, s)
    <3>1. CASE Target(s) = "last_user_message"
      <4>1. j.target = "last_user_message"
        BY <2>1, <3>1, InjectionCases
      <4>2. PICK k : k = LastInput(history)
        OBVIOUS
      <4>3. a = IntoLatest(history, k) /\ u = system
        BY <2>5, <2>6, <4>1, <4>2
      <4>4. b = IntoLatest(x, k)
        <5>1. k \in DOMAIN history => history[k].type = "message"
          BY <4>2, InputIsLatest
        <5>2. PreprocessInput(IntoLatest(history, k)) = IntoLatest(PreprocessInput(history), k)
          BY <1>2, <5>1, InputLatest
        <5> QED BY <2>1, <4>3, <5>2
      <4>5. Latest(x, k, s)
        BY <2>1, <4>2, InputIsLatest
      <4>6. PICK p \in Nat : AtLatest(Reading(system, IntoLatest(x, k)), p, x, k)
        BY <1>2, <2>4, LatestPlace
      <4>7. PICK y : y = Reading(u, b)
        OBVIOUS
      <4>8. AtLatest(y, p, x, k)
        BY <4>3, <4>4, <4>6, <4>7
      <4>9. p \in Nat /\ Places(y) = {p} /\ Right(y, p, s)
        BY <3>1, <4>5, <4>8, RightLatest
      <4> QED BY <4>7, <4>9
    <3>2. CASE Target(s) # "last_user_message" /\ Target(s) = "message"
      <4>1. PICK role : role = IF IsConversationRole(RoleOf(s)) THEN RoleOf(s) ELSE "developer"
        OBVIOUS
      <4>2. j = InjectAt("message", role)
        BY <2>1, <3>2, <4>1, InjectionCases
      <4>3. j.target = "message" /\ j.role = role
        BY <4>2, InjectAtIs
      <4>4. a = <<PromptMessage(role)>> \o history /\ u = system
        BY <2>5, <2>6, <4>3
      <4>5. role \in Role
        BY <4>1, TargetIs, RoleIs
      <4>6. b = <<PromptMessage(role)>> \o x
        BY <1>2, <2>1, <4>4, <4>5, InputInFront
      <4>7. PICK p \in Nat : InFront(Reading(system, <<PromptMessage(role)>> \o x), p,
                                     Speaker(PromptMessage(role)))
        BY <1>2, <2>4, <4>5, FrontPlace
      <4>8. PICK y : y = Reading(u, b)
        OBVIOUS
      <4>9. InFront(y, p, Speaker(PromptMessage(role)))
        BY <4>4, <4>6, <4>7, <4>8
      <4>10. ToChat \/ (Target(s) = "message" /\ (path = "anthropic" => IsConversationRole(RoleOf(s))))
        BY <3>2
      <4>11. /\ IsConversationRole(RoleOf(s)) => role = RoleOf(s)
             /\ RoleOf(s) \in {"", "system", "developer"} => role \in {"system", "developer"}
        BY <4>1 DEF IsConversationRole
      <4>12. Target(s) # "last_user_message"
        BY <3>2
      <4>13. p \in Nat /\ Places(y) = {p} /\ Right(y, p, s)
        BY <4>5, <4>9, <4>10, <4>11, <4>12, RightInFront
      <4> QED BY <4>8, <4>13
    <3>3. CASE Target(s) # "last_user_message" /\ Target(s) # "message"
      <4>1. j = InjectAt("system", "")
        BY <2>1, <3>3, InjectionCases
      <4>2. j.target = "system"
        BY <4>1, InjectAtIs
      <4>3. a = history /\ u = <<Prompt>> \o system
        BY <2>5, <2>6, <4>2
      <4>4. b = x
        BY <2>1, <4>3
      <4>5. PICK y : y = Reading(u, b)
        OBVIOUS
      <4>6. Places(y) = {1} /\ y[1].at = 0
        BY <1>2, <2>4, <4>3, <4>4, <4>5, PromptInSystem
      <4>7. Target(s) # "last_user_message" /\ ~ToChat
            /\ ~(Target(s) = "message" /\ (path = "anthropic" => IsConversationRole(RoleOf(s))))
        BY <1>2, <3>3
      <4>8. Right(y, 1, s)
        BY <4>6, <4>7, RightInSystem
      <4> QED BY <4>5, <4>6, <4>8
    <3> QED BY <3>1, <3>2, <3>3
  <2>8. WellPlaced(Reading(u, b), s)
    BY <1>4, <2>7 DEF WellPlaced
  <2> QED BY <1>1, <2>3, <2>8
<1> QED BY <1>3, <1>4

-----------------------------------------------------------------------------
(* The prompt in a request of the Anthropic protocol *)

LEMMA BlockedSilent ==
  ASSUME HistoryOK
  PROVE  /\ Map(Blocked, history) \in Seq(MessageType)
         /\ Map(Blocked, history) = Each(history, PreprocessBlocks)
         /\ AllPromptless(Map(Blocked, history))
<1>1. history \in Seq(MessageType)
  BY HistoryIs
<1>2. PICK x : x = Map(Blocked, history)
  OBVIOUS
<1>3. Makes(Blocked, MessageType, MessageType)
  BY BlockedIs DEF Makes
<1>4. x \in Seq(MessageType)
  BY <1>1, <1>2, <1>3, MapType
<1>5. x = Each(history, PreprocessBlocks)
  <2>1. \A i \in DOMAIN history : Blocked[history[i]] = PreprocessBlocks(history[i])
    BY <1>1 DEF Blocked
  <2> QED BY <1>2, <2>1 DEF Map, Each
<1>6. ASSUME NEW i \in DOMAIN x
      PROVE  Promptless(x[i].parts)
  <2>1. PICK m : m = history[i]
    OBVIOUS
  <2>2. i \in DOMAIN history /\ x[i] = Blocked[m]
    <3>1. DOMAIN x = DOMAIN history
      BY <1>2 DEF Map
    <3> QED BY <1>2, <2>1, <3>1 DEF Map
  <2>3. m \in MessageType /\ m.parts \in Seq(SaidPart)
    BY <2>1, <2>2, HistoryIs
  <2>4. PICK p, q : /\ p = Only(m.parts, Said \ {"call"}) \o Only(m.parts, {"call"})
                    /\ q = Each(p, Formatted)
    OBVIOUS
  <2>5. p \in Seq(SaidPart) /\ p \in Seq(PartType)
    <3>1. PICK c, d : c = Only(m.parts, Said \ {"call"}) /\ d = Only(m.parts, {"call"})
      OBVIOUS
    <3>2. c \in Seq(SaidPart) /\ d \in Seq(SaidPart)
      BY <2>3, <3>1, OnlySaid
    <3>3. c \o d \in Seq(SaidPart)
      BY <3>2
    <3> QED BY <2>4, <3>1, <3>3, SaidPartType
  <2>6. q \in Seq(PartType) /\ Len(q) = Len(p) /\ \A j \in 1..Len(p) : q[j] = Formatted(p[j])
    BY <2>4, <2>5, EachFormatted
  <2>7. ASSUME NEW j \in DOMAIN q
        PROVE  q[j].kind # "prompt"
    <3>1. j \in 1..Len(p) /\ p[j] \in PartType /\ j \in DOMAIN p
      BY <2>5, <2>6
    <3>2. p[j].kind # "prompt"
      BY <2>5, <3>1, PromptlessIs DEF Promptless
    <3>3. Formatted(p[j]).kind # "prompt"
      BY <3>1, <3>2, FormattedType
    <3> QED BY <2>6, <3>1, <3>3
  <2>8. x[i].parts = q
    BY <2>2, <2>3, <2>4, BlockedIs
  <2> QED BY <2>7, <2>8 DEF Promptless
<1> QED BY <1>2, <1>4, <1>5, <1>6 DEF AllPromptless

\* What the user said first stays first.
LEMMA BlockedFirst ==
  ASSUME NEW m \in MessageType, m.parts \in Seq(SaidPart), m.parts # <<>>,
         Of(m, {"text"} \union Results)
  PROVE  /\ Blocked[m].parts # <<>> /\ Blocked[m].parts[1] = Formatted(m.parts[1])
         /\ m.parts[1] \in PartType /\ m.parts[1].kind \in {"text"} \union Results
<1>1. PICK p, c, d, q : /\ p = m.parts /\ c = Only(p, Said \ {"call"}) /\ d = Only(p, {"call"})
                        /\ q = Each(c \o d, Formatted)
  OBVIOUS
<1>2. p \in Seq(PartType) /\ p \in Seq(SaidPart)
  BY <1>1, SaidPartType
<1>3. \A i \in DOMAIN p : p[i].kind \in {"text"} \union Results
  BY <1>1 DEF Of
<1>4. c = p
  <2>1. \A i \in DOMAIN p : p[i].kind \in Said \ {"call"}
    BY <1>3 DEF Said, Results
  <2> QED BY <1>1, <1>2, <2>1, OnlyAll
<1>5. d = <<>>
  <2>1. \A i \in DOMAIN p : p[i].kind \notin {"call"}
    BY <1>3 DEF Results
  <2> QED BY <1>1, <1>2, <2>1, OnlyNone
<1>6. c \o d = p
  BY <1>2, <1>4, <1>5, ConcatEmptySeq
<1>7. q = Each(p, Formatted)
  BY <1>1, <1>6
<1>8. q \in Seq(PartType) /\ Len(q) = Len(p) /\ \A i \in 1..Len(p) : q[i] = Formatted(p[i])
  BY <1>2, <1>7, EachFormatted
<1>9. 1 \in 1..Len(p) /\ Len(p) # 0
  BY <1>1, <1>2, EmptySeq
<1>10. q # <<>> /\ q[1] = Formatted(p[1])
  <2>1. q # <<>>
    BY <1>8, <1>9, EmptySeq
  <2> QED BY <1>8, <1>9, <2>1
<1>11. Blocked[m].parts = q
  BY <1>1, BlockedIs
<1>12. p[1] \in PartType /\ p[1].kind \in {"text"} \union Results
  BY <1>2, <1>3, <1>9
<1> QED BY <1>1, <1>10, <1>11, <1>12

LEMMA BlocksAreLatest ==
  ASSUME HistoryOK, path = "anthropic", NEW s, s.functionCalling
  PROVE  Latest(Map(Blocked, history), LastUserMessageIndex(history), s)
<1>1. history \in Seq(MessageType) /\ ~ToChat
  BY HistoryIs DEF ToChat
<1>2. PICK x, k : x = Map(Blocked, history) /\ k = LastUserMessageIndex(history)
  OBVIOUS
<1>3. DOMAIN x = DOMAIN history /\ \A i \in DOMAIN history : x[i] = Blocked[history[i]]
  BY <1>2 DEF Map
<1>4. \/ /\ k \in DOMAIN history /\ history[k].role = "user"
         /\ \A i \in DOMAIN history : history[i].role = "user" => k >= i
      \/ k = 0 /\ \A i \in DOMAIN history : history[i].role # "user"
  BY <1>1, <1>2, LastUserIs
<1>5. 0 \notin DOMAIN history /\ \A i \in DOMAIN history : i \in Nat
  BY <1>1
<1>6. k \in DOMAIN history => history[k].role = "user"
  BY <1>4, <1>5
<1>7. \A i \in DOMAIN history : history[i].role = "user" => i \in UserMessages
  BY <1>1 DEF UserMessages
<1>8. UserMessages = {} => k \notin DOMAIN x
  BY <1>3, <1>6, <1>7
<1>9. ASSUME UserMessages # {}
      PROVE  /\ k \in DOMAIN x /\ x[k].parts # <<>>
             /\ x[k].parts[1] = Rendered(s)[First]
             /\ Speaker(x[k]) = "user"
  <2>1. PICK n, m : n = Max(UserMessages) /\ m = history[n]
    OBVIOUS
  <2>2. n \in DOMAIN history /\ n \in UserMessages /\ m.role = "user"
        /\ \A i \in UserMessages : n >= i
    BY <1>9, <2>1, LastOfUser
  <2>3. m \in MessageType /\ WellFormed(m) /\ m.parts \in Seq(SaidPart) /\ m.parts # <<>>
    BY <2>1, <2>2, HistoryIs
  <2>4. AnthropicForm(m)
    BY <2>3 DEF WellFormed, ViaAnthropic
  <2>5. m.type = "message" /\ Of(m, {"text"} \union Results)
    BY <2>2, <2>4 DEF AnthropicForm
  <2>6. k \in DOMAIN history /\ k >= n
    BY <1>4, <2>1, <2>2
  <2>7. n >= k
    BY <1>6, <1>7, <2>2, <2>6
  <2>8. k = n
    BY <1>5, <2>2, <2>6, <2>7
  <2>9. x[k] = Blocked[m]
    BY <1>3, <2>1, <2>2, <2>8
  <2>10. First = m.parts[1]
    BY <1>1, <2>1 DEF First
  <2>11. /\ Blocked[m].parts # <<>> /\ Blocked[m].parts[1] = Formatted(m.parts[1])
         /\ m.parts[1] \in PartType /\ m.parts[1].kind \in {"text"} \union Results
    BY <2>3, <2>5, BlockedFirst
  <2>12. Rendered(s)[m.parts[1]] = Formatted(m.parts[1])
    <3>1. PICK y : y = m.parts[1]
      OBVIOUS
    <3>2. y \in PartType /\ y.kind \in Said
      BY <2>11, <3>1 DEF Said
    <3>3. Rendered(s)[y] = Formatted(y)
      BY <3>2 DEF Rendered
    <3> QED BY <3>1, <3>3
  <2>13. Speaker(Blocked[m]) = "user"
    <3>1. Speaker(m) = "user"
      BY <2>2, <2>5 DEF Speaker
    <3> QED BY <2>3, <3>1, BlockedIs
  <2> QED BY <1>3, <2>6, <2>9, <2>10, <2>11, <2>12, <2>13
<1>10. Latest(x, k, s)
  BY <1>8, <1>9 DEF Latest
<1> QED BY <1>2, <1>10

LEMMA PromptInAnthropic ==
  ASSUME HistoryOK, path = "anthropic", NEW s \in Setting
  PROVE  WellPlaced(Reading(PrepareAnthropic(s).system, PrepareAnthropic(s).messages), s)
<1>1. PICK r : r = PrepareAnthropic(s)
  OBVIOUS
<1>2. history \in Seq(MessageType) /\ system \in Seq(PartType) /\ ~ToChat
  BY HistoryIs, SystemIs DEF ToChat
<1>3. CASE ~s.functionCalling
  <2>1. r = Sent(FALSE, system, history)
    BY <1>1, <1>3 DEF PrepareAnthropic
  <2>2. r.system = system /\ r.messages = history
    BY <2>1 DEF Sent
  <2>3. WellPlaced(Reading(system, history), s)
    BY <1>3, NotSoft
  <2> QED BY <1>1, <2>2, <2>3
<1>4. CASE s.functionCalling
  <2>1. PICK u, x, b, j, k, protocol :
          /\ protocol = "anthropic" /\ u = PromptedSystem(protocol, s)
          /\ x = Map(Blocked, history) /\ k = LastUserMessageIndex(history)
          /\ j = ResolvePromptInjection(protocol, s)
          /\ b = CASE j.target = "last_user_message" -> IntoLatest(x, k)
                   [] j.target = "message" -> <<PromptMessage(j.role)>> \o x
                   [] OTHER -> x
    OBVIOUS
  <2>2. x \in Seq(MessageType) /\ AllPromptless(x) /\ Promptless(system)
        /\ x = Each(history, PreprocessBlocks)
    BY <2>1, BlockedSilent, NothingPrompted
  <2>3. r = Sent(TRUE, u, b)
    BY <1>1, <1>4, <2>1, <2>2 DEF PrepareAnthropic
  <2>4. r.system = u /\ r.messages = b
    BY <2>3 DEF Sent
  <2>5. /\ j.target = "system" => u = <<Prompt>> \o system
        /\ j.target # "system" => u = system
    BY <2>1, PromptedSystemCases
  <2>6. /\ j.target = "last_user_message" => b = IntoLatest(x, k)
        /\ j.target = "message" => b = <<PromptMessage(j.role)>> \o x
        /\ j.target = "system" => b = x
    BY <2>1
  <2>7. \E p \in Nat : Places(Reading(u, b)) = {p} /\ Right(Reading(u, b), p, s)
    <3>1. CASE Target(s) = "last_user_message"
      <4>1. j.target = "last_user_message"
        BY <2>1, <3>1, InjectionCases
      <4>2. b = IntoLatest(x, k) /\ u = system
        BY <2>5, <2>6, <4>1
      <4>3. Latest(x, k, s)
        BY <1>4, <2>1, BlocksAreLatest
      <4>4. PICK p \in Nat : AtLatest(Reading(system, IntoLatest(x, k)), p, x, k)
        BY <1>2, <2>2, LatestPlace
      <4>5. PICK y : y = Reading(u, b)
        OBVIOUS
      <4>6. AtLatest(y, p, x, k)
        BY <4>2, <4>4, <4>5
      <4>7. p \in Nat /\ Places(y) = {p} /\ Right(y, p, s)
        BY <3>1, <4>3, <4>6, RightLatest
      <4> QED BY <4>5, <4>7
    <3>2. CASE /\ Target(s) # "last_user_message"
               /\ Target(s) = "message" /\ IsConversationRole(RoleOf(s))
      <4>1. PICK role : role = RoleOf(s)
        OBVIOUS
      <4>2. j = InjectAt("message", role)
        BY <2>1, <3>2, <4>1, InjectionCases
      <4>3. j.target = "message" /\ j.role = role
        BY <4>2, InjectAtIs
      <4>4. b = <<PromptMessage(role)>> \o x /\ u = system
        BY <2>5, <2>6, <4>3
      <4>5. role \in Role
        BY <4>1, TargetIs
      <4>6. PICK p \in Nat : InFront(Reading(system, <<PromptMessage(role)>> \o x), p,
                                     Speaker(PromptMessage(role)))
        BY <1>2, <2>2, <4>5, FrontPlace
      <4>7. PICK y : y = Reading(u, b)
        OBVIOUS
      <4>8. InFront(y, p, Speaker(PromptMessage(role)))
        BY <4>4, <4>6, <4>7
      <4>9. ToChat \/ (Target(s) = "message" /\ (path = "anthropic" => IsConversationRole(RoleOf(s))))
        BY <3>2
      <4>10. /\ IsConversationRole(RoleOf(s)) => role = RoleOf(s)
             /\ RoleOf(s) \in {"", "system", "developer"} => role \in {"system", "developer"}
        BY <3>2, <4>1 DEF IsConversationRole
      <4>11. Target(s) # "last_user_message"
        BY <3>2
      <4>12. p \in Nat /\ Places(y) = {p} /\ Right(y, p, s)
        BY <4>5, <4>8, <4>9, <4>10, <4>11, RightInFront
      <4> QED BY <4>7, <4>12
    <3>3. CASE /\ Target(s) # "last_user_message"
               /\ ~(Target(s) = "message" /\ IsConversationRole(RoleOf(s)))
      <4>1. j = InjectAt("system", "")
        BY <2>1, <3>3, InjectionCases
      <4>2. j.target = "system"
        BY <4>1, InjectAtIs
      <4>3. b = x /\ u = <<Prompt>> \o system
        BY <2>5, <2>6, <4>2
      <4>4. PICK y : y = Reading(u, b)
        OBVIOUS
      <4>5. Places(y) = {1} /\ y[1].at = 0
        BY <1>2, <2>2, <4>3, <4>4, PromptInSystem
      <4>6. Target(s) # "last_user_message" /\ ~ToChat
            /\ ~(Target(s) = "message" /\ (path = "anthropic" => IsConversationRole(RoleOf(s))))
        BY <1>2, <3>3
      <4>7. Right(y, 1, s)
        BY <4>5, <4>6, RightInSystem
      <4> QED BY <4>4, <4>5, <4>7
    <3> QED BY <3>1, <3>2, <3>3
  <2>8. WellPlaced(Reading(u, b), s)
    BY <1>4, <2>7 DEF WellPlaced
  <2> QED BY <1>1, <2>4, <2>8
<1> QED BY <1>3, <1>4

-----------------------------------------------------------------------------
(* The prompt in a request for chat completions.  What is true of all messages of a list is *)
(* said by a set they are of, so that FlatType carries it through what becomes of them.     *)

Formed  == {m \in MessageType : WellFormed(m)}
NoText  == {m \in Formed : m.role # "user" \/ Only(m.parts, {"text"}) = <<>>}
Full    == {m \in Formed : \A j \in DOMAIN m.parts : m.parts[j].kind # "empty"}
NotUser == {x \in MessageType : x.role # "user"}
Plain   == {x \in MessageType : Promptless(x.parts)}
Kept    == {x \in MessageType : x.role = "tool" => x.parts[1].kind # "empty"}

\* The messages for chat completions that one message of the history becomes.
Spread ==
  [m \in MessageType |->
     IF path = "chat" THEN <<m>>
     ELSE IF path = "responses_chat" THEN <<ToChatItem[m]>> ELSE ToChatMessages[m]]

AllIn(s, T) == \A i \in DOMAIN s : s[i] \in T

LEMMA TypedSeq ==
  ASSUME NEW S, NEW T, NEW s \in Seq(S), AllIn(s, T)
  PROVE  s \in Seq(T)
<1>1. PICK n : n = Len(s)
  OBVIOUS
<1>2. n \in Nat /\ DOMAIN s = 1..n /\ s = [i \in 1..n |-> s[i]]
  BY <1>1
<1>3. \A i \in 1..n : s[i] \in T
  BY <1>2 DEF AllIn
<1> QED BY <1>2, <1>3

LEMMA SpreadIs ==
  ASSUME HistoryOK, ToChat
  PROVE  ChatMessages = SystemMessage \o Flat(Spread, history)
<1>1. history \in Seq(MessageType)
  BY HistoryIs
<1>2. PICK g : g = Spread
  OBVIOUS
<1>3. \A i \in DOMAIN history : history[i] \in MessageType
  BY <1>1
<1>4. CASE path = "chat"
  <2>1. PICK f : f = [m \in MessageType |-> m]
    OBVIOUS
  <2>2. Makes(f, MessageType, MessageType)
    BY <2>1 DEF Makes
  <2>3. \A i \in DOMAIN history : g[history[i]] = Singly(f, MessageType)[history[i]]
    BY <1>2, <1>3, <1>4, <2>1 DEF Spread, Singly
  <2>4. Flat(g, history) = Flat(Singly(f, MessageType), history)
    BY <2>3, FlatSame
  <2>5. Flat(Singly(f, MessageType), history) = Map(f, history)
    BY <1>1, <2>2, FlatSingly
  <2>6. Map(f, history) = history
    <3>1. \A i \in DOMAIN history : f[history[i]] = history[i]
      BY <1>3, <2>1
    <3>2. history = [i \in DOMAIN history |-> history[i]]
      BY <1>1
    <3> QED BY <3>1, <3>2 DEF Map
  <2>7. SystemMessage = <<>>
    BY <1>4 DEF HistoryOK, SystemMessage
  <2>8. <<>> \o history = history
    BY <1>1, ConcatEmptySeq
  <2>9. ChatMessages = history
    BY <1>4, ChatMessagesAre
  <2> QED BY <1>2, <2>4, <2>5, <2>6, <2>7, <2>8, <2>9
<1>5. CASE path = "responses_chat"
  <2>1. PICK f : f = ToChatItem
    OBVIOUS
  <2>2. Makes(f, MessageType, MessageType)
    BY <2>1, ToChatItemIs
  <2>3. \A i \in DOMAIN history : g[history[i]] = Singly(f, MessageType)[history[i]]
    <3>1. \A m \in MessageType : g[m] = <<f[m]>>
      BY <1>2, <1>5, <2>1 DEF Spread
    <3>2. \A m \in MessageType : Singly(f, MessageType)[m] = <<f[m]>>
      BY DEF Singly
    <3> QED BY <1>3, <3>1, <3>2
  <2>4. Flat(g, history) = Flat(Singly(f, MessageType), history)
    BY <2>3, FlatSame
  <2>5. Flat(Singly(f, MessageType), history) = Map(f, history)
    BY <1>1, <2>2, FlatSingly
  <2>6. ChatMessages = SystemMessage \o Map(f, history)
    BY <1>5, <2>1, ChatMessagesAre
  <2> QED BY <1>2, <2>4, <2>5, <2>6
<1>6. CASE path = "anthropic_chat"
  <2>1. \A i \in DOMAIN history : g[history[i]] = ToChatMessages[history[i]]
    <3>1. \A m \in MessageType : g[m] = ToChatMessages[m]
      BY <1>2, <1>6 DEF Spread
    <3> QED BY <1>3, <3>1
  <2>2. Flat(g, history) = Flat(ToChatMessages, history)
    BY <2>1, FlatSame
  <2>3. ChatMessages = SystemMessage \o Flat(ToChatMessages, history)
    BY <1>6, ChatMessagesAre
  <2> QED BY <1>2, <2>2, <2>3
<1> QED BY <1>4, <1>5, <1>6 DEF ToChat

\* One message, and all that is said of it.
LEMMA OneMessage ==
  ASSUME NEW T, NEW x \in T
  PROVE  <<x>> \in Seq(T) /\ <<>> \in Seq(T)
OBVIOUS

LEMMA SystemMessageIs ==
  ASSUME HistoryOK
  PROVE  /\ SystemMessage \in Seq(Plain) /\ SystemMessage \in Seq(NotUser)
         /\ SystemMessage \in Seq(Kept) /\ SystemMessage \in Seq(MessageType)
<1>1. CASE system = <<>>
  <2>1. SystemMessage = <<>>
    BY <1>1 DEF SystemMessage
  <2> QED BY <2>1
<1>2. CASE system # <<>>
  <2>1. PICK x : x = Message("message", "system", system)
    OBVIOUS
  <2>2. system \in Seq(PartType) /\ Promptless(system)
    BY SystemIs, NothingPrompted
  <2>3. x \in MessageType /\ x.role = "system" /\ x.parts = system
    BY <2>1, <2>2, RoleIs DEF Message, MessageType
  <2>4. x \in Plain /\ x \in NotUser /\ x \in Kept
    BY <2>2, <2>3 DEF Plain, NotUser, Kept
  <2>5. SystemMessage = <<x>>
    BY <1>2, <2>1 DEF SystemMessage
  <2> QED BY <2>3, <2>4, <2>5, OneMessage
<1> QED BY <1>1, <1>2

\* A message of the history that becomes one message.
LEMMA SpreadOne ==
  ASSUME ToChat, path # "anthropic_chat", NEW m \in Formed
  PROVE  \E x \in MessageType :
           /\ Spread[m] = <<x>> /\ x.parts = m.parts /\ x.type = "message"
           /\ x.role = "user" <=> m.role = "user"
           /\ x.role = "tool" => Len(m.parts) = 1
           /\ m.role = "user" => Only(m.parts, {"text"}) = m.parts
<1>1. m \in MessageType /\ WellFormed(m) /\ m.parts \in Seq(SaidPart) /\ m.parts \in Seq(PartType)
  BY SaidPartType DEF Formed, WellFormed
<1>2. Of(m, {"text"}) => Only(m.parts, {"text"}) = m.parts
  <2>1. ASSUME Of(m, {"text"})
        PROVE  Only(m.parts, {"text"}) = m.parts
    <3>1. \A i \in DOMAIN m.parts : m.parts[i].kind \in {"text"}
      BY <2>1 DEF Of
    <3> QED BY <1>1, <3>1, OnlyAll
  <2> QED BY <2>1
<1>3. CASE path = "chat"
  <2>1. ChatForm(m)
    BY <1>1, <1>3 DEF WellFormed
  <2>2. Spread[m] = <<m>>
    BY <1>1, <1>3 DEF Spread
  <2>3. m.type = "message"
    BY <2>1 DEF ChatForm
  <2>4. m.role = "tool" => Len(m.parts) = 1
    BY <2>1 DEF ChatForm
  <2>5. m.role = "user" => Of(m, {"text"})
    BY <2>1 DEF ChatForm
  <2> QED BY <1>1, <1>2, <2>2, <2>3, <2>4, <2>5
<1>4. CASE path = "responses_chat"
  <2>1. ResponsesForm(m)
    BY <1>1, <1>4 DEF WellFormed, ViaResponses
  <2>2. PICK x : x = ToChatItem[m]
    OBVIOUS
  <2>3. Spread[m] = <<x>>
    BY <1>1, <1>4, <2>2 DEF Spread
  <2>4. /\ x \in MessageType /\ x.type = "message" /\ x.parts = m.parts
        /\ x.role = IF m.type = "function_call_output" THEN "tool" ELSE m.role
    BY <1>1, <2>2, ToChatItemIs DEF Makes
  <2>5. m.type = "function_call_output" => m.role = ""
    BY <2>1 DEF ResponsesForm
  <2>6. x.role = "user" <=> m.role = "user"
    BY <2>4, <2>5
  <2>7. Len(m.parts) = 1
    BY <2>1 DEF ResponsesForm
  <2>8. m.role = "user" => Of(m, {"text"})
    BY <2>1 DEF ResponsesForm
  <2> QED BY <1>2, <2>3, <2>4, <2>6, <2>7, <2>8
<1> QED BY <1>3, <1>4 DEF ToChat

\* Messages of a tool, one for each of the parts.
LEMMA ToolMessagesAre ==
  ASSUME NEW list \in Seq(SaidPart)
  PROVE  /\ Map(ToolMessage, list) \in Seq(Plain) /\ Map(ToolMessage, list) \in Seq(NotUser)
         /\ Map(ToolMessage, list) \in Seq(MessageType)
         /\ (\A i \in DOMAIN list : list[i].kind # "empty") => Map(ToolMessage, list) \in Seq(Kept)
<1>1. PICK z, f : z = Map(ToolMessage, list) /\ f = ToolMessage
  OBVIOUS
<1>2. list \in Seq(PartType) /\ \A i \in DOMAIN list : list[i] \in PartType /\ list[i] \in SaidPart
  BY SaidPartType
<1>3. Makes(f, PartType, MessageType)
  BY <1>1, ToolMessageIs
<1>4. z \in Seq(MessageType)
  BY <1>1, <1>2, <1>3, MapType
<1>5. DOMAIN z = DOMAIN list /\ \A i \in DOMAIN list : z[i] = f[list[i]]
  BY <1>1 DEF Map
<1>6. ASSUME NEW i \in DOMAIN z
      PROVE  /\ z[i] \in MessageType /\ z[i].role = "tool" /\ z[i].parts = <<list[i]>>
             /\ Promptless(<<list[i]>>) /\ list[i] \in PartType
  <2>1. PICK x : x = list[i]
    OBVIOUS
  <2>2. x \in PartType /\ x \in SaidPart /\ z[i] = f[x]
    BY <1>2, <1>5, <2>1
  <2>3. <<x>> \in Seq(SaidPart)
    BY <2>2
  <2>4. Promptless(<<x>>)
    BY <2>3, PromptlessIs
  <2>5. f[x].role = "tool" /\ f[x].parts = <<x>> /\ f[x] \in MessageType
    BY <1>1, <1>3, <2>2, ToolMessageIs DEF Makes
  <2> QED BY <2>1, <2>2, <2>4, <2>5
<1>7. AllIn(z, Plain)
  BY <1>6 DEF Plain, AllIn
<1>8. AllIn(z, NotUser)
  BY <1>6 DEF NotUser, AllIn
<1>9. ASSUME \A i \in DOMAIN list : list[i].kind # "empty"
      PROVE  AllIn(z, Kept)
  <2>1. ASSUME NEW i \in DOMAIN z
        PROVE  z[i] \in Kept
    <3>1. i \in DOMAIN list
      BY <1>5
    <3>2. z[i] \in MessageType /\ z[i].parts = <<list[i]>>
      BY <1>6
    <3>3. z[i].parts[1] = list[i]
      BY <3>2
    <3>4. list[i].kind # "empty"
      BY <1>9, <3>1
    <3> QED BY <3>2, <3>3, <3>4 DEF Kept
  <2> QED BY <2>1 DEF AllIn
<1>10. z \in Seq(Plain)
  BY <1>4, <1>7, TypedSeq
<1>11. z \in Seq(NotUser)
  BY <1>4, <1>8, TypedSeq
<1>12. (\A i \in DOMAIN list : list[i].kind # "empty") => z \in Seq(Kept)
  BY <1>4, <1>9, TypedSeq
<1> QED BY <1>1, <1>4, <1>10, <1>11, <1>12

\* What a message of the history becomes, by what is known of it.
LEMMA SpreadOf ==
  ASSUME ToChat, NEW m \in Formed
  PROVE  /\ Spread[m] \in Seq(Plain) /\ Spread[m] \in Seq(MessageType)
         /\ m \in NoText => Spread[m] \in Seq(NotUser)
         /\ m \in Full => Spread[m] \in Seq(Kept)
<1>1. m \in MessageType /\ WellFormed(m) /\ m.parts \in Seq(SaidPart) /\ m.parts # <<>>
      /\ m.parts \in Seq(PartType)
  BY SaidPartType DEF Formed, WellFormed
<1>2. CASE path # "anthropic_chat"
  <2>1. PICK x \in MessageType :
           /\ Spread[m] = <<x>> /\ x.parts = m.parts /\ x.type = "message"
           /\ x.role = "user" <=> m.role = "user"
           /\ x.role = "tool" => Len(m.parts) = 1
           /\ m.role = "user" => Only(m.parts, {"text"}) = m.parts
    BY <1>2, SpreadOne
  <2>2. x \in MessageType /\ Promptless(x.parts)
    <3>1. Promptless(m.parts)
      BY <1>1, PromptlessIs
    <3> QED BY <2>1, <3>1
  <2>3. x \in Plain
    BY <2>2 DEF Plain
  <2>4. m \in NoText => x \in NotUser
    <3>1. ASSUME m \in NoText
          PROVE  x \in NotUser
      <4>1. m.role # "user" \/ Only(m.parts, {"text"}) = <<>>
        BY <3>1 DEF NoText
      <4>2. x.role # "user"
        BY <1>1, <2>1, <4>1
      <4> QED BY <2>2, <4>2 DEF NotUser
    <3> QED BY <3>1
  <2>5. m \in Full => x \in Kept
    <3>1. ASSUME m \in Full, x.role = "tool"
          PROVE  x.parts[1].kind # "empty"
      <4>1. Len(m.parts) = 1
        BY <2>1, <3>1
      <4>2. 1 \in DOMAIN m.parts
        BY <1>1, <4>1
      <4>3. m.parts[1].kind # "empty"
        BY <3>1, <4>2 DEF Full
      <4> QED BY <2>1, <4>3
    <3> QED BY <2>2, <3>1 DEF Kept
  <2> QED BY <2>1, <2>2, <2>3, <2>4, <2>5, OneMessage
<1>3. CASE path = "anthropic_chat"
  <2>1. AnthropicForm(m)
    BY <1>1, <1>3 DEF WellFormed, ViaAnthropic
  <2>2. Spread[m] = AnthropicMessageToChat(m)
    <3>1. path # "chat" /\ path # "responses_chat"
      BY <1>3
    <3> QED BY <1>1, <3>1 DEF Spread, ToChatMessages
  <2>3. PICK texts, results, calls : /\ texts = Only(m.parts, {"text"}) /\ results = Only(m.parts, Results)
                                     /\ calls = Only(m.parts, {"call"})
    OBVIOUS
  <2>4. /\ texts \in Seq(SaidPart) /\ results \in Seq(SaidPart) /\ calls \in Seq(SaidPart)
        /\ texts \in Seq(PartType) /\ results \in Seq(PartType)
    BY <1>1, <2>3, OnlySaid
  <2>5. CASE m.role # "user"
    <3>1. PICK p, x : p = texts \o calls /\ x = Message("message", "assistant", p)
      OBVIOUS
    <3>2. p \in Seq(SaidPart)
      BY <2>4, <3>1
    <3>3. p \in Seq(PartType) /\ Promptless(p)
      BY <3>2, SaidPartType, PromptlessIs
    <3>4. x \in MessageType /\ x.role = "assistant" /\ x.parts = p
      BY <3>1, <3>3, RoleIs DEF Message, MessageType
    <3>5. Spread[m] = <<x>>
      BY <1>1, <2>2, <2>3, <2>5, <3>1, AnthropicMessageToChatIs
    <3>6. x \in Plain /\ x \in NotUser /\ x \in Kept
      BY <3>3, <3>4 DEF Plain, NotUser, Kept
    <3> QED BY <3>4, <3>5, <3>6, OneMessage
  <2>6. CASE m.role = "user"
    <3>1. PICK u, a, b : /\ u = Message("message", "user", texts) /\ a = Map(ToolMessage, results)
                         /\ b = IF texts # <<>> \/ results = <<>> THEN <<u>> ELSE <<>>
      OBVIOUS
    <3>2. u \in MessageType /\ u.role = "user" /\ u.parts = texts
      BY <2>4, <3>1, RoleIs DEF Message, MessageType
    <3>3. Spread[m] = a \o b
      BY <1>1, <2>2, <2>3, <2>6, <3>1, AnthropicMessageToChatIs
    <3>4. u \in Plain /\ u \in Kept
      <4>1. Promptless(texts)
        BY <2>4, PromptlessIs
      <4> QED BY <3>2, <4>1 DEF Plain, Kept
    <3>5. b \in Seq(Plain) /\ b \in Seq(Kept) /\ b \in Seq(MessageType)
      BY <3>1, <3>2, <3>4, OneMessage
    <3>6. a \in Seq(Plain) /\ a \in Seq(NotUser) /\ a \in Seq(MessageType)
      BY <2>4, <3>1, ToolMessagesAre
    <3>7. a \o b \in Seq(Plain) /\ a \o b \in Seq(MessageType)
      BY <3>5, <3>6
    <3>8. m \in NoText => a \o b \in Seq(NotUser)
      <4>1. ASSUME m \in NoText
            PROVE  a \o b \in Seq(NotUser)
        <5>1. texts = <<>>
          BY <2>3, <2>6, <4>1 DEF NoText
        <5>2. results # <<>>
          <6>1. ASSUME results = <<>>
                PROVE  FALSE
            <7>1. PICK p, A : p = m.parts /\ A = {"text"}
              OBVIOUS
            <7>2. A \intersect Results = {} /\ p \in Seq(PartType)
              BY <1>1, <7>1 DEF Results
            <7>3. \A i \in DOMAIN p : p[i].kind \in A \union Results
              BY <2>1, <2>6, <7>1 DEF AnthropicForm, Of
            <7>4. Len(Only(p, A)) + Len(Only(p, Results)) = Len(p)
              BY <7>2, <7>3, OnlyShares
            <7>5. Len(p) = 0
              <8>1. Only(p, A) = <<>> /\ Only(p, Results) = <<>>
                BY <2>3, <5>1, <6>1, <7>1
              <8>2. Len(<<>>) = 0
                OBVIOUS
              <8> QED BY <7>4, <8>1, <8>2
            <7>6. p = <<>>
              BY <7>2, <7>5, EmptySeq
            <7> QED BY <1>1, <7>1, <7>6
          <6> QED BY <6>1
        <5>3. b = <<>>
          BY <3>1, <5>1, <5>2
        <5>4. a \o <<>> = a
          BY <3>6, ConcatEmptySeq
        <5> QED BY <3>6, <5>3, <5>4
      <4> QED BY <4>1
    <3>9. m \in Full => a \o b \in Seq(Kept)
      <4>1. ASSUME m \in Full
            PROVE  a \o b \in Seq(Kept)
        <5>1. \A i \in DOMAIN results : results[i].kind # "empty"
          <6>1. ASSUME NEW i \in DOMAIN results
                PROVE  results[i].kind # "empty"
            <7>1. \E j \in DOMAIN m.parts : results[i] = m.parts[j]
              BY <1>1, <2>3, OnlyFrom
            <7> QED BY <4>1, <7>1 DEF Full
          <6> QED BY <6>1
        <5>2. a \in Seq(Kept)
          BY <2>4, <3>1, <5>1, ToolMessagesAre
        <5> QED BY <3>5, <5>2
      <4> QED BY <4>1
    <3> QED BY <3>3, <3>7, <3>8, <3>9
  <2> QED BY <2>5, <2>6
<1> QED BY <1>2, <1>3

LEMMA SpreadMakes ==
  ASSUME ToChat
  PROVE  /\ Makes(Spread, Formed, Seq(Plain)) /\ Makes(Spread, Formed, Seq(MessageType))
         /\ Makes(Spread, NoText, Seq(NotUser)) /\ Makes(Spread, Full, Seq(Kept))
<1>1. NoText \subseteq Formed /\ Full \subseteq Formed
  BY DEF NoText, Full
<1>2. Makes(Spread, Formed, Seq(Plain)) /\ Makes(Spread, Formed, Seq(MessageType))
  BY SpreadOf DEF Makes
<1>3. Makes(Spread, NoText, Seq(NotUser))
  BY <1>1, SpreadOf DEF Makes
<1>4. Makes(Spread, Full, Seq(Kept))
  BY <1>1, SpreadOf DEF Makes
<1> QED BY <1>2, <1>3, <1>4

\* The message of a user who says something ends in one of these.
LEMMA SpreadLast ==
  ASSUME ToChat, NEW m \in Formed, m \notin NoText
  PROVE  \E x \in Seq(MessageType) : \E u \in MessageType :
           /\ Spread[m] = x \o <<u>> /\ u.role = "user" /\ u.type = "message"
           /\ u.parts = Only(m.parts, {"text"})
<1>1. m \in MessageType /\ WellFormed(m) /\ m.parts \in Seq(SaidPart)
  BY DEF Formed, WellFormed
<1>2. m.role = "user" /\ Only(m.parts, {"text"}) # <<>>
  BY DEF NoText
<1>3. CASE path # "anthropic_chat"
  <2>1. PICK u \in MessageType :
           /\ Spread[m] = <<u>> /\ u.parts = m.parts /\ u.type = "message"
           /\ u.role = "user" <=> m.role = "user"
           /\ u.role = "tool" => Len(m.parts) = 1
           /\ m.role = "user" => Only(m.parts, {"text"}) = m.parts
    BY <1>3, SpreadOne
  <2>2. PICK o, none : o = <<u>> /\ none = <<>>
    OBVIOUS
  <2>3. o \in Seq(MessageType) /\ none \in Seq(MessageType)
    BY <2>2
  <2>4. <<>> \o o = o
    BY <2>3, ConcatEmptySeq
  <2>5. Spread[m] = none \o <<u>>
    BY <2>1, <2>2, <2>4
  <2>6. u.role = "user" /\ u.type = "message" /\ u.parts = Only(m.parts, {"text"})
    BY <1>2, <2>1
  <2> QED BY <2>3, <2>5, <2>6
<1>4. CASE path = "anthropic_chat"
  <2>1. Spread[m] = AnthropicMessageToChat(m)
    <3>1. path # "chat" /\ path # "responses_chat"
      BY <1>4
    <3> QED BY <1>1, <3>1 DEF Spread, ToChatMessages
  <2>2. PICK texts, results, u, a : /\ texts = Only(m.parts, {"text"}) /\ results = Only(m.parts, Results)
                                    /\ u = Message("message", "user", texts)
                                    /\ a = Map(ToolMessage, results)
    OBVIOUS
  <2>3. texts \in Seq(PartType) /\ results \in Seq(SaidPart) /\ texts # <<>>
    BY <1>1, <1>2, <2>2, OnlySaid
  <2>4. u \in MessageType /\ u.role = "user" /\ u.type = "message" /\ u.parts = texts
    BY <2>2, <2>3, RoleIs DEF Message, MessageType
  <2>5. a \in Seq(MessageType)
    BY <2>2, <2>3, ToolMessagesAre
  <2>6. AnthropicMessageToChat(m)
          = Map(ToolMessage, Only(m.parts, Results))
              \o IF Only(m.parts, {"text"}) # <<>> \/ Only(m.parts, Results) = <<>>
                 THEN <<Message("message", "user", Only(m.parts, {"text"}))>> ELSE <<>>
    BY <1>1, <1>2, AnthropicMessageToChatIs
  <2>7. Spread[m] = a \o <<u>>
    BY <1>2, <2>1, <2>2, <2>6
  <2> QED BY <2>2, <2>4, <2>5, <2>7
<1> QED BY <1>3, <1>4

LEMMA HistoryFormed ==
  ASSUME HistoryOK
  PROVE  history \in Seq(Formed) /\ history \in Seq(MessageType)
<1>1. history \in Seq(MessageType) /\ \A i \in DOMAIN history : WellFormed(history[i]) /\ history[i] \in MessageType
  BY HistoryIs
<1>2. AllIn(history, Formed)
  BY <1>1 DEF AllIn, Formed
<1> QED BY <1>1, <1>2, TypedSeq

LEMMA ChatPlain ==
  ASSUME HistoryOK, ToChat
  PROVE  ChatMessages \in Seq(Plain) /\ ChatMessages \in Seq(MessageType)
<1>1. PICK y, z : y = SystemMessage /\ z = Flat(Spread, history)
  OBVIOUS
<1>2. history \in Seq(Formed)
  BY HistoryFormed
<1>3. Makes(Spread, Formed, Seq(Plain)) /\ Makes(Spread, Formed, Seq(MessageType))
  BY SpreadMakes
<1>4. z \in Seq(Plain)
  BY <1>1, <1>2, <1>3, FlatType
<1>5. z \in Seq(MessageType)
  BY <1>1, <1>2, <1>3, FlatType
<1>6. y \in Seq(Plain) /\ y \in Seq(MessageType)
  BY <1>1, SystemMessageIs
<1>7. y \o z \in Seq(Plain) /\ y \o z \in Seq(MessageType)
  BY <1>4, <1>5, <1>6
<1> QED BY <1>1, <1>7, SpreadIs

\* A history with no empty result.
LEMMA ChatKept ==
  ASSUME HistoryOK, ToChat, ~Misplaced
  PROVE  ChatMessages \in Seq(Kept)
<1>1. history \in Seq(Formed) /\ history \in Seq(MessageType)
  BY HistoryFormed
<1>2. ASSUME NEW i \in DOMAIN history, NEW j \in DOMAIN history[i].parts
      PROVE  history[i].parts[j].kind # "empty"
  <2>1. PICK f, z : f = Parts /\ z = PartsOf(history)
    OBVIOUS
  <2>2. Makes(f, MessageType, Seq(PartType)) /\ z = Flat(f, history) /\ z \in Seq(PartType)
    BY <1>1, <2>1, PartsIs
  <2>3. f[history[i]] = history[i].parts
    <3>1. history[i] \in MessageType
      BY <1>1
    <3> QED BY <2>1, <3>1 DEF Parts
  <2>4. \A n \in DOMAIN history : \A k \in DOMAIN f[history[n]] :
          \E l \in DOMAIN Flat(f, history) : Flat(f, history)[l] = f[history[n]][k]
    BY <1>1, <2>2, FlatFrom
  <2>5. PICK l \in DOMAIN z : z[l] = f[history[i]][j]
    BY <2>2, <2>3, <2>4
  <2>6. z[l] \in Range(z)
    <3>1. Range(z) = {z[n] : n \in DOMAIN z}
      BY DEF Range
    <3> QED BY <3>1
  <2>7. \A part \in Range(PartsOf(history)) : part.kind # "empty"
    BY DEF Misplaced
  <2> QED BY <2>1, <2>3, <2>5, <2>6, <2>7
<1>3. AllIn(history, Full)
  <2>1. ASSUME NEW i \in DOMAIN history
        PROVE  history[i] \in Full
    <3>1. history[i] \in Formed
      BY <1>1
    <3>2. \A j \in DOMAIN history[i].parts : history[i].parts[j].kind # "empty"
      BY <1>2
    <3> QED BY <3>1, <3>2 DEF Full
  <2> QED BY <2>1 DEF AllIn
<1>4. history \in Seq(Full)
  BY <1>1, <1>3, TypedSeq
<1>5. PICK y, z : y = SystemMessage /\ z = Flat(Spread, history)
  OBVIOUS
<1>6. Makes(Spread, Full, Seq(Kept))
  BY SpreadMakes
<1>7. z \in Seq(Kept)
  BY <1>4, <1>5, <1>6, FlatType
<1>8. y \in Seq(Kept)
  BY <1>5, SystemMessageIs
<1>9. y \o z \in Seq(Kept)
  BY <1>7, <1>8
<1> QED BY <1>5, <1>9, SpreadIs

LEMMA SaysNothing ==
  ASSUME HistoryOK, ToChat, NEW i \in DOMAIN history
  PROVE  history[i] \in Formed /\ (i \in UserMessages <=> history[i] \notin NoText)
<1>1. history[i] \in Formed
  BY HistoryFormed
<1>2. i \in UserMessages <=> history[i].role = "user" /\ Only(history[i].parts, {"text"}) # <<>>
  BY DEF UserMessages
<1>3. history[i] \in NoText
        <=> (history[i].role # "user" \/ Only(history[i].parts, {"text"}) = <<>>)
  BY <1>1 DEF NoText
<1> QED BY <1>1, <1>2, <1>3

LEMMA ChatNoUser ==
  ASSUME HistoryOK, ToChat, UserMessages = {}
  PROVE  ChatMessages \in Seq(NotUser)
<1>1. history \in Seq(Formed)
  BY HistoryFormed
<1>2. AllIn(history, NoText)
  BY SaysNothing DEF AllIn
<1>3. history \in Seq(NoText)
  BY <1>1, <1>2, TypedSeq
<1>4. PICK y, z : y = SystemMessage /\ z = Flat(Spread, history)
  OBVIOUS
<1>5. Makes(Spread, NoText, Seq(NotUser))
  BY SpreadMakes
<1>6. z \in Seq(NotUser)
  BY <1>3, <1>4, <1>5, FlatType
<1>7. y \in Seq(NotUser)
  BY <1>4, SystemMessageIs
<1>8. y \o z \in Seq(NotUser)
  BY <1>6, <1>7
<1> QED BY <1>4, <1>8, SpreadIs

LEMMA MessagesRegrouped ==
  ASSUME NEW a \in Seq(MessageType), NEW b \in Seq(MessageType), NEW c \in Seq(MessageType)
  PROVE  Associates(a, b, c)
BY ConcatRegrouped

\* The last message of the user on the way to chat completions.
LEMMA LastInChat ==
  ASSUME HistoryOK, ToChat, UserMessages # {}
  PROVE  \E a \in Seq(MessageType) : \E u \in MessageType : \E b \in Seq(NotUser) :
           /\ ChatMessages = a \o (<<u>> \o b)
           /\ u.role = "user" /\ u.type = "message"
           /\ u.parts = Only(history[Max(UserMessages)].parts, {"text"}) /\ u.parts # <<>>
<1>1. PICK n, m : n = Max(UserMessages) /\ m = history[n]
  OBVIOUS
<1>2. n \in DOMAIN history /\ n \in UserMessages /\ \A k \in UserMessages : n >= k
  BY <1>1, LastOfUser
<1>3. history \in Seq(Formed) /\ history \in Seq(MessageType)
  BY HistoryFormed
<1>4. m \in Formed /\ m \notin NoText
  BY <1>1, <1>2, SaysNothing
<1>5. n \in 1..Len(history)
  BY <1>2, <1>3
<1>6. PICK s \in Seq(Formed), t \in Seq(Formed) :
        /\ history = s \o (<<history[n]>> \o t)
        /\ Len(s) = n - 1 /\ Len(t) = Len(history) - n
        /\ \A j \in 1..Len(s) : s[j] = history[j] /\ j # n /\ j \in DOMAIN history
        /\ \A j \in 1..Len(t) : t[j] = history[n + j] /\ n + j # n /\ n + j \in DOMAIN history
  BY <1>3, <1>5, Around
<1>7. t \in Seq(NoText)
  <2>1. ASSUME NEW j \in DOMAIN t
        PROVE  t[j] \in NoText
    <3>1. PICK i : i = n + j
      OBVIOUS
    <3>2. j \in 1..Len(t) /\ j \in Nat /\ j > 0
      BY <1>6
    <3>3. t[j] = history[i] /\ i \in DOMAIN history /\ i > n
      BY <1>5, <1>6, <3>1, <3>2
    <3>4. i \notin UserMessages
      <4>1. i \in UserMessages => n >= i
        BY <1>2
      <4>2. ~(n >= i)
        BY <1>5, <3>1, <3>2
      <4> QED BY <4>1, <4>2
    <3> QED BY <3>3, <3>4, SaysNothing
  <2>2. AllIn(t, NoText) /\ t \in Seq(Formed)
    BY <1>6, <2>1 DEF AllIn
  <2> QED BY <2>2, TypedSeq
<1>8. PICK g, y, p, q, w : /\ g = Spread /\ y = SystemMessage /\ p = Flat(g, s) /\ q = Flat(g, t)
                           /\ w = g[m]
  OBVIOUS
<1>9. /\ Makes(g, Formed, Seq(MessageType)) /\ Makes(g, NoText, Seq(NotUser))
  BY <1>8, SpreadMakes
<1>10. Flat(g, history) = p \o (w \o q) /\ p \in Seq(MessageType) /\ w \in Seq(MessageType)
       /\ q \in Seq(MessageType)
  <2>1. s \in Seq(Formed) /\ t \in Seq(Formed)
    BY <1>6
  <2>2. /\ Flat(g, s \o (<<m>> \o t)) = Flat(g, s) \o (g[m] \o Flat(g, t))
        /\ Flat(g, s) \in Seq(MessageType) /\ g[m] \in Seq(MessageType) /\ Flat(g, t) \in Seq(MessageType)
    <3>1. PICK e, c : e = <<m>> /\ c = e \o t
      OBVIOUS
    <3>2. e \in Seq(Formed)
      BY <1>4, <3>1
    <3>3. c \in Seq(Formed)
      BY <2>1, <3>1, <3>2
    <3>4. Flat(g, s \o c) = Flat(g, s) \o Flat(g, c)
      BY <1>9, <2>1, <3>3, FlatConcat
    <3>5. Flat(g, e \o t) = Flat(g, e) \o Flat(g, t)
      BY <1>9, <2>1, <3>2, FlatConcat
    <3>6. Flat(g, <<m>>) = g[m]
      BY <1>4, <1>9, FlatOne
    <3>7. Flat(g, s) \in Seq(MessageType)
      BY <1>9, <2>1, FlatType
    <3>8. Flat(g, t) \in Seq(MessageType)
      BY <1>9, <2>1, FlatType
    <3>9. g[m] \in Seq(MessageType)
      BY <1>4, <1>9 DEF Makes
    <3> QED BY <3>1, <3>4, <3>5, <3>6, <3>7, <3>8, <3>9
  <2>3. history = s \o (<<m>> \o t)
    BY <1>1, <1>6
  <2> QED BY <1>8, <2>2, <2>3
<1>11. q \in Seq(NotUser)
  BY <1>7, <1>8, <1>9, FlatType
<1>12. PICK x \in Seq(MessageType), u \in MessageType :
           /\ Spread[m] = x \o <<u>> /\ u.role = "user" /\ u.type = "message"
           /\ u.parts = Only(m.parts, {"text"})
  BY <1>4, SpreadLast
<1>13. y \in Seq(MessageType)
  BY <1>8, SystemMessageIs
<1>14. PICK a, o : o = <<u>> /\ a = (y \o p) \o x
  OBVIOUS
<1>15. /\ a \in Seq(MessageType) /\ o \in Seq(MessageType) /\ x \in Seq(MessageType)
       /\ y \o p \in Seq(MessageType) /\ o \o q \in Seq(MessageType)
  <2>1. o \in Seq(MessageType)
    BY <1>12, <1>14
  <2>2. x \in Seq(MessageType)
    BY <1>12
  <2> QED BY <1>10, <1>13, <1>14, <2>1, <2>2
<1>16. ChatMessages = a \o (o \o q)
  <2>1. ChatMessages = y \o (p \o ((x \o o) \o q))
    <3>1. w = x \o o
      BY <1>8, <1>12, <1>14
    <3> QED BY <1>8, <1>10, <3>1, SpreadIs
  <2>2. (x \o o) \o q = x \o (o \o q)
    <3>1. Associates(x, o, q)
      BY <1>10, <1>15, MessagesRegrouped
    <3> QED BY <3>1 DEF Associates
  <2>3. PICK d, e : d = o \o q /\ e = x \o d
    OBVIOUS
  <2>4. d \in Seq(MessageType) /\ e \in Seq(MessageType)
    BY <1>15, <2>3
  <2>5. y \o (p \o e) = (y \o p) \o e
    <3>1. Associates(y, p, e)
      BY <1>10, <1>13, <2>4, MessagesRegrouped
    <3> QED BY <3>1 DEF Associates
  <2>6. PICK c : c = y \o p
    OBVIOUS
  <2>7. (c \o x) \o d = c \o (x \o d)
    <3>1. Associates(c, x, d)
      BY <1>15, <2>4, <2>6, MessagesRegrouped
    <3> QED BY <3>1 DEF Associates
  <2>8. ChatMessages = y \o (p \o e)
    BY <2>1, <2>2, <2>3
  <2>9. a = c \o x
    BY <1>14, <2>6
  <2> QED BY <2>3, <2>5, <2>6, <2>7, <2>8, <2>9
<1>17. u \in MessageType /\ u.role = "user" /\ u.type = "message"
       /\ u.parts = Only(history[Max(UserMessages)].parts, {"text"})
  BY <1>1, <1>12
<1>18. u.parts # <<>>
  BY <1>1, <1>4, <1>17 DEF NoText
<1>19. ChatMessages = a \o (<<u>> \o q)
  BY <1>14, <1>16
<1> QED BY <1>11, <1>15, <1>17, <1>18, <1>19

\* It is the one that the prompt is put into.
LEMMA LastSplit ==
  ASSUME NEW a \in Seq(MessageType), NEW u \in MessageType, NEW b \in Seq(NotUser), u.role = "user",
         NEW c \in Seq(MessageType), c = a \o (<<u>> \o b)
  PROVE  /\ LastUserMessageIndex(c) \in DOMAIN c /\ c[LastUserMessageIndex(c)] = u
<1>1. PICK o, d, n, k, t, l : /\ o = <<u>> /\ d = o \o b /\ n = Len(a) /\ k = Len(b) /\ t = c
                              /\ l = LastUserMessageIndex(t)
  OBVIOUS
<1>2. b \in Seq(MessageType) /\ \A i \in 1..k : b[i] \in NotUser
  <2>1. NotUser \subseteq MessageType
    BY DEF NotUser
  <2>2. k \in Nat /\ DOMAIN b = 1..k
    BY <1>1
  <2>3. \A i \in DOMAIN b : b[i] \in NotUser
    OBVIOUS
  <2>4. AllIn(b, MessageType)
    BY <2>1, <2>3 DEF AllIn
  <2>5. b \in Seq(MessageType)
    BY <2>4, TypedSeq
  <2> QED BY <2>2, <2>3, <2>5
<1>3. o \in Seq(MessageType) /\ Len(o) = 1 /\ o[1] = u /\ n \in Nat /\ k \in Nat
  BY <1>1
<1>4. d \in Seq(MessageType) /\ Len(d) = 1 + k
      /\ \A i \in 1..1 + k : d[i] = IF i <= 1 THEN o[i] ELSE b[i - 1]
  BY <1>1, <1>2, <1>3, ConcatProperties
<1>5. t = a \o d
  BY <1>1
<1>6. t \in Seq(MessageType) /\ Len(t) = n + Len(d)
      /\ \A i \in 1..n + Len(d) : t[i] = IF i <= n THEN a[i] ELSE d[i - n]
  BY <1>1, <1>4, <1>5, ConcatProperties
<1>7. PICK j : j = n + 1
  OBVIOUS
<1>8. j \in DOMAIN t /\ DOMAIN t = 1..n + 1 + k
  BY <1>3, <1>4, <1>6, <1>7
<1>9. t[j] = u
  <2>1. j \in 1..n + Len(d) /\ ~(j <= n) /\ j - n = 1
    BY <1>3, <1>4, <1>7
  <2>2. t[j] = d[j - n]
    BY <1>6, <2>1
  <2>3. d[1] = u
    BY <1>3, <1>4
  <2> QED BY <2>1, <2>2, <2>3
<1>10. ASSUME NEW i \in DOMAIN t, i > j
       PROVE  t[i].role # "user"
  <2>1. PICK h, g : h = i - n /\ g = h - 1
    OBVIOUS
  <2>2. i \in 1..n + Len(d) /\ ~(i <= n) /\ h \in 1..1 + k /\ ~(h <= 1) /\ g \in 1..k
    BY <1>3, <1>4, <1>7, <1>8, <1>10, <2>1, SMTT(30)
  <2>3. t[i] = d[h]
    BY <1>6, <2>1, <2>2
  <2>4. d[h] = b[g]
    BY <1>4, <2>1, <2>2
  <2>5. b[g] \in NotUser
    BY <1>2, <2>2
  <2> QED BY <2>3, <2>4, <2>5 DEF NotUser
<1>11. l = j
  <2>1. \/ /\ l \in DOMAIN t /\ t[l].role = "user" /\ \A i \in DOMAIN t : t[i].role = "user" => l >= i
        \/ l = 0 /\ \A i \in DOMAIN t : t[i].role # "user"
    BY <1>1, <1>6, LastUserIs
  <2>2. l \in DOMAIN t /\ t[l].role = "user" /\ l >= j
    BY <1>8, <1>9, <2>1
  <2>3. ~(l > j)
    BY <1>10, <2>2
  <2>4. l \in Int /\ j \in Int
    BY <1>3, <1>7, <1>8, <2>2
  <2> QED BY <2>2, <2>3, <2>4
<1> QED BY <1>1, <1>8, <1>9, <1>11

\* What Preprocess makes of a message, if it keeps it.
PrepOne(s) ==
  [m \in MessageType |-> IF Preprocess(m, s) = <<>> THEN m ELSE Preprocess(m, s)[1]]

LEMMA PreprocessOne ==
  ASSUME NEW m \in MessageType, NEW s
  PROVE  /\ m \in Kept => Preprocess(m, s) = <<PrepOne(s)[m]>>
         /\ PrepOne(s)[m] \in MessageType
         /\ m.role = "user" => PrepOne(s)[m].parts = m.parts
         /\ m.role = "user" /\ m.type = "message" => Speaker(PrepOne(s)[m]) = "user"
         /\ m \in Plain => Preprocess(m, s) \in Seq(Plain)
<1>1. PICK q, role, a, b, c, z, y : /\ q = Each(m.parts, Formatted)
        /\ role = (IF m.role = "developer" /\ s.convertDeveloper THEN "system" ELSE m.role)
        /\ a = Message("message", "user", q) /\ b = Message(m.type, "assistant", q)
        /\ c = Message(m.type, role, m.parts)
        /\ z = Preprocess(m, s) /\ y = PrepOne(s)[m]
  OBVIOUS
<1>2. m.parts \in Seq(PartType) /\ m.type \in Type /\ m.role \in Role
  BY DEF MessageType
<1>3. q \in Seq(PartType) /\ Len(q) = Len(m.parts) /\ \A i \in 1..Len(q) : q[i] = Formatted(m.parts[i])
  BY <1>1, <1>2, EachFormatted
<1>4. role \in Role
  BY <1>1, <1>2, RoleIs
<1>5. a \in MessageType /\ a.parts = q
  BY <1>1, <1>3, RoleIs DEF Message, MessageType
<1>6. b \in MessageType /\ b.parts = q
  BY <1>1, <1>2, <1>3, RoleIs DEF Message, MessageType
<1>7. c \in MessageType /\ c.parts = m.parts /\ c.role = role /\ c.type = m.type
  BY <1>1, <1>2, <1>4 DEF Message, MessageType
<1>8. /\ m.role = "tool" => z = IF m.parts[1].kind = "empty" THEN <<>> ELSE <<a>>
      /\ m.role = "assistant" => z = <<b>>
      /\ m.role \notin {"tool", "assistant"} => z = <<c>>
  BY <1>1, PreprocessIs
<1>9. y = IF z = <<>> THEN m ELSE z[1]
  BY <1>1 DEF PrepOne
<1>10. m \in Kept /\ m.role = "tool" => m.parts[1].kind # "empty"
  BY DEF Kept
<1>11. m \in Kept => z = <<a>> \/ z = <<b>> \/ z = <<c>>
  BY <1>8, <1>10
<1>12. \A x : <<x>> # <<>> /\ <<x>>[1] = x
  OBVIOUS
<1>13. m \in Kept => z = <<y>>
  BY <1>9, <1>11, <1>12
<1>14. y \in MessageType
  <2>1. z = <<>> \/ z = <<a>> \/ z = <<b>> \/ z = <<c>>
    BY <1>8
  <2>2. CASE z = <<>>
    BY <1>9, <2>2
  <2>3. CASE z = <<a>>
    BY <1>5, <1>9, <1>12, <2>3
  <2>4. CASE z = <<b>>
    BY <1>6, <1>9, <1>12, <2>4
  <2>5. CASE z = <<c>>
    BY <1>7, <1>9, <1>12, <2>5
  <2> QED BY <2>1, <2>2, <2>3, <2>4, <2>5
<1>15. m.role = "user" => y = c /\ role = "user"
  <2>1. m.role = "user" => z = <<c>>
    BY <1>8
  <2> QED BY <1>1, <1>9, <1>12, <2>1
<1>16. m.role = "user" => y.parts = m.parts
  BY <1>7, <1>15
<1>17. m.role = "user" /\ m.type = "message" => Speaker(y) = "user"
  <2>1. m.role = "user" /\ m.type = "message" => y.role = "user" /\ y.type = "message"
    BY <1>7, <1>15
  <2> QED BY <2>1 DEF Speaker
<1>18. m \in Plain => z \in Seq(Plain)
  <2>1. ASSUME m \in Plain
        PROVE  z \in Seq(Plain)
    <3>1. Promptless(m.parts)
      BY <2>1 DEF Plain
    <3>2. Promptless(q)
      <4>1. ASSUME NEW i \in DOMAIN q
            PROVE  q[i].kind # "prompt"
        <5>1. i \in 1..Len(q) /\ i \in DOMAIN m.parts
          BY <1>2, <1>3
        <5>2. m.parts[i] \in PartType /\ m.parts[i].kind # "prompt"
          BY <1>2, <3>1, <5>1 DEF Promptless
        <5>3. Formatted(m.parts[i]).kind # "prompt"
          BY <5>2, FormattedType
        <5> QED BY <1>3, <5>1, <5>3
      <4> QED BY <4>1 DEF Promptless
    <3>3. a \in Plain /\ b \in Plain /\ c \in Plain
      BY <1>5, <1>6, <1>7, <3>1, <3>2 DEF Plain
    <3>4. z = <<>> \/ z = <<a>> \/ z = <<b>> \/ z = <<c>>
      BY <1>8
    <3>5. <<a>> \in Seq(Plain) /\ <<b>> \in Seq(Plain) /\ <<c>> \in Seq(Plain) /\ <<>> \in Seq(Plain)
      BY <3>3, OneMessage
    <3> QED BY <3>4, <3>5
  <2> QED BY <2>1
<1> QED BY <1>1, <1>13, <1>14, <1>16, <1>17, <1>18

LEMMA PreprocessedSilent ==
  ASSUME NEW s, NEW c \in Seq(Plain), c \in Seq(MessageType)
  PROVE  /\ PreprocessMessages(c, s) \in Seq(MessageType) /\ AllPromptless(PreprocessMessages(c, s))
<1>1. PICK p, f : p = PreprocessMessages(c, s) /\ f = Prep(s)
  OBVIOUS
<1>2. p \in Seq(MessageType) /\ p = Flat(f, c)
  BY <1>1, PreprocessMessagesIs
<1>3. Makes(f, Plain, Seq(Plain))
  <2>1. ASSUME NEW m \in Plain
        PROVE  f[m] \in Seq(Plain)
    <3>1. m \in MessageType
      BY DEF Plain
    <3>2. f[m] = Preprocess(m, s)
      BY <1>1, <3>1 DEF Prep
    <3>3. Preprocess(m, s) \in Seq(Plain)
      BY <3>1, PreprocessOne
    <3> QED BY <3>2, <3>3
  <2> QED BY <2>1 DEF Makes
<1>4. p \in Seq(Plain)
  BY <1>2, <1>3, FlatType
<1>5. AllPromptless(p)
  <2>1. \A i \in DOMAIN p : p[i] \in Plain
    BY <1>4
  <2> QED BY <2>1 DEF AllPromptless, Plain
<1> QED BY <1>1, <1>2, <1>5

\* If no message is dropped, each has its place.
LEMMA PreprocessedKept ==
  ASSUME NEW s, NEW c \in Seq(MessageType), c \in Seq(Kept)
  PROVE  PreprocessMessages(c, s) = Map(PrepOne(s), c)
<1>1. PICK f, g : f = Prep(s) /\ g = PrepOne(s)
  OBVIOUS
<1>2. Makes(g, MessageType, MessageType)
  BY <1>1, PreprocessOne DEF Makes
<1>3. ASSUME NEW i \in DOMAIN c
      PROVE  f[c[i]] = Singly(g, MessageType)[c[i]]
  <2>1. PICK m : m = c[i]
    OBVIOUS
  <2>2. m \in MessageType /\ m \in Kept
    BY <2>1
  <2>3. f[m] = Preprocess(m, s)
    BY <1>1, <2>2 DEF Prep
  <2>4. Preprocess(m, s) = <<g[m]>>
    BY <1>1, <2>2, PreprocessOne
  <2>5. Singly(g, MessageType)[m] = <<g[m]>>
    BY <2>2 DEF Singly
  <2> QED BY <2>1, <2>3, <2>4, <2>5
<1>4. Flat(f, c) = Flat(Singly(g, MessageType), c)
  BY <1>3, FlatSame
<1>5. Flat(Singly(g, MessageType), c) = Map(g, c)
  BY <1>2, FlatSingly
<1>6. PreprocessMessages(c, s) = Flat(f, c)
  BY <1>1, PreprocessMessagesIs
<1> QED BY <1>1, <1>4, <1>5, <1>6

LEMMA ChatIsLatest ==
  ASSUME HistoryOK, ToChat, NEW s
  PROVE  Latest(PreprocessMessages(ChatMessages, s), LastUserMessageIndex(ChatMessages), s)
<1>1. PICK c, p, k : /\ c = ChatMessages /\ p = PreprocessMessages(c, s)
                     /\ k = LastUserMessageIndex(c)
  OBVIOUS
<1>2. c \in Seq(MessageType) /\ c \in Seq(Plain)
  BY <1>1, ChatPlain
<1>3. p \in Seq(MessageType)
  BY <1>1, <1>2, PreprocessedSilent
<1>4. ASSUME UserMessages = {}
      PROVE  k \notin DOMAIN p
  <2>1. c \in Seq(NotUser)
    BY <1>1, <1>4, ChatNoUser
  <2>2. \A i \in DOMAIN c : c[i].role # "user"
    BY <2>1 DEF NotUser
  <2>3. k = 0
    BY <1>1, <1>2, <2>2, LastUserIs
  <2>4. 0 \notin DOMAIN p
    BY <1>3
  <2> QED BY <2>3, <2>4
<1>5. ASSUME UserMessages # {}, ~Misplaced
      PROVE  /\ k \in DOMAIN p /\ p[k].parts # <<>>
             /\ p[k].parts[1] = Rendered(s)[First]
             /\ Speaker(p[k]) = "user"
  <2>1. PICK t : t = Only(history[Max(UserMessages)].parts, {"text"})
    OBVIOUS
  <2>2. PICK a \in Seq(MessageType), u \in MessageType, b \in Seq(NotUser) :
           /\ c = a \o (<<u>> \o b)
           /\ u.role = "user" /\ u.type = "message"
           /\ u.parts = t /\ u.parts # <<>>
    BY <1>1, <1>5, <2>1, LastInChat
  <2>3. k \in DOMAIN c /\ c[k] = u
    <3>1. a \in Seq(MessageType) /\ u \in MessageType /\ b \in Seq(NotUser) /\ u.role = "user"
          /\ c = a \o (<<u>> \o b)
      BY <2>2
    <3>2. /\ LastUserMessageIndex(c) \in DOMAIN c /\ c[LastUserMessageIndex(c)] = u
      BY <1>2, <3>1, LastSplit, ZenonT(30)
    <3> QED BY <1>1, <3>2
  <2>4. c \in Seq(Kept)
    BY <1>1, <1>5, ChatKept
  <2>5. p = Map(PrepOne(s), c)
    BY <1>1, <1>2, <2>4, PreprocessedKept
  <2>6. k \in DOMAIN p /\ p[k] = PrepOne(s)[u]
    BY <2>3, <2>5 DEF Map
  <2>7. PrepOne(s)[u].parts = u.parts /\ Speaker(PrepOne(s)[u]) = "user"
    BY <2>2, PreprocessOne
  <2>8. First = t[1]
    BY <2>1 DEF First
  <2>9. Rendered(s)[t[1]] = t[1]
    <3>1. t \in Seq(PartType) /\ \A i \in DOMAIN t : t[i].kind \in {"text"}
      <4>1. PICK n : n = Max(UserMessages)
        OBVIOUS
      <4>2. n \in DOMAIN history
        BY <1>5, <4>1, LastOfUser
      <4>3. history[n].parts \in Seq(SaidPart)
        BY <4>2, HistoryIs
      <4> QED BY <2>1, <4>1, <4>3, OnlySaid
    <3>2. 1 \in DOMAIN t
      BY <2>2, <3>1, EmptySeq
    <3>3. t[1] \in PartType /\ t[1].kind = "text"
      BY <3>1, <3>2
    <3> QED BY <3>3, RenderedType
  <2> QED BY <2>2, <2>6, <2>7, <2>8, <2>9
<1>6. Latest(p, k, s)
  BY <1>4, <1>5 DEF Latest
<1> QED BY <1>1, <1>6

LEMMA PromptInChat ==
  ASSUME HistoryOK, ToChat, NEW s \in Setting
  PROVE  WellPlaced(Reading(PrepareChat(ChatMessages, s).system,
                            PrepareChat(ChatMessages, s).messages), s)
<1>1. PICK c, p, k, r, j, none : /\ c = ChatMessages /\ p = PreprocessMessages(c, s)
        /\ k = LastUserMessageIndex(c) /\ r = PrepareChat(c, s)
        /\ j = ResolvePromptInjection("chat", s) /\ none = <<>>
  OBVIOUS
<1>2. c \in Seq(MessageType) /\ c \in Seq(Plain)
  BY <1>1, ChatPlain
<1>3. p \in Seq(MessageType) /\ AllPromptless(p)
  BY <1>1, <1>2, PreprocessedSilent
<1>4. none \in Seq(PartType) /\ Promptless(none)
  BY <1>1 DEF Promptless
<1>5. PICK m : m = IF s.functionCalling
                   THEN IF j.target = "last_user_message" THEN IntoLatest(p, k)
                        ELSE <<PromptMessage(j.role)>> \o p
                   ELSE p
  OBVIOUS
<1>6. r = Sent(s.functionCalling, <<>>, m)
  BY <1>1, <1>5 DEF PrepareChat
<1>7. r.system = none /\ r.messages = m
  BY <1>1, <1>6 DEF Sent
<1>8. PICK y : y = Reading(none, m)
  OBVIOUS
<1>9. CASE ~s.functionCalling
  <2>1. m = p
    BY <1>5, <1>9
  <2>2. Places(y) = {}
    BY <1>3, <1>4, <1>8, <2>1, PromptNowhere
  <2> QED BY <1>1, <1>7, <1>8, <1>9, <2>2 DEF WellPlaced
<1>10. CASE s.functionCalling
  <2>1. \E q \in Nat : Places(y) = {q} /\ Right(y, q, s)
    <3>1. CASE Target(s) = "last_user_message"
      <4>1. j.target = "last_user_message"
        BY <1>1, <3>1, InjectionCases
      <4>2. m = IntoLatest(p, k)
        BY <1>5, <1>10, <4>1
      <4>3. Latest(p, k, s)
        BY <1>1, ChatIsLatest
      <4>4. PICK q \in Nat : AtLatest(Reading(none, IntoLatest(p, k)), q, p, k)
        BY <1>3, <1>4, LatestPlace
      <4>5. AtLatest(y, q, p, k)
        BY <1>8, <4>2, <4>4
      <4>6. q \in Nat /\ Places(y) = {q} /\ Right(y, q, s)
        BY <3>1, <4>3, <4>5, RightLatest
      <4> QED BY <4>6
    <3>2. CASE Target(s) # "last_user_message"
      <4>1. PICK role : role = FirstNonEmpty(RoleOf(s), "system")
        OBVIOUS
      <4>2. j = InjectAt("message", role)
        BY <1>1, <3>2, <4>1, InjectionCases
      <4>3. j.target = "message" /\ j.role = role
        BY <4>2, InjectAtIs
      <4>4. m = <<PromptMessage(role)>> \o p
        BY <1>5, <1>10, <4>3
      <4>5. role \in Role
        BY <4>1, TargetIs, RoleIs DEF FirstNonEmpty
      <4>6. PICK q \in Nat : InFront(Reading(none, <<PromptMessage(role)>> \o p), q,
                                     Speaker(PromptMessage(role)))
        BY <1>3, <1>4, <4>5, FrontPlace
      <4>7. InFront(y, q, Speaker(PromptMessage(role)))
        BY <1>8, <4>4, <4>6
      <4>8. ToChat \/ (Target(s) = "message" /\ (path = "anthropic" => IsConversationRole(RoleOf(s))))
        OBVIOUS
      <4>9. /\ IsConversationRole(RoleOf(s)) => role = RoleOf(s)
            /\ RoleOf(s) \in {"", "system", "developer"} => role \in {"system", "developer"}
        BY <4>1 DEF IsConversationRole, FirstNonEmpty
      <4>10. q \in Nat /\ Places(y) = {q} /\ Right(y, q, s)
        BY <3>2, <4>5, <4>7, <4>8, <4>9, RightInFront
      <4> QED BY <4>10
    <3> QED BY <3>1, <3>2
  <2>2. WellPlaced(y, s)
    BY <1>10, <2>1 DEF WellPlaced
  <2> QED BY <1>1, <1>7, <1>8, <2>2
<1> QED BY <1>9, <1>10

-----------------------------------------------------------------------------
(* The prompt of every request *)

LEMMA PromptInRequest ==
  ASSUME HistoryOK, ~Unsupported, NEW s \in Setting
  PROVE  WellPlaced(Reading(Prepare(s).system, Prepare(s).messages), s)
<1>1. CASE path = "responses"
  <2>1. Prepare(s) = PrepareResponses(s)
    BY <1>1 DEF Prepare
  <2> QED BY <1>1, <2>1, PromptInResponses
<1>2. CASE path = "anthropic"
  <2>1. Prepare(s) = PrepareAnthropic(s)
    BY <1>2 DEF Prepare
  <2> QED BY <1>2, <2>1, PromptInAnthropic
<1>3. CASE path \in {"chat", "responses_chat", "anthropic_chat"}
  <2>1. ToChat
    BY <1>3 DEF ToChat
  <2>2. Prepare(s) = PrepareChat(ChatMessages, s)
    BY <1>3 DEF Prepare, ChatMessages
  <2> QED BY <2>1, <2>2, PromptInChat
<1> QED BY <1>1, <1>2, <1>3 DEF HistoryOK

\* What a user last said is something.
LEMMA FirstType ==
  ASSUME HistoryOK, UserMessages # {}
  PROVE  First \in PartType
<1>1. PICK n, parts : n = Max(UserMessages) /\ parts = history[n].parts
  OBVIOUS
<1>2. n \in DOMAIN history /\ n \in UserMessages
  BY <1>1, LastOfUser
<1>3. parts \in Seq(SaidPart) /\ parts # <<>>
  BY <1>1, <1>2, HistoryIs
<1>4. CASE ToChat
  <2>1. PICK t, k : t = Only(parts, k) /\ k = {"text"}
    OBVIOUS
  <2>2. t # <<>>
    BY <1>1, <1>2, <1>4, <2>1 DEF UserMessages
  <2>3. t \in Seq(PartType)
    BY <1>3, <2>1, OnlySaid
  <2>4. 1 \in DOMAIN t
    BY <2>2, <2>3, EmptySeq
  <2>5. t[1] \in PartType
    BY <2>3, <2>4
  <2>6. First = t[1]
    BY <1>1, <1>4, <2>1 DEF First
  <2> QED BY <2>5, <2>6
<1>5. CASE ~ToChat
  <2>1. parts \in Seq(PartType)
    BY <1>3, SaidPartType
  <2>2. 1 \in DOMAIN parts
    BY <1>3, <2>1, EmptySeq
  <2>3. parts[1] \in PartType
    BY <2>1, <2>2
  <2>4. First = parts[1]
    BY <1>1, <1>5 DEF First
  <2> QED BY <2>3, <2>4
<1> QED BY <1>4, <1>5

LEMMA PromptRead ==
  ASSUME HistoryOK, NEW s, s = madeWith, pc = "upstream", request.soft = s.functionCalling, s \in Setting,
         WellPlaced(Reading(request.system, request.messages), s)
  PROVE  PromptPlaced
<1>1. PICK read, places, target, role, first :
        /\ read = Spoken(request.system, request.messages, Said \union Written \union {"prompt"})
        /\ places = {i \in DOMAIN read : read[i].part = Prompt}
        /\ target = FirstNonEmpty(madeWith.upstream.target, madeWith.features.target)
        /\ role = FirstNonEmpty(madeWith.upstream.role, madeWith.features.role)
        /\ first = IF ToChat THEN Only(history[Max(UserMessages)].parts, {"text"})[1]
                   ELSE history[Max(UserMessages)].parts[1]
  OBVIOUS
<1>2. read = Reading(request.system, request.messages) /\ places = Places(read)
      /\ role = RoleOf(s) /\ first = First
  BY <1>1 DEF Reading, AnyKind, Places, RoleOf, First
<1>6. Target(s) = IF target = "" THEN "auto" ELSE target
  BY <1>1 DEF Target, FirstNonEmpty, NormalizePromptInjectionTarget
<1>7. /\ target = "last_user_message" <=> Target(s) = "last_user_message"
      /\ target = "message" <=> Target(s) = "message"
  BY <1>6
<1>3. s.functionCalling \in BOOLEAN
  BY SettingAssumption
<1>4. Cardinality(places) = IF request.soft THEN 1 ELSE 0
  <2>1. CASE s.functionCalling
    <3>1. PICK p \in Nat : places = {p}
      BY <1>2, <2>1 DEF WellPlaced
    <3>2. Cardinality({p}) = 1
      BY FS_Singleton
    <3> QED BY <2>1, <3>1, <3>2
  <2>2. CASE ~s.functionCalling
    <3>1. places = {}
      BY <1>2, <2>2 DEF WellPlaced
    <3>2. Cardinality({}) = 0
      BY FS_EmptySet
    <3> QED BY <2>2, <3>1, <3>2
  <2> QED BY <2>1, <2>2
<1>5. ASSUME NEW i \in places
      PROVE  IF target = "last_user_message"
             THEN IF UserMessages = {} THEN i = Len(read) /\ read[i].by = "user"
                  ELSE Misplaced \/ /\ i < Len(read)
                                    /\ read[i + 1] = [read[i] EXCEPT !.part = Rendering(first)]
                                    /\ read[i].by = "user"
             ELSE IF ToChat \/ (target = "message" /\ (path = "anthropic" => IsConversationRole(role)))
             THEN /\ read[i].at = 1 /\ (i > 1 => read[i - 1].at = 0)
                  /\ IsConversationRole(role) => read[i].by = role
                  /\ role \in {"", "system", "developer"} => read[i].by = "system"
             ELSE \/ i = 1 /\ read[i].at = 0
                  \/ /\ target = "" /\ IsConversationRole(role) /\ read[i].by = role
                     /\ read[i].at = 1 /\ (i > 1 => read[i - 1].at = 0)
  <2>1. s.functionCalling
    <3>1. ~s.functionCalling => places = {}
      BY <1>2 DEF WellPlaced
    <3> QED BY <3>1
  <2>2. PICK p \in Nat : Places(read) = {p} /\ Right(read, p, s)
    BY <1>2, <2>1 DEF WellPlaced
  <2>3. Right(read, i, s)
    BY <1>2, <2>2
  <2>4. UserMessages # {} => Rendering(first) = Rendered(s)[First]
    <3>1. ASSUME UserMessages # {}
          PROVE  Rendering(first) = Rendered(s)[First]
      <4>1. first \in PartType /\ first = First
        BY <1>2, <3>1, FirstType
      <4> QED BY <4>1, RenderingIs
    <3> QED BY <3>1
  <2> QED BY <1>2, <1>7, <2>3, <2>4 DEF Right
<1> QED BY <1>1, <1>4, <1>5 DEF PromptPlaced

\* With soft tools, and only then, the upstream is given the prompt, once, and where the
\* settings in force at that turn want it: those of the upstream before those of the
\* features, on every path, whatever was said before and whatever the settings were then
\* (but for the messages Misplaced names).
THEOREM PromptWhereWanted == Spec => []PromptPlaced
<1>1. IInv => PromptPlaced
  <2> SUFFICES ASSUME IInv PROVE PromptPlaced
    OBVIOUS
  <2>1. CASE pc = "upstream"
    <3>1. PICK s : s = madeWith
      OBVIOUS
    <3>2. HistoryOK /\ s \in Setting /\ ~Unsupported /\ request = Prepare(s)
      BY <2>1, <3>1 DEF IInv
    <3>3. request.soft = s.functionCalling
      BY <2>1, <3>1, RequestSaysSomething DEF RequestOK
    <3>4. WellPlaced(Reading(request.system, request.messages), s)
      BY <3>2, PromptInRequest
    <3> QED BY <2>1, <3>1, <3>2, <3>3, <3>4, PromptRead
  <2>2. CASE pc # "upstream"
    BY <2>2 DEF PromptPlaced
  <2> QED BY <2>1, <2>2
<1> QED BY <1>1, IInvHolds, PTL

=============================================================================
