-------------------------- MODULE SoftTools_proofs --------------------------
(***************************************************************************)
(* Proofs about soft tool calls: the store they are put in, and the        *)
(* requests that are not streamed.                                         *)
(*                                                                         *)
(* ToolCallStore, for any IDs, size and TTL: that its map and its list     *)
(* stay in step (Coherent), that it keeps the calls in recent use          *)
(* (KeptWhileRecent), and that it implements ToolMemory.                   *)
(* Whatever a method takes out of the list leaves the rest in order, which *)
(* Thinned says once for all of them; what it adds goes to the end.  The   *)
(* list is then in the order of last use (RecentInv), so the call that a   *)
(* full store evicts is one behind which MaxSize others have been used.    *)
(*                                                                         *)
(* SoftToolRetry, for any settings, responses and parser of tool texts:    *)
(* its types, that the store is given the calls of the answer, and that    *)
(* the answer is the last response.                                        *)
(*                                                                         *)
(* SoftToolRequest, for any tools, markdown parser and values: that the    *)
(* calls a client is given are of those it allows.  Each parser reads a    *)
(* list of calls (ParsedCalls), and fitting arguments to their schema      *)
(* keeps their keys (KeysKept), because of all the types a schema may name *)
(* only one makes anything of an object.                                   *)
(***************************************************************************)
EXTENDS ToolCallStore, SoftToolRequest,
        FiniteSetTheorems, SequenceTheorems, WellFoundedInduction, TLAPS

-----------------------------------------------------------------------------
(* The store: lists *)

Once(list) == \A i, j \in DOMAIN list : list[i] = list[j] => i = j

\* Every call of the list was used before those behind it.
InOrder(list, seen) == \A i, j \in DOMAIN list : i < j => list[j] \in seen[list[i]]

\* rest is list without some of its elements.
Thinned(rest, list) ==
  \E f \in [1..Len(rest) -> 1..Len(list)] :
    \A i \in 1..Len(rest) :
      rest[i] = list[f[i]] /\ \A j \in 1..Len(rest) : i < j => f[i] < f[j]

\* A list without repetitions has as many elements as it names.
LEMMA LenOfOnce ==
  ASSUME NEW list \in Seq(ID), Once(list)
  PROVE  IsFiniteSet(Range(list)) /\ Cardinality(Range(list)) = Len(list)
<1>1. list \in Bijection(1..Len(list), Range(list))
  BY DEF Bijection, Injection, Surjection, IsInjective, Range, Once
<1>2. ExistsBijection(1..Len(list), Range(list))
  BY <1>1 DEF ExistsBijection
<1>3. Len(list) \in Nat
  OBVIOUS
<1> QED
  BY <1>2, <1>3, FS_CountingElements, FS_NatBijection

\* Taking elements out repeats none and changes no order.
LEMMA ThinnedKeeps ==
  ASSUME NEW list \in Seq(ID), NEW rest \in Seq(ID), Once(list), Thinned(rest, list)
  PROVE  /\ Once(rest)
         /\ Range(rest) \subseteq Range(list)
         /\ Len(rest) <= Len(list)
         /\ \A seen : InOrder(list, seen) => InOrder(rest, seen)
<1>1. PICK f \in [1..Len(rest) -> 1..Len(list)] :
        \A i \in 1..Len(rest) :
          rest[i] = list[f[i]] /\ \A j \in 1..Len(rest) : i < j => f[i] < f[j]
  BY DEF Thinned
<1>2. DOMAIN rest = 1..Len(rest) /\ DOMAIN list = 1..Len(list)
  OBVIOUS
<1>3. Once(rest)
  <2> SUFFICES ASSUME NEW i \in 1..Len(rest), NEW j \in 1..Len(rest),
                      rest[i] = rest[j], i < j
               PROVE  FALSE
    BY <1>2 DEF Once
  <2>1. f[i] < f[j]
    BY <1>1
  <2>2. f[i] = f[j]
    BY <1>1, <1>2 DEF Once
  <2> QED
    BY <2>1, <2>2
<1>4. Range(rest) \subseteq Range(list)
  BY <1>1, <1>2 DEF Range
<1>5. Len(rest) <= Len(list)
  BY <1>3, <1>4, LenOfOnce, FS_Subset
<1>6. ASSUME NEW seen, InOrder(list, seen)
      PROVE  InOrder(rest, seen)
  BY <1>1, <1>2, <1>6 DEF InOrder
<1> QED
  BY <1>3, <1>4, <1>5, <1>6

\* What is before the k-th element and what is behind it, put together.
LEMMA SkipJoined ==
  ASSUME NEW list \in Seq(ID), NEW k \in 1..Len(list),
         NEW front \in Seq(ID), NEW back \in Seq(ID),
         Len(front) = k - 1, Len(back) = Len(list) - k,
         \A i \in 1..(k - 1) : front[i] = list[i],
         \A i \in 1..(Len(list) - k) : back[i] = list[k + i]
  PROVE  /\ front \o back \in Seq(ID)
         /\ Len(front \o back) = Len(list) - 1
         /\ \A i \in 1..(Len(list) - 1) :
              (front \o back)[i] = IF i < k THEN list[i] ELSE list[i + 1]
<1>1. front \o back \in Seq(ID)
  OBVIOUS
<1>2. Len(front \o back) = Len(list) - 1
  <2>1. Len(front \o back) = Len(front) + Len(back)
    BY ConcatProperties
  <2> QED
    BY <2>1
<1>3. ASSUME NEW i \in 1..(Len(list) - 1), i < k
      PROVE  (front \o back)[i] = list[i]
  BY <1>3
<1>4. ASSUME NEW i \in 1..(Len(list) - 1), i >= k
      PROVE  (front \o back)[i] = list[i + 1]
  <2>1. (front \o back)[i] = back[i - (k - 1)]
    BY <1>4
  <2>2. i - (k - 1) \in 1..(Len(list) - k) /\ k + (i - (k - 1)) = i + 1
    BY <1>4
  <2> QED
    BY <2>1, <2>2
<1>5. \A i \in 1..(Len(list) - 1) : i < k \/ i >= k
  OBVIOUS
<1> QED
  BY <1>1, <1>2, <1>3, <1>4, <1>5

\* list.Remove: the elements behind the removed one move up.
LEMMA ListRemove ==
  ASSUME NEW list \in Seq(ID), NEW k \in 1..Len(list),
         Once(list)
  PROVE  /\ RemoveFirst(list, list[k]) \in Seq(ID)
         /\ Len(RemoveFirst(list, list[k])) = Len(list) - 1
         /\ \A i \in 1..(Len(list) - 1) :
              RemoveFirst(list, list[k])[i] = IF i < k THEN list[i] ELSE list[i + 1]
<1> DEFINE I == {i \in 1..Len(list) : list[i] = list[k]}
<1>1. I = {k}
  BY DEF Once
<1>2. Min(I) = k
  BY <1>1 DEF Min
<1>3. SelectInSeq(list, LAMBDA v : v = list[k]) = k
  BY <1>1, <1>2 DEF SelectInSeq
<1> DEFINE front == SubSeq(list, 1, k - 1)
           back  == SubSeq(list, k + 1, Len(list))
<1>4. RemoveFirst(list, list[k]) = front \o back
  BY <1>3 DEF RemoveFirst, RemoveAt
<1>5. front \in Seq(ID) /\ back \in Seq(ID)
  OBVIOUS
<1>6. Len(front) = k - 1 /\ Len(back) = Len(list) - k
  OBVIOUS
<1>7. \A i \in 1..(k - 1) : front[i] = list[i]
  OBVIOUS
<1>8. \A i \in 1..(Len(list) - k) : back[i] = list[k + i]
  OBVIOUS
<1> HIDE DEF I, front, back
<1>9. /\ front \o back \in Seq(ID)
      /\ Len(front \o back) = Len(list) - 1
      /\ \A i \in 1..(Len(list) - 1) :
           (front \o back)[i] = IF i < k THEN list[i] ELSE list[i + 1]
  BY <1>5, <1>6, <1>7, <1>8, SkipJoined, ZenonT(30)
<1> QED
  BY <1>4, <1>9

\* Removing a call takes it out of the list and nothing else.
LEMMA RemovedThinned ==
  ASSUME NEW list \in Seq(ID), Once(list), NEW id \in Range(list)
  PROVE  /\ RemoveFirst(list, id) \in Seq(ID)
         /\ Thinned(RemoveFirst(list, id), list)
         /\ Range(RemoveFirst(list, id)) = Range(list) \ {id}
<1>1. PICK k \in 1..Len(list) : list[k] = id
  BY DEF Range
<1> DEFINE rest == RemoveFirst(list, id)
           f == [i \in 1..Len(rest) |-> IF i < k THEN i ELSE i + 1]
<1>2. /\ rest \in Seq(ID) /\ Len(rest) = Len(list) - 1
      /\ \A i \in 1..(Len(list) - 1) : rest[i] = IF i < k THEN list[i] ELSE list[i + 1]
  BY <1>1, ListRemove
<1> HIDE DEF rest
<1>3. f \in [1..Len(rest) -> 1..Len(list)]
  BY <1>2
<1>4. \A i \in 1..Len(rest) :
        rest[i] = list[f[i]] /\ \A j \in 1..Len(rest) : i < j => f[i] < f[j]
  BY <1>2
<1>5. Thinned(rest, list)
  BY <1>3, <1>4 DEF Thinned
<1>6. DOMAIN rest = 1..(Len(list) - 1) /\ DOMAIN list = 1..Len(list)
  BY <1>2
<1>7. ASSUME NEW i \in 1..(Len(list) - 1)
      PROVE  rest[i] \in Range(list) \ {id}
  <2>1. CASE i < k
    BY <1>1, <1>2, <1>6, <2>1 DEF Once, Range
  <2>2. CASE i >= k
    <3>1. rest[i] = list[i + 1] /\ i + 1 \in 1..Len(list) /\ i + 1 # k
      BY <1>2, <2>2
    <3> QED
      BY <1>1, <1>6, <3>1 DEF Once, Range
  <2> QED
    BY <2>1, <2>2
<1>8. ASSUME NEW i \in 1..Len(list), list[i] # id
      PROVE  list[i] \in Range(rest)
  <2>1. CASE i < k
    <3>1. i \in 1..(Len(list) - 1) /\ rest[i] = list[i]
      BY <1>2, <2>1
    <3> QED
      BY <1>6, <3>1 DEF Range
  <2>2. CASE i > k
    <3>1. i - 1 \in 1..(Len(list) - 1) /\ rest[i - 1] = list[i]
      BY <1>2, <2>2
    <3> QED
      BY <1>6, <3>1 DEF Range
  <2> QED
    BY <1>1, <1>8, <2>1, <2>2
<1>9. Range(rest) = Range(list) \ {id}
  BY <1>6, <1>7, <1>8 DEF Range
<1> QED
  BY <1>2, <1>5, <1>9 DEF rest

\* The elements of list from the k-th on.
LEMMA RestThinned ==
  ASSUME NEW list \in Seq(ID), NEW k \in {1, 2}, k <= Len(list) + 1,
         NEW rest, rest = SubSeq(list, k, Len(list))
  PROVE  /\ rest \in Seq(ID)
         /\ Thinned(rest, list)
         /\ Len(rest) = Len(list) - k + 1
         /\ k = 1 => Range(rest) = Range(list)
         /\ k = 2 => Range(rest) \union {list[1]} = Range(list)
         /\ \A i \in 1..Len(rest) : rest[i] = list[i + k - 1]
<1> DEFINE f == [i \in 1..Len(rest) |-> i + k - 1]
<1>1. /\ rest \in Seq(ID) /\ Len(rest) = Len(list) - k + 1
      /\ \A i \in 1..Len(rest) : rest[i] = list[i + k - 1]
  <2>1. \A i \in k..Len(list) : list[i] \in ID
    OBVIOUS
  <2>2. k \in Int /\ Len(list) \in Int
    OBVIOUS
  <2>3. /\ rest \in Seq(ID)
        /\ Len(rest) = IF k <= Len(list) THEN Len(list) - k + 1 ELSE 0
        /\ \A i \in 1..(Len(list) - k + 1) : rest[i] = list[k + i - 1]
    BY <2>1, <2>2, SubSeqProperties
  <2>4. Len(rest) = Len(list) - k + 1
    BY <2>2, <2>3
  <2> QED
    BY <2>2, <2>3, <2>4
<1>2. f \in [1..Len(rest) -> 1..Len(list)]
  BY <1>1
<1>3. \A i \in 1..Len(rest) :
        rest[i] = list[f[i]] /\ \A j \in 1..Len(rest) : i < j => f[i] < f[j]
  BY <1>1
<1>4. Thinned(rest, list)
  BY <1>2, <1>3 DEF Thinned
<1>5. DOMAIN rest = 1..Len(rest) /\ DOMAIN list = 1..Len(list)
  BY <1>1
<1>6. ASSUME NEW i \in 1..Len(list), i >= k
      PROVE  list[i] \in Range(rest)
  <2>1. i - k + 1 \in 1..Len(rest) /\ rest[i - k + 1] = list[i]
    BY <1>1, <1>6
  <2> QED
    BY <1>5, <2>1 DEF Range
<1>7. ASSUME NEW i \in 1..Len(rest)
      PROVE  rest[i] \in Range(list)
  BY <1>1, <1>5 DEF Range
<1>8. ASSUME k = 1 PROVE Range(list) \subseteq Range(rest)
  BY <1>5, <1>6, <1>8 DEF Range
<1>9. ASSUME k = 2 PROVE Range(list) \subseteq Range(rest) \union {list[1]}
  <2>1. \A i \in 1..Len(list) : i = 1 \/ i >= 2
    OBVIOUS
  <2> QED
    BY <1>5, <1>6, <1>9, <2>1 DEF Range
<1>10. k = 2 => list[1] \in Range(list)
  BY <1>5 DEF Range
<1>11. Range(rest) \subseteq Range(list)
  BY <1>5, <1>7 DEF Range
<1> QED
  BY <1>1, <1>4, <1>8, <1>9, <1>10, <1>11

\* Put makes room by dropping at most the call at the front of the list, and only when
\* the store is full.
LEMMA MakeRoom ==
  ASSUME NEW list \in Seq(ID), Once(list), Len(list) <= MaxSize,
         NEW out, out = Evicted(Range(list), list),
         NEW rest, rest = SubSeq(list, Len(out) + 1, Len(list))
  PROVE  /\ rest \in Seq(ID)
         /\ Thinned(rest, list)
         /\ Len(rest) < MaxSize
         /\ \/ Range(out) = {} /\ Range(rest) = Range(list)
            \/ /\ Len(list) = MaxSize
               /\ Range(out) = {list[1]} /\ Range(rest) = Range(list) \ {list[1]}
<1>1. Cardinality(Range(list)) = Len(list)
  BY LenOfOnce
<1>2. Len(list) \in Nat /\ MaxSize \in Nat \ {0}
  BY StoreAssumption
<1>3. CASE Len(list) < MaxSize
  <2>1. out = <<>>
    BY <1>1, <1>2, <1>3 DEF Evicted
  <2>2. Len(out) = 0
    BY <2>1
  <2>2a. Range(out) = {}
    <3>1. DOMAIN out = {}
      BY <2>1
    <3> QED
      BY <3>1 DEF Range
  <2>3. rest = SubSeq(list, 1, Len(list))
    BY <2>2
  <2>4. rest \in Seq(ID) /\ Thinned(rest, list) /\ Len(rest) = Len(list) - 1 + 1
        /\ Range(rest) = Range(list)
    <3>1. 1 \in {1, 2} /\ 1 <= Len(list) + 1
      BY <1>2
    <3> QED
      BY <2>3, <3>1, RestThinned
  <2> QED
    BY <1>2, <1>3, <2>2a, <2>4
<1>4. CASE Len(list) = MaxSize
  <2>1. out = SubSeq(list, 1, 1)
    BY <1>1, <1>2, <1>4 DEF Evicted
  <2>2. 1 \in 1..Len(list)
    BY <1>2, <1>4
  <2>3. Len(out) = 1 /\ DOMAIN out = {1} /\ out[1] = list[1]
    BY <2>1, <2>2
  <2>4. Range(out) = {list[1]}
    BY <2>3 DEF Range
  <2>5. rest = SubSeq(list, 2, Len(list))
    BY <2>3
  <2>6. 2 <= Len(list) + 1
    BY <2>2
  <2>7. /\ rest \in Seq(ID) /\ Thinned(rest, list) /\ Len(rest) = Len(list) - 2 + 1
        /\ Range(rest) \union {list[1]} = Range(list)
        /\ \A i \in 1..Len(rest) : rest[i] = list[i + 2 - 1]
    BY <2>5, <2>6, RestThinned
  <2>8. list[1] \notin Range(rest)
    <3> SUFFICES ASSUME NEW i \in 1..Len(rest), rest[i] = list[1]
                 PROVE  FALSE
      <4>1. DOMAIN rest = 1..Len(rest)
        BY <2>7
      <4> QED
        BY <4>1 DEF Range
    <3>1. rest[i] = list[i + 1] /\ i + 1 \in DOMAIN list /\ 1 \in DOMAIN list /\ i + 1 # 1
      BY <2>2, <2>7
    <3> QED
      BY <3>1 DEF Once
  <2>9. Len(rest) < MaxSize
    BY <1>2, <1>4, <2>7
  <2>10. Range(rest) = Range(list) \ {list[1]}
    BY <2>7, <2>8
  <2> QED
    BY <1>4, <2>4, <2>7, <2>9, <2>10
<1> QED
  BY <1>2, <1>3, <1>4

-----------------------------------------------------------------------------

\* Induction over the numbers, as a fact about sets: the least one that is not in T has a
\* predecessor that is.
LEMMA SetInduction ==
  ASSUME NEW T, 0 \in T, \A n \in Nat : n \in T => n + 1 \in T
  PROVE  Nat \subseteq T
<1> SUFFICES ASSUME Nat \ T # {}
             PROVE  FALSE
  OBVIOUS
<1> DEFINE R == {ss \in Nat \X Nat : ss[1] < ss[2]}
<1>1. IsWellFoundedOn(OpToRel(<, Nat), Nat)
  BY NatLessThanWellFounded
<1>2. OpToRel(<, Nat) = R
  BY DEF OpToRel
<1>3. PICK n \in Nat \ T : \A m \in Nat \ T : ~(<<m, n>> \in R)
  BY <1>1, <1>2, WFMin, ZenonT(30)
<1>4. ASSUME NEW m \in Nat \ T
      PROVE  n <= m
  <2>1. ~(<<m, n>> \in R)
    BY <1>3
  <2>2. ~(m < n)
    BY <2>1
  <2> QED
    BY <2>2
<1>5. n - 1 \in Nat /\ n - 1 \in T
  BY <1>3, <1>4
<1> QED
  BY <1>3, <1>5

\* The walk is well defined: what it leaves of n elements is what it leaves of the n - 1
\* before, with the n-th unless that has expired.
LEMMA WalkSteps ==
  ASSUME order \in Seq(ID)
  PROVE  /\ Walked[0] = <<>>
         /\ \A n \in 1..Len(order) :
              Walked[n] = IF Expired(order[n]) THEN Walked[n - 1]
                          ELSE Append(Walked[n - 1], order[n])
<1> DEFINE Walk(g, n) ==
             g = [i \in 0..n |->
                   IF i = 0 THEN <<>>
                   ELSE IF Expired(order[i]) THEN g[i - 1]
                   ELSE Append(g[i - 1], order[i])]
           T == {n \in Nat : \E g : Walk(g, n)}
<1>1. 0 \in T
  <2>1. Walk([i \in 0..0 |-> <<>>], 0)
    OBVIOUS
  <2> QED
    BY <2>1
<1>2. ASSUME NEW n \in Nat, n \in T
      PROVE  n + 1 \in T
  <2>1. PICK g : Walk(g, n)
    BY <1>2
  <2>1a. \A i \in 0..n :
          g[i] = IF i = 0 THEN <<>>
                 ELSE IF Expired(order[i]) THEN g[i - 1]
                 ELSE Append(g[i - 1], order[i])
    BY <2>1
  <2> DEFINE h == [i \in 0..(n + 1) |->
                    IF i = n + 1
                    THEN IF Expired(order[n + 1]) THEN g[n] ELSE Append(g[n], order[n + 1])
                    ELSE g[i]]
  <2>2. \A i \in 0..n : h[i] = g[i]
    OBVIOUS
  <2>3. \A i \in 0..(n + 1) :
          h[i] = IF i = 0 THEN <<>>
                 ELSE IF Expired(order[i]) THEN h[i - 1]
                 ELSE Append(h[i - 1], order[i])
    <3> SUFFICES ASSUME NEW i \in 0..(n + 1)
                 PROVE  h[i] = IF i = 0 THEN <<>>
                               ELSE IF Expired(order[i]) THEN h[i - 1]
                               ELSE Append(h[i - 1], order[i])
      OBVIOUS
    <3>1. CASE i = n + 1
      <4>1. h[i - 1] = g[n] /\ i # 0
        BY <2>2, <3>1
      <4> QED
        BY <3>1, <4>1
    <3>2. CASE i \in 0..n
      <4>1. i # 0 => i - 1 \in 0..n
        BY <3>2
      <4>2. h[i] = g[i] /\ (i # 0 => h[i - 1] = g[i - 1])
        BY <2>2, <3>2, <4>1
      <4> HIDE DEF h
      <4> QED
        BY <2>1a, <3>2, <4>2
    <3> QED
      BY <3>1, <3>2
  <2>4. h = [i \in 0..(n + 1) |-> h[i]]
    OBVIOUS
  <2> HIDE DEF h
  <2>5. Walk(h, n + 1)
    BY <2>3, <2>4
  <2>6. n + 1 \in Nat /\ \E gg : Walk(gg, n + 1)
    BY <2>5, SMTT(30)
  <2> HIDE DEF Walk
  <2> QED
    BY <2>6
<1> HIDE DEF T
<1>3. Nat \subseteq T
  BY <1>1, <1>2, SetInduction
<1>4. Len(order) \in T
  BY <1>3
<1>5. \E g : Walk(g, Len(order))
  BY <1>4 DEF T
<1>6. Walk(Walked, Len(order))
  BY <1>5 DEF Walked
<1>7. \A n \in 0..Len(order) :
        Walked[n] = IF n = 0 THEN <<>>
                    ELSE IF Expired(order[n]) THEN Walked[n - 1]
                    ELSE Append(Walked[n - 1], order[n])
  BY <1>6
<1>8. Len(order) \in Nat
  OBVIOUS
<1>9. Walked[0] = <<>>
  BY <1>7, <1>8
<1>10. ASSUME NEW n \in 1..Len(order)
       PROVE  n \in 0..Len(order) /\ n # 0
  BY <1>8
<1> QED
  BY <1>7, <1>9, <1>10


\* What the walk has left of the first n elements: those that have not expired, in order.
LeftOf(n) ==
  /\ Walked[n] \in Seq(ID)
  /\ \E f \in [1..Len(Walked[n]) -> 1..n] :
       \A i \in 1..Len(Walked[n]) :
         /\ Walked[n][i] = order[f[i]] /\ ~Expired(order[f[i]])
         /\ \A j \in 1..Len(Walked[n]) : i < j => f[i] < f[j]
  /\ \A i \in 1..n : ~Expired(order[i]) => \E j \in 1..Len(Walked[n]) : Walked[n][j] = order[i]

\* One step of the walk.
LEMMA WalkOne ==
  ASSUME order \in Seq(ID), NEW n \in Nat, n + 1 <= Len(order), LeftOf(n)
  PROVE  LeftOf(n + 1)
<1>1. n + 1 \in 1..Len(order) /\ order[n + 1] \in ID /\ (n + 1) - 1 = n
  OBVIOUS
<1> DEFINE w == Walked[n]
<1>2. PICK f \in [1..Len(w) -> 1..n] :
        \A i \in 1..Len(w) :
          /\ w[i] = order[f[i]] /\ ~Expired(order[f[i]])
          /\ \A j \in 1..Len(w) : i < j => f[i] < f[j]
  BY DEF LeftOf
<1>3. w \in Seq(ID) /\ \A i \in 1..n : ~Expired(order[i]) => \E j \in 1..Len(w) : w[j] = order[i]
  BY DEF LeftOf
<1>4. Walked[n + 1] = IF Expired(order[n + 1]) THEN w ELSE Append(w, order[n + 1])
  BY <1>1, WalkSteps
<1> HIDE DEF w
<1>5. CASE Expired(order[n + 1])
  <2>1. Walked[n + 1] = w
    BY <1>4, <1>5
  <2>2. f \in [1..Len(w) -> 1..(n + 1)]
    OBVIOUS
  <2>3. \A i \in 1..(n + 1) : ~Expired(order[i]) => \E j \in 1..Len(w) : w[j] = order[i]
    <3>1. \A i \in 1..(n + 1) : i \in 1..n \/ i = n + 1
      OBVIOUS
    <3> QED
      BY <1>3, <1>5, <3>1
  <2> QED
    BY <1>2, <1>3, <2>1, <2>2, <2>3 DEF LeftOf
<1>6. CASE ~Expired(order[n + 1])
  <2> DEFINE s == Append(w, order[n + 1])
             g == [i \in 1..(Len(w) + 1) |-> IF i = Len(w) + 1 THEN n + 1 ELSE f[i]]
  <2>1. Walked[n + 1] = s
    BY <1>4, <1>6
  <2>2. /\ s \in Seq(ID) /\ Len(s) = Len(w) + 1
        /\ \A i \in 1..Len(w) : s[i] = w[i]
        /\ s[Len(w) + 1] = order[n + 1]
    BY <1>1, <1>3, AppendProperties
  <2>3. Len(w) \in Nat
    BY <1>3
  <2> HIDE DEF s
  <2>4. \A i \in 1..(Len(w) + 1) : i \in 1..Len(w) \/ i = Len(w) + 1
    BY <2>3
  <2>5. g \in [1..(Len(w) + 1) -> 1..(n + 1)]
    BY <2>4
  <2>6. \A i \in 1..Len(w) : g[i] = f[i] /\ f[i] < n + 1
    BY <2>3
  <2>7. g[Len(w) + 1] = n + 1
    BY <2>3
  <2> HIDE DEF g
  <2>8. ASSUME NEW i \in 1..(Len(w) + 1)
        PROVE  /\ s[i] = order[g[i]] /\ ~Expired(order[g[i]])
               /\ \A j \in 1..(Len(w) + 1) : i < j => g[i] < g[j]
    <3>1. CASE i \in 1..Len(w)
      BY <1>2, <2>2, <2>4, <2>6, <2>7, <3>1
    <3>2. CASE i = Len(w) + 1
      BY <1>6, <2>2, <2>3, <2>4, <2>7, <3>2
    <3> QED
      BY <2>4, <3>1, <3>2
  <2>9. ASSUME NEW i \in 1..(n + 1), ~Expired(order[i])
        PROVE  \E j \in 1..(Len(w) + 1) : s[j] = order[i]
    <3>1. CASE i \in 1..n
      <4>1. PICK j \in 1..Len(w) : w[j] = order[i]
        BY <1>3, <2>9, <3>1
      <4>2. j \in 1..(Len(w) + 1) /\ s[j] = order[i]
        BY <2>2, <2>3, <4>1
      <4> QED
        BY <4>2
    <3>2. CASE i = n + 1
      <4>1. Len(w) + 1 \in 1..(Len(w) + 1)
        BY <2>3
      <4> QED
        BY <2>2, <3>2, <4>1
    <3> QED
      BY <3>1, <3>2
  <2> QED
    BY <2>1, <2>2, <2>5, <2>8, <2>9, ZenonT(30) DEF LeftOf
<1> QED
  BY <1>5, <1>6

\* The cleanup leaves the calls that have not expired, in the order they were in.
LEMMA WalkThinned ==
  ASSUME order \in Seq(ID)
  PROVE  LET rest == Walked[Len(order)]
         IN  /\ rest \in Seq(ID)
             /\ Thinned(rest, order)
             /\ Range(rest) = {id \in Range(order) : ~Expired(id)}
<1> DEFINE T == {n \in Nat : n <= Len(order) => LeftOf(n)}
<1>1. 0 \in T
  <2>1. Walked[0] = <<>>
    BY WalkSteps
  <2>2. [i \in 1..0 |-> 0] \in [1..Len(Walked[0]) -> 1..0]
    BY <2>1
  <2>3. Len(Walked[0]) = 0 /\ Walked[0] \in Seq(ID)
    BY <2>1
  <2> QED
    BY <2>2, <2>3 DEF LeftOf
<1>2. ASSUME NEW n \in Nat, n \in T
      PROVE  n + 1 \in T
  BY <1>2, WalkOne
<1> HIDE DEF T
<1>3. Len(order) \in T
  BY <1>1, <1>2, SetInduction
<1>4. LeftOf(Len(order))
  BY <1>3 DEF T
<1> DEFINE rest == Walked[Len(order)]
<1>5. rest \in Seq(ID) /\ Thinned(rest, order)
  BY <1>4 DEF LeftOf, Thinned
<1>6. DOMAIN rest = 1..Len(rest) /\ DOMAIN order = 1..Len(order)
  BY <1>5
<1>7. \A i \in 1..Len(rest) : \E j \in 1..Len(order) : rest[i] = order[j] /\ ~Expired(order[j])
  BY <1>4 DEF LeftOf
<1>8. \A i \in 1..Len(order) : ~Expired(order[i]) => \E j \in 1..Len(rest) : rest[j] = order[i]
  BY <1>4 DEF LeftOf
<1> HIDE DEF rest
<1>9. /\ \A id : id \in Range(rest) <=> \E i \in 1..Len(rest) : id = rest[i]
      /\ \A id : id \in Range(order) <=> \E i \in 1..Len(order) : id = order[i]
  BY <1>6 DEF Range
<1>10. ASSUME NEW id \in Range(rest)
       PROVE  id \in Range(order) /\ ~Expired(id)
  <2>1. PICK i \in 1..Len(rest) : id = rest[i]
    BY <1>9
  <2>2. PICK j \in 1..Len(order) : rest[i] = order[j] /\ ~Expired(order[j])
    BY <1>7
  <2> QED
    BY <1>9, <2>1, <2>2
<1>11. ASSUME NEW id \in Range(order), ~Expired(id)
       PROVE  id \in Range(rest)
  <2>1. PICK i \in 1..Len(order) : id = order[i]
    BY <1>9
  <2>2. PICK j \in 1..Len(rest) : rest[j] = order[i]
    BY <1>8, <1>11, <2>1
  <2> QED
    BY <1>9, <2>1, <2>2
<1>12. Range(rest) = {id \in Range(order) : ~Expired(id)}
  BY <1>10, <1>11
<1> QED
  BY <1>5, <1>12 DEF rest

-----------------------------------------------------------------------------

\* A call that is not in the list goes to its end.
LEMMA AppendOnce ==
  ASSUME NEW rest \in Seq(ID), Once(rest), NEW id \in ID, id \notin Range(rest)
  PROVE  /\ Append(rest, id) \in Seq(ID)
         /\ Once(Append(rest, id))
         /\ Len(Append(rest, id)) = Len(rest) + 1
         /\ Range(Append(rest, id)) = Range(rest) \union {id}
         /\ \A seen : InOrder(rest, seen) /\ (\A other \in Range(rest) : id \in seen[other])
                      => InOrder(Append(rest, id), seen)
<1> DEFINE list == Append(rest, id)
<1>1. /\ list \in Seq(ID) /\ Len(list) = Len(rest) + 1
      /\ \A i \in 1..Len(rest) : list[i] = rest[i]
      /\ list[Len(rest) + 1] = id
  BY AppendProperties
<1> HIDE DEF list
<1>2. Len(rest) \in Nat
  OBVIOUS
<1>3. DOMAIN rest = 1..Len(rest) /\ DOMAIN list = 1..(Len(rest) + 1)
  BY <1>1
<1>4. \A i \in DOMAIN list : i \in 1..Len(rest) \/ i = Len(rest) + 1
  BY <1>2, <1>3
<1>5. \A i \in 1..Len(rest) : rest[i] \in Range(rest) /\ rest[i] # id
  BY <1>3 DEF Range
<1>6. Once(list)
  <2> SUFFICES ASSUME NEW i \in DOMAIN list, NEW j \in DOMAIN list, list[i] = list[j]
               PROVE  i = j
    BY DEF Once
  <2>1. CASE i \in 1..Len(rest) /\ j \in 1..Len(rest)
    <3>1. rest[i] = rest[j]
      BY <1>1, <2>1
    <3> QED
      BY <1>3, <2>1, <3>1 DEF Once
  <2>2. CASE i = Len(rest) + 1 \/ j = Len(rest) + 1
    BY <1>1, <1>4, <1>5, <2>2
  <2> QED
    BY <1>4, <2>1, <2>2
<1>7. Range(list) = Range(rest) \union {id}
  <2>1. Range(list) = {list[i] : i \in 1..(Len(rest) + 1)}
    BY <1>3 DEF Range
  <2>2. Range(rest) = {rest[i] : i \in 1..Len(rest)}
    BY <1>3 DEF Range
  <2>3. Len(rest) + 1 \in 1..(Len(rest) + 1) /\ 1..Len(rest) \subseteq 1..(Len(rest) + 1)
    BY <1>2
  <2>4. Range(list) \subseteq Range(rest) \union {id}
    BY <1>1, <1>3, <1>4, <2>1, <2>2
  <2>5. Range(rest) \union {id} \subseteq Range(list)
    BY <1>1, <2>1, <2>2, <2>3
  <2> QED
    BY <2>4, <2>5
<1>8. ASSUME NEW seen, InOrder(rest, seen), \A other \in Range(rest) : id \in seen[other]
      PROVE  InOrder(list, seen)
  <2> SUFFICES ASSUME NEW i \in DOMAIN list, NEW j \in DOMAIN list, i < j
               PROVE  list[j] \in seen[list[i]]
    BY DEF InOrder
  <2>1. i \in 1..Len(rest)
    BY <1>2, <1>3, <1>4
  <2>2. CASE j \in 1..Len(rest)
    BY <1>1, <1>3, <1>8, <2>1, <2>2 DEF InOrder
  <2>3. CASE j = Len(rest) + 1
    BY <1>1, <1>5, <1>8, <2>1, <2>3
  <2> QED
    BY <1>4, <2>2, <2>3
<1> QED
  BY <1>1, <1>6, <1>7, <1>8 DEF list

\* The list a Put leaves: the new call behind the others, but for the one evicted.
LEMMA PutList ==
  ASSUME Coherent, NEW id \in ID, Put(id)
  PROVE  \E rest \in Seq(ID) :
           /\ Once(rest) /\ id \notin Range(rest) /\ Len(rest) < MaxSize
           /\ order' = Append(rest, id) /\ cache' = Range(rest) \union {id}
           /\ \A seen : InOrder(order, seen) => InOrder(rest, seen)
           /\ \/ Range(rest) = cache \ {id}
              \/ /\ Len(order) = MaxSize /\ id \notin cache
                 /\ Range(rest) = cache \ {order[1]}
<1> DEFINE list == IF id \in cache THEN RemoveFirst(order, id) ELSE order
           out  == Evicted(cache \ {id}, list)
           rest == SubSeq(list, Len(out) + 1, Len(list))
<1>1. order \in Seq(ID) /\ Once(order) /\ Range(order) = cache /\ Len(order) <= MaxSize
  BY DEF Coherent, TypeOK, Once
<1>2. /\ list \in Seq(ID) /\ Once(list) /\ Range(list) = cache \ {id} /\ Len(list) <= MaxSize
      /\ \A seen : InOrder(order, seen) => InOrder(list, seen)
      /\ Len(list) = MaxSize => id \notin cache /\ list = order
  <2>1. CASE id \in cache
    <3>1. list = RemoveFirst(order, id)
      BY <2>1
    <3>2. list \in Seq(ID) /\ Thinned(list, order) /\ Range(list) = cache \ {id}
      BY <1>1, <2>1, <3>1, RemovedThinned
    <3> HIDE DEF list
    <3>3. /\ Once(list) /\ Len(list) <= Len(order)
          /\ \A seen : InOrder(order, seen) => InOrder(list, seen)
      BY <1>1, <3>2, ThinnedKeeps
    <3>4. Len(list) = Len(order) - 1
      <4>1. PICK k \in 1..Len(order) : order[k] = id
        BY <1>1, <2>1 DEF Range
      <4> QED
        BY <1>1, <3>1, <4>1, ListRemove
    <3>5. Len(order) \in Nat /\ MaxSize \in Nat
      BY <1>1, StoreAssumption
    <3>6. Len(list) < MaxSize
      BY <1>1, <3>4, <3>5
    <3> QED
      BY <3>2, <3>3, <3>5, <3>6
  <2>2. CASE id \notin cache
    BY <1>1, <2>2
  <2> QED
    BY <2>1, <2>2
<1>3. cache' = ((cache \ {id}) \ Range(out)) \union {id} /\ order' = Append(rest, id)
  BY DEF Put
<1> HIDE DEF list
<1>4. out = Evicted(Range(list), list)
  BY <1>2
<1> HIDE DEF out
<1>5. /\ rest \in Seq(ID) /\ Thinned(rest, list) /\ Len(rest) < MaxSize
      /\ \/ Range(out) = {} /\ Range(rest) = Range(list)
         \/ /\ Len(list) = MaxSize
            /\ Range(out) = {list[1]} /\ Range(rest) = Range(list) \ {list[1]}
  BY <1>2, <1>4, MakeRoom
<1> HIDE DEF rest
<1>6. /\ Once(rest) /\ Range(rest) \subseteq Range(list)
      /\ \A seen : InOrder(list, seen) => InOrder(rest, seen)
  BY <1>2, <1>5, ThinnedKeeps
<1>7. cache' = Range(rest) \union {id}
  BY <1>2, <1>3, <1>5
<1>8. \/ Range(rest) = cache \ {id}
      \/ /\ Len(order) = MaxSize /\ id \notin cache
         /\ Range(rest) = cache \ {order[1]}
  BY <1>2, <1>5
<1> QED
  BY <1>2, <1>3, <1>5, <1>6, <1>7, <1>8

-----------------------------------------------------------------------------

\* A new store is empty.
LEMMA CoherentInit == Init => Coherent
<1> SUFFICES ASSUME Init
             PROVE  Coherent
  OBVIOUS
<1>1. order = <<>> /\ cache = {} /\ MaxSize \in Nat /\ TTL \in Nat
  BY StoreAssumption DEF Init
<1>2. order \in Seq(ID) /\ Len(order) = 0 /\ DOMAIN order = {}
  BY <1>1
<1>3. Range(order) = {}
  BY <1>2 DEF Range
<1>4. TypeOK
  BY <1>1, <1>2 DEF Init, TypeOK
<1> QED
  BY <1>1, <1>2, <1>3, <1>4 DEF Coherent

\* A list shortened by what the map loses leaves the two in step.
LEMMA ThinnedCoherent ==
  ASSUME Coherent, NEW rest \in Seq(ID), Thinned(rest, order),
         order' = rest, cache' = Range(rest),
         UNCHANGED <<age, history>>
  PROVE  Coherent'
<1>1. order \in Seq(ID) /\ Once(order) /\ Range(order) = cache /\ Len(order) <= MaxSize
  BY DEF Coherent, TypeOK, Once
<1>2. Once(rest) /\ Range(rest) \subseteq Range(order) /\ Len(rest) <= Len(order)
  BY <1>1, ThinnedKeeps
<1>3. Len(rest) <= MaxSize
  BY <1>1, <1>2, StoreAssumption
<1>4. TypeOK'
  BY <1>1, <1>2 DEF Coherent, TypeOK, history
<1>5. Range(order') = cache' /\ Once(order') /\ Len(order') <= MaxSize
  BY <1>2, <1>3
<1> QED
  BY <1>4, <1>5 DEF Coherent, Once

\* A use of a call puts it at the end of the list.
LEMMA AppendedCoherent ==
  ASSUME Coherent, NEW rest \in Seq(ID), Once(rest), Len(rest) < MaxSize,
         NEW id \in ID, id \notin Range(rest),
         order' = Append(rest, id), cache' = Range(rest) \union {id}, TypeOK'
  PROVE  Coherent'
<1>1. /\ Once(order') /\ Len(order') = Len(rest) + 1
      /\ Range(order') = cache'
  BY AppendOnce
<1>2. Len(rest) + 1 <= MaxSize
  BY StoreAssumption
<1> QED
  BY <1>1, <1>2 DEF Coherent, Once

\* Every method keeps the map and the list in step.
LEMMA CoherentNext ==
  ASSUME Coherent, [Next]_vars
  PROVE  Coherent'
<1>1. order \in Seq(ID) /\ Once(order) /\ Range(order) = cache /\ Len(order) <= MaxSize
  BY DEF Coherent, TypeOK, Once
<1>2. TypeOK
  BY DEF Coherent
<1>3. ASSUME NEW id \in ID, Put(id)
      PROVE  Coherent'
  <2>1. PICK rest \in Seq(ID) :
           /\ Once(rest) /\ id \notin Range(rest) /\ Len(rest) < MaxSize
           /\ order' = Append(rest, id) /\ cache' = Range(rest) \union {id}
           /\ Range(rest) \subseteq cache
    BY <1>3, PutList
  <2>2. age' \in [ID -> 0..(TTL + 1)]
    BY <1>2, <1>3, StoreAssumption DEF TypeOK, Put, Created
  <2>3. put' \subseteq ID /\ puts' \in 0..1
    BY <1>2, <1>3 DEF TypeOK, Put
  <2>4. since' \in [ID -> SUBSET ID]
    BY <1>2, <1>3 DEF TypeOK, Put, Touched
  <2>5. cache' \subseteq ID /\ order' \in Seq(ID)
    BY <1>2, <2>1, AppendProperties DEF TypeOK
  <2>6. TypeOK'
    BY <2>2, <2>3, <2>4, <2>5 DEF TypeOK
  <2> QED
    BY <2>1, <2>6, AppendedCoherent
<1>4. ASSUME NEW id \in ID, GetMissing(id)
      PROVE  Coherent'
  BY <1>4 DEF GetMissing, vars, entries, history, Coherent, TypeOK
<1>5. ASSUME NEW id \in ID, GetExpired(id)
      PROVE  Coherent'
  <2>1. order' = RemoveFirst(order, id) /\ cache' = cache \ {id} /\ id \in cache
        /\ UNCHANGED <<age, history>>
    BY <1>5 DEF GetExpired
  <2> QED
    BY <1>1, <2>1, RemovedThinned, ThinnedCoherent
<1>6. ASSUME NEW id \in ID, GetFound(id)
      PROVE  Coherent'
  <2> DEFINE rest == RemoveFirst(order, id)
  <2>1. id \in cache /\ order' = Append(rest, id) /\ cache' = cache
    BY <1>6 DEF GetFound
  <2>2. rest \in Seq(ID) /\ Thinned(rest, order) /\ Range(rest) = cache \ {id}
    BY <1>1, <2>1, RemovedThinned
  <2>3. Once(rest)
    BY <1>1, <2>2, ThinnedKeeps
  <2>4. Len(rest) = Len(order) - 1
    <3>1. PICK k \in 1..Len(order) : order[k] = id
      BY <1>1, <2>1 DEF Range
    <3> QED
      BY <1>1, <3>1, ListRemove
  <2>5. Len(rest) < MaxSize
    <3>1. Len(order) \in Nat /\ MaxSize \in Nat
      BY <1>1, StoreAssumption
    <3> QED
      BY <1>1, <2>4, <3>1
  <2>6. TypeOK'
    <3>1. since' \in [ID -> SUBSET ID]
      BY <1>2, <1>6 DEF TypeOK, GetFound, Touched
    <3>2. cache' \subseteq ID /\ order' \in Seq(ID)
      BY <1>2, <2>1, <2>2, AppendProperties DEF TypeOK
    <3> QED
      BY <1>2, <1>6, <3>1, <3>2 DEF TypeOK, GetFound
  <2>7. cache' = Range(rest) \union {id} /\ id \notin Range(rest)
    BY <2>1, <2>2
  <2> QED
    BY <2>1, <2>2, <2>3, <2>5, <2>6, <2>7, AppendedCoherent
<1>7. CASE CleanupExpired
  <2> DEFINE rest == Walked[Len(order)]
  <2>1. rest \in Seq(ID) /\ Thinned(rest, order) /\ Range(rest) = {id \in cache : ~Expired(id)}
    BY <1>1, WalkThinned
  <2>2. order' = rest /\ cache' = Range(rest) /\ UNCHANGED <<age, history>>
    BY <1>1, <1>7, <2>1 DEF CleanupExpired
  <2> HIDE DEF rest
  <2> QED
    BY <2>1, <2>2, ThinnedCoherent
<1>8. CASE Tick
  <2>1. age' \in [ID -> 0..(TTL + 1)]
    <3>1. ASSUME NEW id \in ID
          PROVE  (IF Expired(id) THEN age[id] ELSE age[id] + 1) \in 0..(TTL + 1)
      BY <1>2, StoreAssumption DEF TypeOK, Expired
    <3> QED
      BY <1>8, <3>1 DEF Tick
  <2>2. UNCHANGED <<cache, order, history>>
    BY <1>8 DEF Tick
  <2> QED
    BY <1>2, <2>1, <2>2 DEF Coherent, TypeOK, history
<1>9. CASE UNCHANGED vars
  BY <1>9 DEF vars, entries, history, Coherent, TypeOK
<1> QED
  BY <1>3, <1>4, <1>5, <1>6, <1>7, <1>8, <1>9 DEF Next

\* However requests and the cleanup interleave, the map and the list hold the same calls, each
\* once, and never more than MaxSize.
THEOREM InStep == Spec => []Coherent
BY CoherentInit, CoherentNext, PTL DEF Spec

-----------------------------------------------------------------------------

\* The list is in the order of last use, and a call the store has lost was too old or
\* had MaxSize others used since.
RecentInv ==
  /\ InOrder(order, since)
  /\ cache \subseteq put
  /\ \A id \in ID : IsFiniteSet(since[id])
  /\ \A id \in put \ cache : Expired(id) \/ Cardinality(since[id]) >= MaxSize

\* Nothing has been used yet.
LEMMA RecentInit == Init => RecentInv
<1> SUFFICES ASSUME Init
             PROVE  RecentInv
  OBVIOUS
<1>1. order = <<>> /\ cache = {} /\ put = {} /\ since = [id \in ID |-> {}]
  BY DEF Init
<1>2. InOrder(order, since)
  <2>1. DOMAIN order = {}
    BY <1>1
  <2> QED
    BY <2>1 DEF InOrder
<1>3. \A id \in ID : IsFiniteSet(since[id])
  BY <1>1, FS_EmptySet
<1> QED
  BY <1>1, <1>2, <1>3 DEF RecentInv

\* A use adds to what is known of the calls not used.
LEMMA TouchedGrows ==
  ASSUME TypeOK, RecentInv, NEW id \in ID, since' = Touched(id)
  PROVE  /\ \A other \in ID : IsFiniteSet(since'[other])
         /\ \A other \in ID \ {id} :
              /\ since'[other] = since[other] \union {id}
              /\ Cardinality(since'[other]) >= Cardinality(since[other])
<1>1. since'[id] = {}
  BY DEF Touched
<1>2. ASSUME NEW other \in ID \ {id}
      PROVE  /\ since'[other] = since[other] \union {id}
             /\ IsFiniteSet(since'[other])
             /\ Cardinality(since'[other]) >= Cardinality(since[other])
  <2>1. since'[other] = since[other] \union {id}
    BY DEF Touched
  <2>2. IsFiniteSet(since[other])
    BY DEF RecentInv
  <2>3. IsFiniteSet(since'[other])
    BY <2>1, <2>2, FS_AddElement
  <2>4. Cardinality(since[other]) <= Cardinality(since'[other])
    BY <2>1, <2>3, FS_Subset
  <2>5. Cardinality(since[other]) \in Nat /\ Cardinality(since'[other]) \in Nat
    BY <2>2, <2>3, FS_CardinalityType
  <2> QED
    BY <2>1, <2>3, <2>4, <2>5
<1> QED
  BY <1>1, <1>2, FS_EmptySet

\* The call that is used goes behind all others, whatever was taken out before.
LEMMA AppendedInOrder ==
  ASSUME TypeOK, NEW rest \in Seq(ID), Once(rest), NEW id \in ID, id \notin Range(rest),
         InOrder(rest, since), order' = Append(rest, id), since' = Touched(id)
  PROVE  InOrder(order, since)'
<1>1. \A i \in DOMAIN rest : rest[i] \in Range(rest) /\ rest[i] \in ID
  BY DEF Range
<1>2. \A i \in DOMAIN rest : Touched(id)[rest[i]] = since[rest[i]] \union {id}
  BY <1>1 DEF Touched
<1>3. InOrder(rest, Touched(id))
  BY <1>2 DEF InOrder
<1>4. \A other \in Range(rest) : id \in Touched(id)[other]
  BY <1>1, <1>2 DEF Range
<1>5. InOrder(Append(rest, id), Touched(id))
  BY <1>3, <1>4, AppendOnce
<1> QED
  BY <1>5 DEF InOrder

\* When a full store takes another call, MaxSize calls have been used since the one at
\* the front was: the others in the store, and the new one.
LEMMA EvictedAfterMany ==
  ASSUME Coherent, RecentInv, Len(order) = MaxSize, NEW id \in ID \ cache,
         since' = Touched(id)
  PROVE  Cardinality(since'[order[1]]) >= MaxSize
<1>1. order \in Seq(ID) /\ Once(order) /\ Range(order) = cache
  BY DEF Coherent, TypeOK, Once
<1>2. MaxSize \in Nat \ {0}
  BY StoreAssumption
<1>3. 1 \in DOMAIN order
  BY <1>1, <1>2
<1> DEFINE first == order[1]
           used  == (cache \ {first}) \union {id}
<1>4. first \in cache /\ first \in ID
  BY <1>1, <1>3 DEF Range
<1>5. IsFiniteSet(cache) /\ Cardinality(cache) = MaxSize
  BY <1>1, LenOfOnce
<1>6. IsFiniteSet(cache \ {first}) /\ Cardinality(cache \ {first}) = MaxSize - 1
  BY <1>4, <1>5, FS_RemoveElement
<1>7. IsFiniteSet(used) /\ Cardinality(used) = (MaxSize - 1) + 1
  BY <1>6, FS_AddElement
<1>8. since'[first] = since[first] \union {id} /\ IsFiniteSet(since'[first])
  BY <1>4, TouchedGrows DEF Coherent
<1>9. cache \ {first} \subseteq since[first]
  <2> SUFFICES ASSUME NEW j \in DOMAIN order, order[j] # first
               PROVE  order[j] \in since[first]
    BY <1>1 DEF Range
  <2>1. j > 1
    BY <1>1
  <2> QED
    BY <1>3, <2>1 DEF RecentInv, InOrder
<1>10. Cardinality(used) <= Cardinality(since'[first])
  BY <1>8, <1>9, FS_Subset
<1>11. Cardinality(since'[first]) \in Nat
  BY <1>8, FS_CardinalityType
<1> HIDE DEF used
<1> QED
  BY <1>2, <1>7, <1>10, <1>11

\* Every method keeps the list in the order of last use, and loses a call only for a reason.
LEMMA RecentNext ==
  ASSUME Coherent, RecentInv, [Next]_vars
  PROVE  RecentInv'
<1>1. order \in Seq(ID) /\ Once(order) /\ Range(order) = cache /\ Len(order) <= MaxSize
  BY DEF Coherent, TypeOK, Once
<1>2. TypeOK
  BY DEF Coherent
<1>3. MaxSize \in Nat /\ \A id \in ID : Cardinality(since[id]) \in Nat
  BY StoreAssumption, FS_CardinalityType DEF RecentInv
<1>4. ASSUME NEW id \in ID, Put(id)
      PROVE  RecentInv'
  <2>1. PICK rest \in Seq(ID) :
           /\ Once(rest) /\ id \notin Range(rest) /\ Len(rest) < MaxSize
           /\ order' = Append(rest, id) /\ cache' = Range(rest) \union {id}
           /\ \A seen : InOrder(order, seen) => InOrder(rest, seen)
           /\ \/ Range(rest) = cache \ {id}
              \/ /\ Len(order) = MaxSize /\ id \notin cache
                 /\ Range(rest) = cache \ {order[1]}
    BY <1>4, PutList
  <2>2. since' = Touched(id) /\ put' = put \union {id} /\ age' = [age EXCEPT ![id] = 0]
    BY <1>4 DEF Put, Created
  <2>3. InOrder(order, since)'
    BY <1>2, <2>1, <2>2, AppendedInOrder DEF RecentInv
  <2>4. cache' \subseteq put'
    BY <2>1, <2>2 DEF RecentInv
  <2>5. /\ \A other \in ID : IsFiniteSet(since'[other])
        /\ \A other \in ID \ {id} : Cardinality(since'[other]) >= Cardinality(since[other])
    BY <1>2, <2>2, TouchedGrows
  <2>6. ASSUME NEW other \in put' \ cache'
        PROVE  Expired(other)' \/ Cardinality(since'[other]) >= MaxSize
    <3>1. other \in put /\ other # id /\ other \in ID
      BY <1>2, <2>1, <2>2 DEF TypeOK
    <3>2. Expired(other)' <=> Expired(other)
      BY <1>2, <2>2, <3>1 DEF Expired, TypeOK
    <3>3. CASE other \notin cache
      <4>1. Expired(other) \/ Cardinality(since[other]) >= MaxSize
        BY <3>1, <3>3 DEF RecentInv
      <4>2. Cardinality(since'[other]) \in Nat
        BY <2>5, <3>1, FS_CardinalityType
      <4>3. Cardinality(since'[other]) >= Cardinality(since[other])
        BY <2>5, <3>1
      <4> QED
        BY <1>3, <3>1, <3>2, <4>1, <4>2, <4>3
    <3>4. CASE other \in cache
      <4>1. Len(order) = MaxSize /\ id \notin cache /\ other = order[1]
        BY <2>1, <3>1, <3>4
      <4> QED
        BY <2>2, <4>1, EvictedAfterMany
    <3> QED
      BY <3>3, <3>4
  <2> QED
    BY <2>3, <2>4, <2>5, <2>6 DEF RecentInv
<1>5. ASSUME NEW id \in ID, GetMissing(id)
      PROVE  RecentInv'
  BY <1>5 DEF GetMissing, vars, entries, history, RecentInv, InOrder, Expired
<1>6. ASSUME NEW id \in ID, GetExpired(id)
      PROVE  RecentInv'
  <2>1. order' = RemoveFirst(order, id) /\ cache' = cache \ {id} /\ id \in cache
        /\ UNCHANGED <<age, put, puts, since>> /\ Expired(id)
    BY <1>6 DEF GetExpired, history
  <2>2. RemoveFirst(order, id) \in Seq(ID) /\ Thinned(RemoveFirst(order, id), order)
    BY <1>1, <2>1, RemovedThinned
  <2>3. InOrder(RemoveFirst(order, id), since)
    BY <1>1, <2>2, ThinnedKeeps DEF RecentInv
  <2>4. InOrder(order, since)'
    BY <2>1, <2>3
  <2>5. \A other \in put' \ cache' : Expired(other)' \/ Cardinality(since'[other]) >= MaxSize
    BY <2>1 DEF RecentInv, Expired
  <2>6. cache' \subseteq put' /\ \A other \in ID : IsFiniteSet(since'[other])
    BY <2>1 DEF RecentInv
  <2> QED
    BY <2>4, <2>5, <2>6 DEF RecentInv
<1>7. ASSUME NEW id \in ID, GetFound(id)
      PROVE  RecentInv'
  <2> DEFINE rest == RemoveFirst(order, id)
  <2>1. /\ id \in cache /\ order' = Append(rest, id) /\ cache' = cache /\ since' = Touched(id)
        /\ UNCHANGED <<age, put>>
    BY <1>7 DEF GetFound
  <2>2. rest \in Seq(ID) /\ Thinned(rest, order) /\ Range(rest) = cache \ {id}
    BY <1>1, <2>1, RemovedThinned
  <2> HIDE DEF rest
  <2>3. Once(rest) /\ InOrder(rest, since)
    BY <1>1, <2>2, ThinnedKeeps DEF RecentInv
  <2>4. InOrder(order, since)'
    BY <1>2, <2>1, <2>2, <2>3, AppendedInOrder
  <2>5. /\ \A other \in ID : IsFiniteSet(since'[other])
        /\ \A other \in ID \ {id} : Cardinality(since'[other]) >= Cardinality(since[other])
    BY <1>2, <2>1, TouchedGrows
  <2>6. ASSUME NEW other \in put' \ cache'
        PROVE  Expired(other)' \/ Cardinality(since'[other]) >= MaxSize
    <3>1. other \in put \ cache /\ other # id /\ other \in ID
      BY <1>2, <2>1 DEF TypeOK
    <3>2. Expired(other)' <=> Expired(other)
      BY <2>1 DEF Expired
    <3>3. Expired(other) \/ Cardinality(since[other]) >= MaxSize
      BY <3>1 DEF RecentInv
    <3>4. Cardinality(since'[other]) \in Nat
      BY <2>5, <3>1, FS_CardinalityType
    <3>5. Cardinality(since'[other]) >= Cardinality(since[other])
      BY <2>5, <3>1
    <3> QED
      BY <1>3, <3>1, <3>2, <3>3, <3>4, <3>5
  <2>7. cache' \subseteq put'
    BY <2>1 DEF RecentInv
  <2> QED
    BY <2>4, <2>5, <2>6, <2>7 DEF RecentInv
<1>8. CASE CleanupExpired
  <2> DEFINE rest == Walked[Len(order)]
  <2>1. rest \in Seq(ID) /\ Thinned(rest, order)
    BY <1>1, WalkThinned
  <2>2. order' = rest /\ cache' = cache \ {id \in cache : Expired(id)}
        /\ UNCHANGED <<age, put, since>>
    BY <1>1, <1>8 DEF CleanupExpired, history
  <2> HIDE DEF rest
  <2>3. InOrder(rest, since)
    BY <1>1, <2>1, ThinnedKeeps DEF RecentInv
  <2>4. InOrder(order, since)'
    BY <2>2, <2>3
  <2>5. \A other \in put' \ cache' : Expired(other)' \/ Cardinality(since'[other]) >= MaxSize
    BY <2>2 DEF RecentInv, Expired
  <2>6. cache' \subseteq put' /\ \A other \in ID : IsFiniteSet(since'[other])
    BY <2>2 DEF RecentInv
  <2> QED
    BY <2>4, <2>5, <2>6 DEF RecentInv
<1>9. CASE Tick
  <2>1. UNCHANGED <<cache, order, put, since>>
    BY <1>9 DEF Tick, history
  <2>2. \A id \in ID : Expired(id) => Expired(id)'
    BY <1>9 DEF Tick, Expired
  <2>3. put \subseteq ID
    BY <1>2 DEF TypeOK
  <2> QED
    BY <2>1, <2>2, <2>3 DEF RecentInv, InOrder
<1>10. CASE UNCHANGED vars
  BY <1>10 DEF vars, entries, history, RecentInv, InOrder, Expired
<1> QED
  BY <1>4, <1>5, <1>6, <1>7, <1>8, <1>9, <1>10 DEF Next

\* A result that comes back within the TTL finds its call, unless MaxSize others were used since.
THEOREM RecentKept == Spec => []KeptWhileRecent
<1>1. Coherent /\ RecentInv => KeptWhileRecent
  <2> SUFFICES ASSUME Coherent, RecentInv, NEW id \in put, ~Expired(id),
                      Cardinality(since[id]) < MaxSize, id \notin cache
               PROVE  FALSE
    BY DEF KeptWhileRecent
  <2>1. Cardinality(since[id]) >= MaxSize
    BY DEF RecentInv
  <2>2. Cardinality(since[id]) \in Nat /\ MaxSize \in Nat
    BY StoreAssumption, FS_CardinalityType DEF RecentInv, Coherent, TypeOK
  <2> QED
    BY <2>1, <2>2
<1> QED
  BY <1>1, CoherentInit, CoherentNext, RecentInit, RecentNext, PTL DEF Spec

-----------------------------------------------------------------------------

Known == {id \in cache : ~Expired(id)}

LEMMA MemoryInit == Init => Memory!Init
BY DEF Init, Memory!Init

\* The call of a Put is known after it, and whatever else is known was before.
LEMMA PutRemembers ==
  ASSUME TypeOK, NEW id \in ID, Put(id)
  PROVE  Memory!Remember({id})
<1>1. id \in cache' /\ cache' \subseteq cache \union {id}
  BY DEF Put
<1>2. age' = [age EXCEPT ![id] = 0]
  BY DEF Put, Created
<1>3. ~Expired(id)'
  BY <1>2, StoreAssumption DEF TypeOK, Expired
<1>4. \A other \in cache' \ {id} : Expired(other)' <=> Expired(other)
  BY <1>2 DEF TypeOK, Expired
<1>5. id \in Known' /\ Known' \subseteq Known \union {id}
  BY <1>1, <1>3, <1>4 DEF Known
<1>6. Known' \ {id} \in SUBSET (Known \union {id}) /\ Known' = (Known' \ {id}) \union {id}
  BY <1>5
<1>7. puts' # puts
  BY DEF Put, TypeOK
<1> QED
  BY <1>6, <1>7 DEF Memory!Remember, Known

\* A call that is dropped because it has expired was not known any more.
LEMMA ExpiryForgets ==
  ASSUME (\E id \in ID : GetExpired(id)) \/ CleanupExpired
  PROVE  UNCHANGED <<Known, puts>>
<1>1. age' = age /\ cache' \subseteq cache /\ puts' = puts
  BY DEF GetExpired, CleanupExpired, history
<1>2. \A other \in cache \ cache' : Expired(other)
  BY DEF GetExpired, CleanupExpired
<1> QED
  BY <1>1, <1>2 DEF Known, Expired

\* A call that has expired stays so as time passes.
LEMMA TickForgets ==
  ASSUME TypeOK, Tick
  PROVE  Known' \subseteq Known
<1>1. cache' = cache
  BY DEF Tick
<1>2. cache \subseteq ID /\ \A id \in ID : Expired(id) => Expired(id)'
  BY DEF Tick, Expired, TypeOK
<1> QED
  BY <1>1, <1>2 DEF Known

\* Every step of the store is one of the memory, or changes nothing it can name.
LEMMA MemoryNext ==
  ASSUME TypeOK, [Next]_vars
  PROVE  [Memory!Next]_<<Known, puts>>
<1>1. ASSUME NEW id \in ID, Put(id)
      PROVE  Memory!Next
  BY <1>1, PutRemembers DEF Memory!Next
<1>2. ASSUME NEW id \in ID, GetExpired(id)
      PROVE  UNCHANGED <<Known, puts>>
  BY <1>2, ExpiryForgets
<1>3. ASSUME NEW id \in ID, GetMissing(id) \/ GetFound(id)
      PROVE  UNCHANGED <<Known, puts>>
  BY <1>3 DEF GetMissing, GetFound, vars, entries, history, Known, Expired
<1>4. CASE CleanupExpired
  BY <1>4, ExpiryForgets
<1>5. CASE Tick
  <2>1. Known' \in SUBSET Known
    BY <1>5, TickForgets
  <2>2. puts' = puts
    BY <1>5 DEF Tick, history
  <2> QED
    BY <2>1, <2>2 DEF Memory!Next, Memory!Forget, Known
<1>6. CASE UNCHANGED vars
  BY <1>6 DEF vars, entries, history, Known, Expired
<1> QED
  BY <1>1, <1>2, <1>3, <1>4, <1>5, <1>6 DEF Next

\* Handlers may rely on the store as a memory of the calls they put: whatever the IDs, the
\* size and the TTL, it never names a call it was not given, or one it has forgotten.
THEOREM RefinesMemory == Spec => ImplementsMemory
<1>1. Coherent => TypeOK
  BY DEF Coherent
<1>2. Coherent /\ [Next]_vars => [Memory!Next]_<<Known, puts>>
  BY <1>1, MemoryNext
<1>3. Spec => []Coherent
  BY InStep
<1>4. Init => Memory!Init
  BY MemoryInit
<1>5. Memory!Spec <=> Memory!Init /\ [][Memory!Next]_<<Known, puts>>
  BY PTL DEF Memory!Spec, Known
<1> QED
  BY <1>2, <1>3, <1>4, <1>5, PTL DEF Spec, ImplementsMemory

-----------------------------------------------------------------------------
(* Requests that are not streamed *)

Upstream == Seq({Plain} \union ToolTexts)

\* What the steps before an answer leave behind: nothing is stored before a transform, and
\* a response is as it was sent until then.
Fresh == payload = <<>> /\ found = <<>> /\ last = <<>> /\ store = {}
IsLast == payload = last /\ store = {}
IsTransformed ==
  /\ softTool # NoSoftTool /\ Decisive(last) # 0 /\ found # <<>>
  /\ payload = [last EXCEPT ![Decisive(last)] = Made(attempt, found)]
  /\ store = {Made(attempt, found)}

PayloadInv ==
  /\ pc = "request" => Fresh /\ answer = NoAnswer
  /\ pc = "transform" => IsLast
  /\ pc \in {"transform", "answer"} => answer = NoAnswer
  /\ pc \in {"transform", "answer"} \/ answer.status = 200 =>
       last \in Response /\ found = CallsOf(last)
  /\ pc = "answer" => IsLast \/ IsTransformed
  /\ pc = "answered" =>
       \/ answer.status # 200 /\ answer.payload = <<>> /\ Fresh
       \/ answer.status = 200 /\ answer.payload = payload /\ (IsLast \/ IsTransformed)

BasicTypes ==
  /\ pc \in {"request", "transform", "answer", "answered"}
  /\ shape \in {"choices", "items"} /\ softTool \in SoftTool \union {NoSoftTool}
  /\ maxRetries \in 0..5 /\ attempt \in 0..maxRetries
  /\ answer.status \in {0, 200, 400, 500}

RetryInv == BasicTypes /\ PayloadInv

-----------------------------------------------------------------------------
(* The part a transform decides by *)

\* A set of natural numbers has a least one, so that Min and SelectInSeq choose something.
LEMMA LeastNatural ==
  ASSUME NEW T \in SUBSET Nat, T # {}
  PROVE  \E x \in T : \A y \in T : x <= y
<1> DEFINE R == {ss \in Nat \X Nat : ss[1] < ss[2]}
<1>1. IsWellFoundedOn(OpToRel(<, Nat), Nat)
  BY NatLessThanWellFounded
<1>2. OpToRel(<, Nat) = R
  BY DEF OpToRel
<1>3. PICK x \in T : \A y \in T : ~(<<y, x>> \in R)
  BY <1>1, <1>2, WFMin
<1>4. ASSUME NEW y \in T
      PROVE  x <= y
  <2>1. x \in Nat /\ y \in Nat /\ ~(<<y, x>> \in R)
    BY <1>3
  <2>2. ~(y < x)
    BY <2>1
  <2> QED
    BY <2>1, <2>2
<1> QED
  BY <1>4

LEMMA ResponseType == Response \subseteq Upstream
BY SettingAssumption DEF Upstream

LEMMA DecisiveFacts ==
  ASSUME NEW parts \in Upstream, Decisive(parts) # 0
  PROVE  Decisive(parts) \in DOMAIN parts /\ parts[Decisive(parts)] \in ToolTexts
<1> DEFINE I == {i \in 1..Len(parts) : parts[i] # Plain}
           triggered == SelectInSeq(parts, LAMBDA part : part # Plain)
<1>1. triggered = IF I # {} THEN CHOOSE x \in I : \A y \in I : x <= y ELSE 0
  BY DEF SelectInSeq, Min
<1>2. Decisive(parts) = triggered /\ triggered # 0
  BY DEF Decisive
<1>3. I # {}
  BY <1>1, <1>2
<1>4. \E x \in I : \A y \in I : x <= y
  <2>1. I \in SUBSET Nat
    OBVIOUS
  <2> QED
    BY <2>1, <1>3, LeastNatural
<1>5. triggered \in I
  BY <1>1, <1>3, <1>4
<1> QED
  BY <1>2, <1>5 DEF Upstream

\* What the client is given for calls cannot be taken for a text of the upstream.
LEMMA MadeIsNew ==
  ASSUME NEW n, NEW calls
  PROVE  Made(n, calls) \notin {Plain} \union ToolTexts
<1>1. "attempt" \in DOMAIN Made(n, calls)
  BY DEF Made
<1>2. "attempt" \notin DOMAIN Plain
  BY DEF Plain
<1> QED
  BY <1>1, <1>2, SettingAssumption

\* The decision depends on the response, shape and softTool.
LEMMA SameDecision ==
  ASSUME shape' = shape, softTool' = softTool, last' = last
  PROVE  CallsOf(last)' = CallsOf(last) /\ Decisive(last)' = Decisive(last)
BY DEF CallsOf, Decisive, SelectInSeq, Min

-----------------------------------------------------------------------------
(* The invariant *)

LEMMA RetriesType ==
  ASSUME NEW feature \in Setting, NEW upstream \in Setting
  PROVE  EffectiveSoftToolRetryAttempts(feature, upstream) \in 0..5
<1>1. feature \in Int /\ upstream \in Int
  BY SettingAssumption
<1> QED
  BY <1>1 DEF EffectiveSoftToolRetryAttempts

LEMMA InitGivesInv == RetryInit => RetryInv
BY RetriesType DEF RetryInit, RetryInv, BasicTypes, PayloadInv, Fresh, NoAnswer

LEMMA FailedKeepsInv == RetryInv /\ Failed => RetryInv'
BY DEF RetryInv, BasicTypes, PayloadInv, Fresh, Failed, NoAnswer

LEMMA RespondKeepsInv ==
  ASSUME RetryInv, NEW parts \in Response, Respond(parts)
  PROVE  RetryInv'
<1>1. found' = CallsOf(last)'
  BY DEF Respond, CallsOf, Decisive, SelectInSeq, Min
<1> QED
  BY <1>1 DEF RetryInv, BasicTypes, PayloadInv, Fresh, IsLast, Respond, NoAnswer

LEMMA GiveUpKeepsInv == RetryInv /\ (GiveUp \/ NothingToDo) => RetryInv'
<1> SUFFICES ASSUME RetryInv, GiveUp \/ NothingToDo
             PROVE  RetryInv'
  OBVIOUS
<1>1. /\ pc = "transform" /\ pc' = "answer"
      /\ UNCHANGED <<shape, softTool, maxRetries, attempt, payload, found, store, answer, last>>
  BY DEF GiveUp, NothingToDo
<1>2. CallsOf(last)' = CallsOf(last)
  BY <1>1, SameDecision
<1> QED
  BY <1>1, <1>2 DEF RetryInv, BasicTypes, PayloadInv, IsLast, NoAnswer

LEMMA RetryKeepsInv == RetryInv /\ Retry => RetryInv'
BY DEF RetryInv, BasicTypes, PayloadInv, Fresh, IsLast, Retry, NoAnswer

LEMMA TransformKeepsInv == RetryInv /\ Transform => RetryInv'
<1> SUFFICES ASSUME RetryInv, Transform
             PROVE  RetryInv'
  OBVIOUS
<1>1. /\ pc = "transform" /\ pc' = "answer"
      /\ UNCHANGED <<shape, softTool, maxRetries, attempt, found, answer, last>>
  BY DEF Transform
<1>2. CallsOf(last)' = CallsOf(last) /\ Decisive(last)' = Decisive(last)
  BY <1>1, SameDecision
<1>3. payload = last /\ store = {}
  BY <1>1 DEF RetryInv, PayloadInv, IsLast
<1>4. IsTransformed'
  BY <1>1, <1>2, <1>3 DEF Transform, TransformFailed, IsTransformed
<1> QED
  BY <1>1, <1>2, <1>4 DEF RetryInv, BasicTypes, PayloadInv, NoAnswer

LEMMA AnswerKeepsInv == RetryInv /\ Answer => RetryInv'
<1> SUFFICES ASSUME RetryInv, Answer
             PROVE  RetryInv'
  OBVIOUS
<1>1. /\ pc = "answer" /\ pc' = "answered" /\ answer' = [status |-> 200, payload |-> payload]
      /\ UNCHANGED <<shape, softTool, maxRetries, attempt, payload, found, store, last>>
  BY DEF Answer
<1>2. CallsOf(last)' = CallsOf(last) /\ Decisive(last)' = Decisive(last)
  BY <1>1, SameDecision
<1>3. (IsLast \/ IsTransformed)'
  BY <1>1, <1>2 DEF RetryInv, PayloadInv, Fresh, IsLast, IsTransformed
<1> QED
  BY <1>1, <1>2, <1>3 DEF RetryInv, BasicTypes, PayloadInv, Fresh

LEMMA NextKeepsInv == RetryInv /\ [RetryNext]_retryVars => RetryInv'
<1> SUFFICES ASSUME RetryInv, [RetryNext]_retryVars
             PROVE  RetryInv'
  OBVIOUS
<1>1. CASE UNCHANGED retryVars
  <2>1. CallsOf(last)' = CallsOf(last) /\ Decisive(last)' = Decisive(last)
    BY <1>1, SameDecision DEF retryVars
  <2> QED
    BY <1>1, <2>1 DEF retryVars, RetryInv, BasicTypes, PayloadInv, Fresh, IsLast, IsTransformed
<1>2. CASE RetryNext
  BY <1>2, FailedKeepsInv, RespondKeepsInv, GiveUpKeepsInv, RetryKeepsInv, TransformKeepsInv, AnswerKeepsInv
  DEF RetryNext, Progress
<1> QED
  BY <1>1, <1>2

LEMMA RetryInvariance == RetrySpec => []RetryInv
BY InitGivesInv, NextKeepsInv, PTL DEF RetrySpec

-----------------------------------------------------------------------------
(* What follows from it *)

LEMMA NoCalls == CallsOf(<<>>) = <<>>
<1>1. SelectInSeq(<<>>, LAMBDA part : part # Plain) = 0
  BY DEF SelectInSeq
<1> QED
  BY <1>1 DEF CallsOf, Decisive

\* The calls of a response are found in a tool text of it, or there are none.
LEMMA CallsOfType ==
  ASSUME NEW parts \in Response, softTool \in SoftTool \union {NoSoftTool},
         Decisive(parts) # 0, softTool # NoSoftTool
  PROVE  \E text \in ToolTexts, s \in SoftTool : CallsOf(parts) = CallsIn(text, s)
<1>1. parts[Decisive(parts)] \in ToolTexts
  BY ResponseType, DecisiveFacts
<1> QED
  BY <1>1 DEF CallsOf

LEMMA ResponseIsParts ==
  ASSUME NEW parts \in Response
  PROVE  parts \in Seq(Part)
BY SettingAssumption DEF Part

LEMMA TransformedType ==
  ASSUME BasicTypes, last \in Response, found = CallsOf(last), IsTransformed
  PROVE  payload \in Seq(Part) /\ store \subseteq Part
<1>1. attempt \in 0..5
  BY DEF BasicTypes
<1>2. PICK text \in ToolTexts, s \in SoftTool : found = CallsIn(text, s)
  BY CallsOfType DEF BasicTypes, IsTransformed
<1>3. Made(attempt, found) \in Part
  BY <1>1, <1>2 DEF Part
<1>4. last \in Seq(Part) /\ Decisive(last) \in DOMAIN last
  BY ResponseIsParts, ResponseType, DecisiveFacts DEF IsTransformed
<1> QED
  BY <1>3, <1>4 DEF IsTransformed

LEMMA RetryInvType == RetryInv => RetryTypeOK
<1> SUFFICES ASSUME RetryInv
             PROVE  RetryTypeOK
  OBVIOUS
<1>1. CASE Fresh /\ answer.payload = <<>>
  BY <1>1, NoCalls DEF RetryInv, BasicTypes, Fresh, RetryTypeOK
<1>2. CASE /\ last \in Response /\ found = CallsOf(last)
           /\ IsLast \/ IsTransformed
           /\ answer.payload = <<>> \/ answer.payload = payload
  <2>1. payload \in Seq(Part) /\ store \subseteq Part
    BY <1>2, TransformedType, ResponseIsParts DEF RetryInv, IsLast
  <2>2. answer.payload \in Seq(Part)
    <3>1. <<>> \in Seq(Part)
      OBVIOUS
    <3> QED
      BY <1>2, <2>1, <3>1
  <2> QED
    BY <1>2, <2>1, <2>2 DEF RetryInv, BasicTypes, RetryTypeOK
<1> QED
  BY <1>1, <1>2 DEF RetryInv, BasicTypes, PayloadInv, NoAnswer

LEMMA RetryInvStore == RetryInv => StoreMatchesAnswer
<1> SUFFICES ASSUME RetryInv, pc = "answered"
             PROVE  store = Range(answer.payload) \ ({Plain} \union ToolTexts)
  BY DEF StoreMatchesAnswer
<1>1. CASE answer.payload = <<>> /\ store = {}
  BY <1>1 DEF Range
<1>2. CASE answer.payload = last /\ last \in Response /\ store = {}
  <2>1. Range(last) \subseteq {Plain} \union ToolTexts
    BY <1>2, SettingAssumption DEF Range
  <2> QED
    BY <1>2, <2>1
<1>3. CASE answer.payload = payload /\ last \in Response /\ IsTransformed
  <2> DEFINE d == Decisive(last)
             made == Made(attempt, found)
  <2>1. last \in Upstream /\ d \in DOMAIN last
    BY <1>3, ResponseType, DecisiveFacts DEF IsTransformed
  <2>2. DOMAIN payload = DOMAIN last /\ \A i \in DOMAIN last :
          payload[i] = IF i = d THEN made ELSE last[i]
    BY <1>3, <2>1 DEF IsTransformed, Upstream
  <2>3. \A i \in DOMAIN last : last[i] \in {Plain} \union ToolTexts
    BY <2>1 DEF Upstream
  <2>4. made \notin {Plain} \union ToolTexts
    BY MadeIsNew
  <2>5. Range(payload) \ ({Plain} \union ToolTexts) = {made}
    BY <2>1, <2>2, <2>3, <2>4 DEF Range
  <2> QED
    BY <1>3, <2>5 DEF IsTransformed
<1> QED
  BY <1>1, <1>2, <1>3 DEF RetryInv, BasicTypes, PayloadInv, Fresh, IsLast

LEMMA RetryInvAnswer == RetryInv => AnswerIsLastResponse
<1> SUFFICES ASSUME RetryInv, answer.status = 200
             PROVE  /\ Len(answer.payload) = Len(last)
                    /\ \A i \in DOMAIN answer.payload :
                         \/ answer.payload[i] = last[i]
                         \/ i = Decisive(last) /\ answer.payload[i] = Made(attempt, CallsOf(last))
  BY DEF AnswerIsLastResponse
<1>1. /\ answer.payload = payload
      /\ IsLast \/ IsTransformed
      /\ last \in Response /\ found = CallsOf(last)
  BY DEF RetryInv, BasicTypes, PayloadInv, NoAnswer
<1>2. CASE IsLast
  BY <1>1, <1>2 DEF IsLast
<1>3. CASE IsTransformed
  <2>1. last \in Upstream
    BY <1>1, ResponseType
  <2> QED
    BY <1>1, <1>3, <2>1 DEF IsTransformed, Upstream
<1> QED
  BY <1>1, <1>2, <1>3

-----------------------------------------------------------------------------

\* A request never makes more than six attempts, and whatever the upstream sends, responses,
\* calls and answers keep their types.
THEOREM RetryTypeCorrect == RetrySpec => []RetryTypeOK
BY RetryInvariance, RetryInvType, PTL

\* The store gets exactly the calls the client is answered with, none of an attempt that
\* was thrown away.
THEOREM StoredAsAnswered == RetrySpec => []StoreMatchesAnswer
BY RetryInvariance, RetryInvStore, PTL

\* The client is given the last response, with one part rewritten if at all.
THEOREM AnsweredAsSent == RetrySpec => []AnswerIsLastResponse
BY RetryInvariance, RetryInvAnswer, PTL

-----------------------------------------------------------------------------
(* The calls that are allowed *)

\* A type makes of an object one with the same keys, or nothing.
LEMMA ObjectForType ==
  ASSUME NEW args, NEW type, NEW schema, NEW coerce \in BOOLEAN
  PROVE  LET fit == NormalizeForType(Object(args), type, schema, coerce)
         IN  Is(fit, "none") \/ (Is(fit, "object") /\ DOMAIN fit.object = DOMAIN args)
<1>1. PICK v : v = Object(args)
  OBVIOUS
<1>2. v.object = args /\ DOMAIN v = {"object"}
  BY <1>1 DEF Object
<1>3. ~Is(v, "string") /\ ~Is(v, "number") /\ ~Is(v, "boolean") /\ ~Is(v, "null") /\ ~Is(v, "array")
  BY <1>2 DEF Is
<1>4. /\ NormalizeString(v, coerce) = None /\ NormalizeInteger(v, coerce) = None
      /\ NormalizeNumber(v, coerce) = None /\ NormalizeBoolean(v, coerce) = None
      /\ NormalizeNull(v, coerce) = None
  BY <1>3 DEF NormalizeString, NormalizeInteger, NormalizeNumber, NormalizeBoolean, NormalizeNull
<1>5. Is(None, "none")
  BY DEF None, Is
<1>6. PICK f : f = [key \in DOMAIN v.object |-> NormalizeInner(v.object[key], ChildSchema(schema, key))]
  OBVIOUS
<1>7. DOMAIN f = DOMAIN args
  BY <1>2, <1>6
<1>8. Is(Object(f), "object") /\ Object(f).object = f
  BY DEF Object, Is
<1>9. PICK fit : fit = NormalizeForType(v, type, schema, coerce)
  OBVIOUS
<1>10. fit = None \/ fit = Object(f)
  BY <1>3, <1>4, <1>6, <1>9 DEF NormalizeForType
<1> QED BY <1>1, <1>5, <1>7, <1>8, <1>9, <1>10

\* A sequence has a first of those that pass a test, if any does.
LEMMA FirstFitIs ==
  ASSUME NEW value, NEW schema, IsList(CandidateTypes(schema))
  PROVE  \/ FirstFit(value, schema) = None
         \/ \E i \in DOMAIN CandidateTypes(schema), coerce \in BOOLEAN :
              FirstFit(value, schema) = NormalizeForType(value, CandidateTypes(schema)[i], schema, coerce)
<1> DEFINE types == CandidateTypes(schema)
           n == Len(types)
           fits == [i \in 1..(2 * n) |->
                      IF i <= n THEN NormalizeForType(value, types[i], schema, FALSE)
                      ELSE NormalizeForType(value, types[i - n], schema, TRUE)]
           I == {i \in 1..Len(fits) : ~Is(fits[i], "none")}
           first == SelectInSeq(fits, LAMBDA fit : ~Is(fit, "none"))
<1>1. n \in Nat /\ DOMAIN types = 1..n
  BY DEF IsList
<1>2. FirstFit(value, schema) = IF first = 0 THEN None ELSE fits[first]
  BY DEF FirstFit
<1>3. first = IF I # {} THEN CHOOSE x \in I : \A y \in I : x <= y ELSE 0
  BY DEF SelectInSeq, Min
<1>4. Len(fits) = 2 * n
  <2>1. DOMAIN fits = 1..(2 * n) /\ 2 * n \in Nat
    BY <1>1
  <2> QED BY <2>1
<1>5. CASE I = {}
  BY <1>2, <1>3, <1>5
<1>6. CASE I # {}
  <2>1. I \in SUBSET Nat
    <3>1. \A i \in 1..(2 * n) : i \in Nat
      BY <1>1
    <3> QED BY <1>4, <3>1
  <2>2. \E x \in I : \A y \in I : x <= y
    BY <1>6, <2>1, LeastNatural
  <2>3. first \in I
    BY <1>3, <1>6, <2>2
  <2>4. PICK j : j = first
    OBVIOUS
  <2>5. j \in 1..(2 * n) /\ j # 0
    BY <1>1, <1>4, <2>3, <2>4
  <2>6. FirstFit(value, schema) = fits[j]
    BY <1>2, <2>4, <2>5
  <2> HIDE DEF first, I
  <2>7. CASE j <= n
    <3>1. fits[j] = NormalizeForType(value, types[j], schema, FALSE)
      BY <2>5, <2>7
    <3>2. j \in DOMAIN types /\ FALSE \in BOOLEAN
      BY <1>1, <2>5, <2>7
    <3> QED BY <2>6, <3>1, <3>2
  <2>8. CASE ~(j <= n)
    <3>1. fits[j] = NormalizeForType(value, types[j - n], schema, TRUE)
      BY <2>5, <2>8
    <3>2. j - n \in DOMAIN types /\ TRUE \in BOOLEAN
      BY <1>1, <2>5, <2>8
    <3> QED BY <2>6, <3>1, <3>2
  <2> QED BY <2>7, <2>8
<1> QED BY <1>5, <1>6

\* Arguments are fitted to their schema one by one, and none is added or lost.
LEMMA KeysKept ==
  ASSUME NEW args, NEW schema, IsList(CandidateTypes(schema))
  PROVE  DOMAIN NormalizeArgs(args, schema) = DOMAIN args
<1>1. PICK v, fit, norm : /\ v = Object(args) /\ fit = FirstFit(v, schema)
                          /\ norm = NormalizeValue(v, schema)
  OBVIOUS
<1>2. Is(v, "object") /\ v.object = args
  BY <1>1 DEF Object, Is
<1>3. Is(fit, "none") \/ (Is(fit, "object") /\ DOMAIN fit.object = DOMAIN args)
  <2>1. Is(None, "none")
    BY DEF None, Is
  <2>2. CASE fit = None
    BY <2>1, <2>2
  <2>3. CASE fit # None
    <3>1. PICK i \in DOMAIN CandidateTypes(schema), coerce \in BOOLEAN :
             fit = NormalizeForType(v, CandidateTypes(schema)[i], schema, coerce)
      BY <1>1, <2>3, FirstFitIs
    <3>2. PICK type : type = CandidateTypes(schema)[i]
      OBVIOUS
    <3>3. fit = NormalizeForType(Object(args), type, schema, coerce)
      BY <1>1, <3>1, <3>2
    <3> QED BY <3>1, <3>3, ObjectForType
  <2> QED BY <2>2, <2>3
<1>4. norm = v \/ (norm = fit /\ ~Is(fit, "none"))
  BY <1>1 DEF NormalizeValue
<1>5. NormalizeArgs(args, schema) = IF Is(norm, "object") THEN norm.object ELSE args
  BY <1>1 DEF NormalizeArgs
<1> QED BY <1>2, <1>3, <1>4, <1>5

LEMMA ListOf ==
  ASSUME NEW n \in Nat, NEW list, list = [i \in 1..n |-> list[i]]
  PROVE  IsList(list) /\ Len(list) = n /\ DOMAIN list = 1..n
<1>1. DOMAIN list = 1..n
  OBVIOUS
<1>2. \A i \in 1..n : list[i] \in Range(list)
  BY <1>1 DEF Range
<1>3. list \in [1..n -> Range(list)]
  BY <1>2
<1>4. list \in Seq(Range(list)) /\ Len(list) = n
  BY <1>3
<1> QED BY <1>1, <1>4 DEF IsList

\* All parsers read lists of calls, and of a text that was cut off no more than were whole,
\* but for markdown.
LEMMA ParsedCalls ==
  ASSUME NEW text \in ToolTexts, NEW protocol
  PROVE  /\ AreCalls(Parse(text, protocol))
         /\ \/ text.closed \/ text.format = "markdown_block"
            \/ Len(Parse(text, protocol)) <= text.written
<1>1. PICK n, list, calls : /\ n = text.written /\ calls = Parse(text, protocol)
                            /\ list = [i \in 1..n |-> ParseInvokeXML(FormatXML(text.calls[i]))]
  OBVIOUS
<1>2. n \in Nat /\ AreCalls(text.calls) /\ AreCalls(MarkdownCalls(text))
  BY <1>1, TextAssumption
<1>3. AreCalls(list) /\ Len(list) <= n
  <2>1. IsList(list) /\ Len(list) = n /\ DOMAIN list = 1..n
    <3>1. list = [i \in 1..n |-> list[i]]
      BY <1>1
    <3> QED BY <1>2, <3>1, ListOf
  <2>2. ASSUME NEW i \in DOMAIN list
        PROVE  list[i] = [name |-> list[i].name, args |-> list[i].args]
    <3>1. list[i] = ParseInvokeXML(FormatXML(text.calls[i]))
      BY <1>1, <2>1
    <3> QED BY <3>1 DEF ParseInvokeXML
  <2> QED BY <1>2, <2>1, <2>2 DEF AreCalls
<1>4. AreCalls(<<>>) /\ Len(<<>>) <= n
  BY <1>2 DEF AreCalls, IsList
<1>5. \/ calls = list
      \/ text.closed /\ calls = text.calls
      \/ text.format = "markdown_block" /\ calls = MarkdownCalls(text)
      \/ calls = <<>>
  BY <1>1 DEF Parse
<1> QED BY <1>1, <1>2, <1>3, <1>4, <1>5

\* What becomes of calls that are valid under settings s.
AllowedOf(valid, calls, s) ==
  /\ s.choice.word # "none" /\ Len(valid) = Len(calls)
  /\ s.choice.name # "" => Len(valid) = 1 /\ valid[1].name = s.choice.name
  /\ \A i \in DOMAIN valid :
       /\ valid[i].name \in DOMAIN Tools
       /\ Required(Tools[valid[i].name]) \subseteq DOMAIN valid[i].args
       /\ valid[i].name = calls[i].name /\ DOMAIN valid[i].args = DOMAIN calls[i].args

\* Calls that are valid stay what they are but for the values of their arguments.
LEMMA ValidAreAllowed ==
  ASSUME NEW calls, AreCalls(calls), NEW s, ValidCalls(calls, s) # <<>>
  PROVE  AllowedOf(ValidCalls(calls, s), calls, s)
<1>1. PICK n, valid : n = Len(calls) /\ valid = ValidCalls(calls, s)
  OBVIOUS
<1>2. n \in Nat /\ DOMAIN calls = 1..n
  BY <1>1 DEF AreCalls, IsList
<1>3. /\ s.choice.word # "none"
      /\ \A i \in DOMAIN calls :
           /\ calls[i].name \in DOMAIN Tools
           /\ LET fitted == [calls[i] EXCEPT !.args = NormalizeArgs(calls[i].args, Tools[calls[i].name])]
              IN  Required(Tools[calls[i].name]) \subseteq DOMAIN fitted.args
      /\ s.choice.name = "" \/ (Len(calls) = 1 /\ calls[1].name = s.choice.name)
      /\ valid = [i \in DOMAIN calls |->
                    [calls[i] EXCEPT !.args = NormalizeArgs(calls[i].args, Tools[calls[i].name])]]
  BY <1>1 DEF ValidCalls
<1>4. Len(valid) = n /\ DOMAIN valid = 1..n
  <2>1. valid = [i \in 1..n |-> valid[i]]
    BY <1>2, <1>3
  <2> QED BY <1>2, <2>1, ListOf
<1>5. ASSUME NEW i \in 1..n
      PROVE  /\ valid[i].name = calls[i].name /\ DOMAIN valid[i].args = DOMAIN calls[i].args
             /\ Required(Tools[calls[i].name]) \subseteq DOMAIN valid[i].args
  <2>1. PICK name, args, new : /\ name = calls[i].name /\ args = calls[i].args
                               /\ new = NormalizeArgs(args, Tools[name])
    OBVIOUS
  <2>2. calls[i] = [name |-> name, args |-> args]
    BY <1>2, <2>1 DEF AreCalls
  <2>3. valid[i] = [name |-> name, args |-> new]
    <3>1. valid[i] = [calls[i] EXCEPT !.args = NormalizeArgs(calls[i].args, Tools[calls[i].name])]
      BY <1>2, <1>3
    <3>2. valid[i] = [calls[i] EXCEPT !.args = new]
      BY <2>1, <3>1
    <3> QED BY <2>2, <3>2
  <2>4. IsList(CandidateTypes(Tools[name]))
    BY <1>2, <1>3, <2>1, ToolsAssumption
  <2>5. DOMAIN new = DOMAIN args
    BY <2>1, <2>4, KeysKept
  <2>6. Required(Tools[calls[i].name]) \subseteq DOMAIN valid[i].args
    BY <1>2, <1>3
  <2> QED BY <2>1, <2>3, <2>5, <2>6
<1>6. s.choice.name # "" => n = 1 /\ valid[1].name = s.choice.name
  <2>1. s.choice.name # "" => n = 1 /\ calls[1].name = s.choice.name
    BY <1>1, <1>3
  <2>2. n = 1 => valid[1].name = calls[1].name
    BY <1>2, <1>5
  <2> QED BY <2>1, <2>2
<1>7. ASSUME NEW i \in 1..n
      PROVE  /\ valid[i].name \in DOMAIN Tools
             /\ Required(Tools[valid[i].name]) \subseteq DOMAIN valid[i].args
  <2>1. calls[i].name \in DOMAIN Tools
    BY <1>2, <1>3
  <2> QED BY <1>5, <2>1
<1> QED BY <1>1, <1>3, <1>4, <1>5, <1>6, <1>7 DEF AllowedOf

LEMMA RetryInvAllowed == RetryInv => OnlyAllowedCalls
<1> SUFFICES ASSUME RetryInv, NEW i \in DOMAIN answer.payload,
                    answer.payload[i] \notin {Plain} \union ToolTexts
             PROVE  LET given == answer.payload[i].calls
                        read  == Parse(last[i], softTool.protocol)
                    IN  /\ softTool # NoSoftTool /\ Allowed(given) /\ Len(given) = Len(read)
                        /\ \A j \in DOMAIN given :
                             given[j].name = read[j].name /\ DOMAIN given[j].args = DOMAIN read[j].args
                        /\ \/ last[i].closed \/ last[i].format = "markdown_block"
                           \/ Len(given) <= last[i].written
  BY DEF OnlyAllowedCalls
<1>1. answer.status = 200
  BY DEF RetryInv, BasicTypes, PayloadInv, NoAnswer
<1>2. /\ answer.payload = payload /\ last \in Response /\ found = CallsOf(last)
      /\ IsLast \/ IsTransformed
  BY <1>1 DEF RetryInv, BasicTypes, PayloadInv, NoAnswer
<1>3. last \in Upstream
  BY <1>2, ResponseType
<1>4. IsTransformed
  BY <1>2, <1>3 DEF IsLast, Upstream
<1>5. softTool \in SoftTool /\ softTool # NoSoftTool /\ found # <<>>
  BY <1>4 DEF IsTransformed, RetryInv, BasicTypes
<1>6. PICK d, text : d = Decisive(last) /\ text = last[d]
  OBVIOUS
<1>7. d \in DOMAIN last /\ text \in ToolTexts /\ d # 0
  BY <1>3, <1>4, <1>6, DecisiveFacts DEF IsTransformed
<1>8. i = d /\ answer.payload[i] = Made(attempt, found)
  BY <1>2, <1>3, <1>4, <1>6, <1>7 DEF IsTransformed, Upstream
<1>9. answer.payload[i].calls = found
  BY <1>8 DEF Made
<1>10. PICK calls, s : s = softTool /\ calls = Parse(text, s.protocol)
  OBVIOUS
<1>11. found = ValidCalls(calls, s)
  <2>1. found = CallsIn(text, softTool)
    BY <1>2, <1>5, <1>6, <1>7 DEF CallsOf
  <2>2. CallsIn(text, softTool) = ParseSoftToolCalls(text, softTool)
    BY <1>5, <1>7, TextAssumption
  <2> QED BY <1>10, <2>1, <2>2 DEF ParseSoftToolCalls
<1>12. AreCalls(calls) /\ (text.closed \/ text.format = "markdown_block" \/ Len(calls) <= text.written)
  BY <1>7, <1>10, ParsedCalls
<1>13. AllowedOf(found, calls, s)
  <2>1. AreCalls(calls) /\ ValidCalls(calls, s) # <<>>
    BY <1>5, <1>11, <1>12
  <2>2. AllowedOf(ValidCalls(calls, s), calls, s)
    BY <2>1, ValidAreAllowed
  <2> QED BY <1>11, <2>2
<1>14. Allowed(found)
  BY <1>10, <1>13 DEF Allowed, AllowedOf
<1>15. /\ answer.payload[i].calls = found /\ last[i] = text
       /\ Parse(last[i], softTool.protocol) = calls
  BY <1>6, <1>8, <1>9, <1>10
<1>16. text.closed \/ text.format = "markdown_block" \/ Len(found) <= text.written
  BY <1>12, <1>13 DEF AllowedOf
<1>17. \A j \in DOMAIN found : found[j].name = calls[j].name /\ DOMAIN found[j].args = DOMAIN calls[j].args
  BY <1>13 DEF AllowedOf
<1>18. PICK given, read, m : /\ given = answer.payload[i].calls /\ m = last[i]
                             /\ read = Parse(last[i], softTool.protocol)
  OBVIOUS
<1>19. given = found /\ read = calls /\ m = text
  BY <1>15, <1>18
<1>20. /\ Allowed(given) /\ Len(given) = Len(read)
       /\ \A j \in DOMAIN given : given[j].name = read[j].name /\ DOMAIN given[j].args = DOMAIN read[j].args
       /\ m.closed \/ m.format = "markdown_block" \/ Len(given) <= m.written
  BY <1>13, <1>14, <1>16, <1>17, <1>19 DEF AllowedOf
<1> QED BY <1>5, <1>18, <1>20

\* Whatever the model writes, in whichever attempt, and whatever becomes of values inside others,
\* the calls a client is given are of tools it advertised, have all that these require, keep to
\* its tool_choice and are those that were read, with the arguments that were read; of a message
\* that was cut off they are calls that were whole, unless it is in markdown.
THEOREM AllowedOnly == RetrySpec => []OnlyAllowedCalls
BY RetryInvariance, RetryInvAllowed, PTL

=============================================================================
