--------------------------- MODULE ChatStream_proofs ---------------------------
(***************************************************************************)
(* Proofs about streamChatCompletion and the detector it runs, for any     *)
(* text in any chunks, wherever the stream ends or breaks.                 *)
(*                                                                         *)
(* The detector: it finds the first trigger outside thinking, passes on    *)
(* what stands before it, and holds back only what may become a tag or a   *)
(* trigger.  What is assumed of tags, trigger and fences is ControlsApart. *)
(* DetectorInv relates what was passed on to the whole text: every place   *)
(* the loop went over is Passed, and that stays so when text is added.     *)
(*                                                                         *)
(* The engine: it calls back in the order of CallbackProtocol, shows the   *)
(* text up to the first trigger and no other, and reports the outcome of   *)
(* the tool text behind it.                                                *)
(***************************************************************************)
EXTENDS ChatStream, SequenceTheorems, FiniteSetTheorems, WellFoundedInduction, TLAPS

-----------------------------------------------------------------------------
(* Texts, tags and signals                                                 *)

\* The tags that open and close thinking.
Tags == {ThinkOpen, ThinkClose}

\* What toolTriggerOffset looks for.
Signals == {Trigger} \union {f \o Trigger : f \in Fences}

Texts == Seq(Char)

\* Tags, trigger and fences are texts, and not empty.
LEMMA Controls ==
  /\ ThinkOpen \in Texts /\ ThinkClose \in Texts /\ Trigger \in Texts
  /\ Len(ThinkOpen) \in Nat \ {0} /\ Len(ThinkClose) \in Nat \ {0} /\ Len(Trigger) \in Nat \ {0}
  /\ \A f \in Fences : f \in Texts /\ Len(f) \in Nat \ {0}
<1>1. \A c \in Texts \ {<<>>} : Len(c) \in Nat \ {0}
  BY DEF Texts
<1> QED
  BY <1>1, ControlAssumption DEF Texts

\* Rest and HasPrefix, character by character.
LEMMA RestIs ==
  ASSUME NEW b \in Texts, NEW i \in 0..Len(b)
  PROVE  /\ Rest(b, i) \in Texts /\ Len(Rest(b, i)) = Len(b) - i
         /\ \A k \in 1..(Len(b) - i) : Rest(b, i)[k] = b[i + k]
<1>1. PICK r : r = SubSeq(b, i + 1, Len(b))
  OBVIOUS
<1>2. Len(r) = Len(b) - i
  BY <1>1 DEF Texts
<1>3. r \in Seq(Char)
  BY <1>1 DEF Texts
<1>4. ASSUME NEW k \in 1..(Len(b) - i)
      PROVE  r[k] = b[i + k]
  BY <1>1 DEF Texts
<1> QED
  BY <1>1, <1>2, <1>3, <1>4 DEF Rest, Texts

LEMMA PrefixIs ==
  ASSUME NEW b \in Texts, NEW s \in Texts
  PROVE  HasPrefix(b, s) <=> Len(s) <= Len(b) /\ \A k \in 1..Len(s) : b[k] = s[k]
<1>1. CASE Len(s) <= Len(b)
  <2>1. PICK u : u = SubSeq(b, 1, Len(s))
    OBVIOUS
  <2>2. u \in Seq(Char) /\ Len(u) = Len(s)
    BY <1>1, <2>1 DEF Texts
  <2>3. \A k \in 1..Len(s) : u[k] = b[k]
    BY <1>1, <2>1 DEF Texts
  <2>4. u = s <=> \A k \in 1..Len(s) : u[k] = s[k]
    <3>1. ASSUME \A k \in 1..Len(s) : u[k] = s[k]
          PROVE  u = s
      BY <2>2, <3>1, SeqEqual DEF Texts
    <3> QED BY <3>1
  <2> QED BY <1>1, <2>1, <2>3, <2>4 DEF HasPrefix
<1>2. CASE ~(Len(s) <= Len(b))
  BY <1>2 DEF HasPrefix
<1> QED
  BY <1>1, <1>2

\* Tags and signals, character by character.
LEMMA StandsIs ==
  ASSUME NEW t \in Texts, NEW i \in 0..Len(t), NEW s \in Texts
  PROVE  StandsAt(t, i, s) <=> i + Len(s) <= Len(t) /\ \A k \in 1..Len(s) : t[i + k] = s[k]
<1>1. PICK r : r = Rest(t, i)
  OBVIOUS
<1>2. r \in Texts /\ Len(r) = Len(t) - i /\ \A k \in 1..(Len(t) - i) : r[k] = t[i + k]
  BY <1>1, RestIs
<1>3. StandsAt(t, i, s) <=> Len(s) <= Len(r) /\ \A k \in 1..Len(s) : r[k] = s[k]
  BY <1>1, <1>2, PrefixIs DEF StandsAt
<1>4. Len(t) \in Nat /\ Len(s) \in Nat /\ i \in Nat
  BY DEF Texts
<1>5. Len(s) <= Len(r) <=> i + Len(s) <= Len(t)
  BY <1>2, <1>4
<1>6. ASSUME i + Len(s) <= Len(t), NEW k \in 1..Len(s)
      PROVE  r[k] = t[i + k]
  BY <1>2, <1>4, <1>6
<1> QED
  BY <1>3, <1>5, <1>6

\* s does not stand in t after i characters, whatever comes behind t.
Differs(t, i, s) == \E k \in 1..Len(s) : i + k <= Len(t) /\ t[i + k] # s[k]

LEMMA DiffersIs ==
  ASSUME NEW t \in Texts, NEW i \in 0..Len(t), NEW s \in Texts, Differs(t, i, s)
  PROVE  ~StandsAt(t, i, s)
BY StandsIs DEF Differs

LEMMA TextGrows ==
  ASSUME NEW t \in Texts, NEW x \in Texts
  PROVE  /\ t \o x \in Texts /\ Len(t \o x) = Len(t) + Len(x) /\ Len(t) \in Nat /\ Len(x) \in Nat
         /\ \A k \in 1..Len(t) : (t \o x)[k] = t[k]
<1>1. t \o x \in Texts /\ Len(t \o x) = Len(t) + Len(x) /\ Len(t) \in Nat /\ Len(x) \in Nat
  BY DEF Texts
<1>2. \A k \in 1..Len(t) : (t \o x)[k] = t[k]
  BY DEF Texts
<1> QED
  BY <1>1, <1>2

\* What comes behind a text changes nothing in it.
LEMMA StandsLater ==
  ASSUME NEW t \in Texts, NEW x \in Texts, NEW i \in 0..Len(t), NEW s \in Texts
  PROVE  /\ StandsAt(t, i, s) => StandsAt(t \o x, i, s)
         /\ Differs(t, i, s) => Differs(t \o x, i, s)
         /\ i + Len(s) <= Len(t) => (StandsAt(t \o x, i, s) <=> StandsAt(t, i, s))
<1>1. PICK u : u = t \o x
  OBVIOUS
<1>2. /\ u \in Texts /\ Len(u) = Len(t) + Len(x) /\ Len(t) \in Nat /\ Len(x) \in Nat /\ Len(s) \in Nat
      /\ i \in 0..Len(u)
  BY <1>1, TextGrows DEF Texts
<1>3. \A k \in 1..Len(t) : u[k] = t[k]
  BY <1>1, TextGrows
<1>4. StandsAt(t, i, s) <=> i + Len(s) <= Len(t) /\ \A k \in 1..Len(s) : t[i + k] = s[k]
  BY StandsIs
<1>5. StandsAt(u, i, s) <=> i + Len(s) <= Len(u) /\ \A k \in 1..Len(s) : u[i + k] = s[k]
  BY <1>2, StandsIs
<1>6. ASSUME i + Len(s) <= Len(t), NEW k \in 1..Len(s)
      PROVE  u[i + k] = t[i + k]
  BY <1>2, <1>3, <1>6
<1>7. ASSUME Differs(t, i, s)
      PROVE  Differs(u, i, s)
  <2>1. PICK k \in 1..Len(s) : i + k <= Len(t) /\ t[i + k] # s[k]
    BY <1>7 DEF Differs
  <2>2. i + k \in 1..Len(t) /\ i + k <= Len(u)
    BY <1>2, <2>1
  <2>3. u[i + k] # s[k]
    BY <1>3, <2>1, <2>2
  <2> QED BY <2>2, <2>3 DEF Differs
<1>8. i + Len(s) <= Len(t) => (StandsAt(u, i, s) <=> StandsAt(t, i, s))
  <2>1. i + Len(s) <= Len(t) => i + Len(s) <= Len(u)
    BY <1>2
  <2> QED BY <1>4, <1>5, <1>6, <2>1
<1> QED
  BY <1>1, <1>4, <1>7, <1>8

-----------------------------------------------------------------------------
(* The controls have nothing in common                                     *)

LEMMA SignalType == \A c \in Signals : c \in Texts /\ Len(c) \in Nat \ {0}
<1>1. ASSUME NEW f \in Fences
      PROVE  f \o Trigger \in Texts /\ Len(f \o Trigger) \in Nat \ {0}
  BY Controls DEF Texts
<1> QED
  BY <1>1, Controls DEF Signals

\* How a signal begins.
LEMMA SignalBegins ==
  ASSUME NEW c \in Signals
  PROVE  c[1] = Trigger[1] \/ \E f \in Fences : c[1] = f[1]
<1>1. ASSUME NEW f \in Fences
      PROVE  (f \o Trigger)[1] = f[1]
  BY Controls DEF Texts
<1> QED
  BY <1>1 DEF Signals

\* Two of them differ within the shorter one.
LEMMA Apart ==
  ASSUME NEW c \in Tags \union {Trigger}, NEW d \in Tags \union {Trigger}, c # d
  PROVE  \E k \in 1..Len(c) : k <= Len(d) /\ c[k] # d[k]
<1>1. c \in Seq(Char) /\ d \in Seq(Char) /\ Len(c) \in Nat \ {0} /\ Len(d) \in Nat \ {0}
  BY Controls DEF Texts, Tags
<1>2. /\ Len(c) <= Len(d) => SubSeq(d, 1, Len(c)) # c
      /\ Len(d) <= Len(c) => SubSeq(c, 1, Len(d)) # d
  BY ApartAssumption DEF ControlsApart, Tags
<1>3. HasPrefix(c, d) <=> Len(d) <= Len(c) /\ \A k \in 1..Len(d) : c[k] = d[k]
  BY <1>1, PrefixIs DEF Texts
<1>4. HasPrefix(d, c) <=> Len(c) <= Len(d) /\ \A k \in 1..Len(c) : d[k] = c[k]
  BY <1>1, PrefixIs DEF Texts
<1>5. ~HasPrefix(c, d) /\ ~HasPrefix(d, c)
  BY <1>2 DEF HasPrefix
<1>6. CASE Len(c) <= Len(d)
  BY <1>1, <1>4, <1>5, <1>6
<1>7. CASE Len(d) <= Len(c)
  BY <1>1, <1>3, <1>5, <1>7
<1> QED
  BY <1>1, <1>6, <1>7

\* No tag or signal begins with a character from inside a tag or the trigger.
LEMMA InsideApart ==
  ASSUME NEW c \in Tags \union {Trigger}, NEW k \in 2..Len(c), NEW d \in Tags \union Signals
  PROVE  c[k] # d[1]
<1>1. c \in {ThinkOpen, ThinkClose, Trigger}
  BY DEF Tags
<1>2. CASE d \in Tags \/ d = Trigger
  BY <1>1, <1>2, ApartAssumption DEF ControlsApart, Tags
<1>3. CASE d \in Signals
  BY <1>1, <1>3, SignalBegins, ApartAssumption DEF ControlsApart
<1> QED
  BY <1>2, <1>3

\* Where a tag stands nothing else does, nor inside of it.
LEMMA TagAlone ==
  ASSUME NEW t \in Texts, NEW i \in 0..Len(t), NEW c \in Tags, StandsAt(t, i, c)
  PROVE  /\ \A d \in Tags \union Signals : d # c => Differs(t, i, d)
         /\ \A j \in (i + 1)..(i + Len(c) - 1) : \A d \in Tags \union Signals : Differs(t, j, d)
<1>1. c \in Texts /\ Len(c) \in Nat \ {0} /\ c \in Tags \union {Trigger} /\ Len(t) \in Nat
  BY Controls DEF Tags, Texts
<1>2. i + Len(c) <= Len(t) /\ \A k \in 1..Len(c) : t[i + k] = c[k]
  BY <1>1, StandsIs
<1>3. ASSUME NEW d \in Tags \union {Trigger}, d # c
      PROVE  Differs(t, i, d)
  <2>1. PICK k \in 1..Len(d) : k <= Len(c) /\ d[k] # c[k]
    BY <1>1, <1>3, Apart
  <2>2. Len(d) \in Nat
    BY <1>3, Controls DEF Tags
  <2>3. k \in 1..Len(c) /\ i + k <= Len(t)
    BY <1>1, <1>2, <2>1, <2>2
  <2>4. t[i + k] # d[k]
    BY <1>2, <2>1, <2>3
  <2> QED BY <2>3, <2>4 DEF Differs
<1>4. ASSUME NEW f \in Fences
      PROVE  Differs(t, i, f \o Trigger)
  <2>1. f \o Trigger \in Signals /\ 1 \in 1..Len(f \o Trigger) /\ (f \o Trigger)[1] = f[1] /\ 1 \in 1..Len(f)
    <3>1. f \o Trigger \in Signals
      BY DEF Signals
    <3>2. Len(f \o Trigger) \in Nat \ {0} /\ Len(f) \in Nat \ {0}
      BY <3>1, SignalType, Controls
    <3>3. (f \o Trigger)[1] = f[1]
      BY Controls DEF Texts
    <3> QED BY <3>1, <3>2, <3>3
  <2>2. f[1] # c[1]
    BY <2>1, ApartAssumption DEF ControlsApart, Tags
  <2>3. t[i + 1] = c[1] /\ i + 1 <= Len(t)
    BY <1>1, <1>2
  <2> QED BY <2>1, <2>2, <2>3 DEF Differs
<1>5. ASSUME NEW j \in (i + 1)..(i + Len(c) - 1), NEW d \in Tags \union Signals
      PROVE  Differs(t, j, d)
  <2>1. PICK k : k = j + 1 - i
    OBVIOUS
  <2>2. k \in 2..Len(c) /\ i + k = j + 1 /\ j + 1 <= Len(t)
    BY <1>1, <1>2, <2>1
  <2>3. t[j + 1] = c[k]
    BY <1>1, <1>2, <2>2
  <2>4. 1 \in 1..Len(d)
    BY Controls, SignalType DEF Tags
  <2>5. c[k] # d[1]
    BY <1>1, <2>2, InsideApart
  <2> QED BY <2>2, <2>3, <2>4, <2>5 DEF Differs
<1>6. \A d \in Tags \union Signals : d # c => Differs(t, i, d)
  BY <1>3, <1>4 DEF Signals
<1> QED
  BY <1>5, <1>6

-----------------------------------------------------------------------------
(* Counting tags                                                           *)

\* Where the tag s stands in t between j and i, whole.
Places(t, s, j, i) == {k \in j..(i - Len(s)) : StandsAt(t, k, s)}

\* A count is a number.
LEMMA CountType ==
  ASSUME NEW t, NEW s \in Tags, NEW j \in Nat, NEW i \in Nat
  PROVE  /\ IsFiniteSet(Places(t, s, j, i)) /\ Count(t, s, j, i) = Cardinality(Places(t, s, j, i))
         /\ Count(t, s, j, i) \in Nat
<1>1. Len(s) \in Nat
  BY Controls DEF Tags
<1>2. IsFiniteSet(j..(i - Len(s)))
  BY <1>1, FS_Interval
<1>3. IsFiniteSet(Places(t, s, j, i))
  BY <1>2, FS_Subset DEF Places
<1>4. Count(t, s, j, i) = Cardinality(Places(t, s, j, i))
  BY DEF Count, Places
<1> QED
  BY <1>3, <1>4, FS_CardinalityType

\* No tag that stands in front of p reaches beyond it.
NoneAcross(t, p) ==
  \A k \in 0..(p - 1) : \A s \in Tags : StandsAt(t, k, s) => k + Len(s) <= p

\* From p to q there is at most a tag at p.
LEMMA Advance ==
  ASSUME NEW t \in Texts, NEW p \in Nat, NEW q \in (p + 1)..Len(t), NoneAcross(t, p),
         \A k \in (p + 1)..(q - 1) : \A s \in Tags : ~StandsAt(t, k, s),
         NEW s \in Tags, StandsAt(t, p, s) => p + Len(s) <= q
  PROVE  /\ \A j \in 0..p : Count(t, s, j, q)
                              = Count(t, s, j, p) + (IF StandsAt(t, p, s) THEN 1 ELSE 0)
         /\ \A j \in (p + 1)..q : Count(t, s, j, q) = 0
<1>1. Len(s) \in Nat \ {0} /\ q \in Nat /\ Len(t) \in Nat
  BY Controls DEF Tags, Texts
<1>2. ASSUME NEW j \in (p + 1)..q
      PROVE  Count(t, s, j, q) = 0
  <2>1. ASSUME NEW k \in Places(t, s, j, q)
        PROVE  FALSE
    <3>1. k \in (p + 1)..(q - 1) /\ StandsAt(t, k, s)
      BY <1>1, <2>1 DEF Places
    <3> QED BY <3>1
  <2>2. Places(t, s, j, q) = {}
    BY <2>1
  <2>3. j \in Nat
    BY <1>1
  <2> QED BY <1>1, <2>2, <2>3, CountType, FS_EmptySet
<1>3. ASSUME NEW j \in 0..p
      PROVE  Count(t, s, j, q)
               = Count(t, s, j, p) + (IF StandsAt(t, p, s) THEN 1 ELSE 0)
  <2>1. ASSUME NEW k \in Places(t, s, j, q), k # p
        PROVE  k \in Places(t, s, j, p)
    <3>1. k \in j..(q - Len(s)) /\ StandsAt(t, k, s) /\ k \in 0..(q - 1)
      BY <1>1, <2>1 DEF Places
    <3>2. ~(k \in (p + 1)..(q - 1))
      BY <3>1
    <3>3. k \in 0..(p - 1)
      BY <1>1, <2>1, <3>1, <3>2
    <3>4. k + Len(s) <= p
      BY <3>1, <3>3 DEF NoneAcross
    <3>5. k \in j..(p - Len(s))
      BY <1>1, <3>1, <3>4
    <3> QED BY <3>1, <3>5 DEF Places
  <2>2. ASSUME NEW k \in Places(t, s, j, p)
        PROVE  k \in Places(t, s, j, q) /\ k # p
    BY <1>1, <2>2 DEF Places
  <2>3. p \in Places(t, s, j, q) <=> StandsAt(t, p, s)
    <3>1. ASSUME StandsAt(t, p, s)
          PROVE  p \in j..(q - Len(s))
      BY <1>1, <3>1
    <3> QED BY <3>1 DEF Places
  <2>4. j \in Nat
    BY <1>1
  <2>5. CASE StandsAt(t, p, s)
    <3>1. Places(t, s, j, q) = Places(t, s, j, p) \union {p} /\ p \notin Places(t, s, j, p)
      BY <2>1, <2>2, <2>3, <2>5
    <3>2. Cardinality(Places(t, s, j, q)) = Cardinality(Places(t, s, j, p)) + 1
      BY <1>1, <2>4, <3>1, CountType, FS_AddElement
    <3> QED BY <1>1, <2>4, <2>5, <3>2, CountType
  <2>6. CASE ~StandsAt(t, p, s)
    <3>1. Places(t, s, j, q) = Places(t, s, j, p)
      BY <2>1, <2>2, <2>3, <2>6
    <3>2. Count(t, s, j, q) = Count(t, s, j, p) /\ Count(t, s, j, p) \in Nat
      BY <1>1, <2>4, <3>1, CountType
    <3> QED BY <2>6, <3>2
  <2> QED BY <2>5, <2>6
<1> QED
  BY <1>2, <1>3

\* A count looks no further than its end.
LEMMA CountLater ==
  ASSUME NEW t \in Texts, NEW x \in Texts, NEW s \in Tags, NEW j \in Nat, NEW i \in 0..Len(t)
  PROVE  Count(t \o x, s, j, i) = Count(t, s, j, i)
<1>1. Len(s) \in Nat \ {0} /\ s \in Texts /\ Len(t) \in Nat
  BY Controls DEF Tags, Texts
<1>2. ASSUME NEW k \in j..(i - Len(s))
      PROVE  StandsAt(t \o x, k, s) <=> StandsAt(t, k, s)
  <2>1. k \in 0..Len(t) /\ k + Len(s) <= Len(t)
    BY <1>1
  <2> QED BY <1>1, <2>1, StandsLater
<1> QED
  BY <1>2 DEF Count

-----------------------------------------------------------------------------
(* How deep in thinking a place is                                         *)

\* How many more tags open than close from j to i.
Net(t, j, i) == Count(t, ThinkOpen, j, i) - Count(t, ThinkClose, j, i)

\* What DepthAt chooses, as a relation: the most that opens from any place on.
IsDepth(t, i, n) ==
  /\ n \in 0..i
  /\ \E j \in 0..i : Net(t, j, i) = n
  /\ \A j \in 0..i : Net(t, j, i) <= n

LEMMA NetType ==
  ASSUME NEW t, NEW j \in Nat, NEW i \in Nat
  PROVE  Net(t, j, i) \in Int
<1>1. Count(t, ThinkOpen, j, i) \in Nat /\ Count(t, ThinkClose, j, i) \in Nat
  BY CountType DEF Tags
<1> QED
  BY <1>1 DEF Net

\* There is one depth, and DepthAt is it.
LEMMA DepthIs ==
  ASSUME NEW t \in Texts, NEW i \in 0..Len(t), NEW n, IsDepth(t, i, n)
  PROVE  DepthAt(t, i) = n
<1>1. Len(t) \in Nat
  BY DEF Texts
<1>2. n \in 0..Len(t)
  BY <1>1 DEF IsDepth
<1>3. ASSUME NEW m \in 0..Len(t), \E j \in 0..i : Net(t, j, i) = m, \A j \in 0..i : Net(t, j, i) <= m
      PROVE  m = n
  <2>1. m <= n /\ n <= m
    BY <1>3 DEF IsDepth
  <2> QED BY <1>1, <1>2, <2>1
<1>4. DepthAt(t, i) = CHOOSE m \in 0..Len(t) :
        (\E j \in 0..i : Net(t, j, i) = m) /\ (\A j \in 0..i : Net(t, j, i) <= m)
  BY DEF DepthAt, Net
<1>5. (\E j \in 0..i : Net(t, j, i) = n) /\ (\A j \in 0..i : Net(t, j, i) <= n)
  BY DEF IsDepth
<1> QED
  BY <1>2, <1>3, <1>4, <1>5

LEMMA DepthLater ==
  ASSUME NEW t \in Texts, NEW x \in Texts, NEW i \in 0..Len(t), NEW n, IsDepth(t, i, n)
  PROVE  IsDepth(t \o x, i, n)
<1>1. ASSUME NEW j \in 0..i
      PROVE  Net(t \o x, j, i) = Net(t, j, i)
  <2>1. j \in Nat
    OBVIOUS
  <2> QED BY <2>1, CountLater DEF Net, Tags
<1> QED
  BY <1>1 DEF IsDepth

LEMMA DepthAtStart == ASSUME NEW t \in Texts PROVE IsDepth(t, 0, 0)
<1>1. ASSUME NEW s \in Tags
      PROVE  Count(t, s, 0, 0) = 0
  <2>1. Len(s) \in Nat \ {0}
    BY Controls DEF Tags
  <2>2. Places(t, s, 0, 0) = {}
    BY <2>1 DEF Places
  <2> QED BY <2>2, CountType, FS_EmptySet
<1>2. Net(t, 0, 0) = 0
  BY <1>1 DEF Net, Tags
<1> QED
  BY <1>2 DEF IsDepth

\* A tag, or any other character, moves the depth.
LEMMA DepthMoves ==
  ASSUME NEW t \in Texts, NEW p \in Nat, NEW q \in (p + 1)..Len(t), NoneAcross(t, p),
         \A k \in (p + 1)..(q - 1) : \A s \in Tags : ~StandsAt(t, k, s),
         \A s \in Tags : StandsAt(t, p, s) => p + Len(s) <= q,
         NEW d, IsDepth(t, p, d)
  PROVE  /\ StandsAt(t, p, ThinkOpen) /\ ~StandsAt(t, p, ThinkClose) => IsDepth(t, q, d + 1)
         /\ StandsAt(t, p, ThinkClose) /\ ~StandsAt(t, p, ThinkOpen) =>
              IsDepth(t, q, IF d > 0 THEN d - 1 ELSE d)
         /\ ~StandsAt(t, p, ThinkClose) /\ ~StandsAt(t, p, ThinkOpen) => IsDepth(t, q, d)
<1>1. q \in Nat /\ q > p /\ d \in 0..p
  BY DEF IsDepth
<1>2. PICK o, c : /\ o = IF StandsAt(t, p, ThinkOpen) THEN 1 ELSE 0
                  /\ c = IF StandsAt(t, p, ThinkClose) THEN 1 ELSE 0
  OBVIOUS
<1>3. /\ \A j \in 0..p : Count(t, ThinkOpen, j, q) = Count(t, ThinkOpen, j, p) + o
      /\ \A j \in (p + 1)..q : Count(t, ThinkOpen, j, q) = 0
  BY <1>2, Advance DEF Tags
<1>4. /\ \A j \in 0..p : Count(t, ThinkClose, j, q) = Count(t, ThinkClose, j, p) + c
      /\ \A j \in (p + 1)..q : Count(t, ThinkClose, j, q) = 0
  BY <1>2, Advance DEF Tags
<1>5. \A j \in 0..p : Net(t, j, q) = Net(t, j, p) + o - c /\ Net(t, j, p) \in Int
  <2>1. ASSUME NEW j \in 0..p
        PROVE  Net(t, j, q) = Net(t, j, p) + o - c /\ Net(t, j, p) \in Int
    <3>1. Count(t, ThinkOpen, j, p) \in Nat /\ Count(t, ThinkClose, j, p) \in Nat
      <4>1. j \in Nat
        OBVIOUS
      <4> QED BY <4>1, CountType DEF Tags
    <3>2. o \in {0, 1} /\ c \in {0, 1}
      BY <1>2
    <3> QED BY <1>3, <1>4, <3>1, <3>2 DEF Net
  <2> QED BY <2>1
<1>6. \A j \in (p + 1)..q : Net(t, j, q) = 0
  BY <1>3, <1>4 DEF Net
<1>7. (\E j \in 0..p : Net(t, j, p) = d) /\ (\A j \in 0..p : Net(t, j, p) <= d)
  BY DEF IsDepth
<1>8. PICK e : e = d + o - c
  OBVIOUS
<1>9. (\E j \in 0..p : Net(t, j, q) = e) /\ (\A j \in 0..p : Net(t, j, q) <= e) /\ e \in Int
  <2>1. o \in {0, 1} /\ c \in {0, 1}
    BY <1>2
  <2>2. \A j \in 0..p : Net(t, j, q) <= e
    BY <1>1, <1>5, <1>7, <1>8, <2>1
  <2>3. \E j \in 0..p : Net(t, j, q) = e
    BY <1>5, <1>7, <1>8
  <2> QED BY <1>1, <1>8, <2>1, <2>2, <2>3
<1>10. q \in (p + 1)..q
  BY <1>1
<1>11. \A j \in 0..q : j \in 0..p \/ j \in (p + 1)..q
  BY <1>1
<1>12. 0..p \subseteq 0..q /\ (p + 1)..q \subseteq 0..q
  BY <1>1
<1>13. ASSUME e >= 0, e <= q
       PROVE  IsDepth(t, q, e)
  <2>1. e \in 0..q
    BY <1>1, <1>9, <1>13
  <2>2. \E j \in 0..q : Net(t, j, q) = e
    BY <1>9, <1>12
  <2>3. ASSUME NEW j \in 0..q
        PROVE  Net(t, j, q) <= e
    BY <1>6, <1>9, <1>11, <1>13
  <2> QED BY <2>1, <2>2, <2>3 DEF IsDepth
<1>14. ASSUME e < 0
       PROVE  IsDepth(t, q, 0)
  <2>1. 0 \in 0..q
    BY <1>1
  <2>2. \E j \in 0..q : Net(t, j, q) = 0
    BY <1>6, <1>10, <1>12
  <2>3. ASSUME NEW j \in 0..q
        PROVE  Net(t, j, q) <= 0
    <3>1. CASE j \in 0..p
      <4>1. Net(t, j, q) <= e /\ Net(t, j, q) \in Int
        BY <1>1, <1>9, <3>1, NetType
      <4> QED BY <1>9, <1>14, <4>1
    <3>2. CASE j \in (p + 1)..q
      BY <1>6, <3>2
    <3> QED BY <1>11, <3>1, <3>2
  <2> QED BY <2>1, <2>2, <2>3 DEF IsDepth
<1>15. ASSUME StandsAt(t, p, ThinkOpen), ~StandsAt(t, p, ThinkClose)
       PROVE  IsDepth(t, q, d + 1)
  <2>1. o = 1 /\ c = 0
    BY <1>2, <1>15
  <2>2. e = d + 1 /\ e >= 0 /\ e <= q
    BY <1>1, <1>8, <2>1
  <2> QED BY <1>13, <2>2
<1>16. ASSUME StandsAt(t, p, ThinkClose), ~StandsAt(t, p, ThinkOpen)
       PROVE  IsDepth(t, q, IF d > 0 THEN d - 1 ELSE d)
  <2>1. o = 0 /\ c = 1
    BY <1>2, <1>16
  <2>2. e = d - 1
    BY <1>1, <1>8, <2>1
  <2>3. CASE d > 0
    <3>1. e >= 0 /\ e <= q
      BY <1>1, <2>2, <2>3
    <3> QED BY <1>13, <2>2, <2>3, <3>1
  <2>4. CASE ~(d > 0)
    <3>1. d = 0 /\ e < 0
      BY <1>1, <2>2, <2>4
    <3> QED BY <1>14, <2>4, <3>1
  <2> QED BY <2>3, <2>4
<1>17. ASSUME ~StandsAt(t, p, ThinkClose), ~StandsAt(t, p, ThinkOpen)
       PROVE  IsDepth(t, q, d)
  <2>1. o = 0 /\ c = 0
    BY <1>2, <1>17
  <2>2. e = d /\ e >= 0 /\ e <= q
    BY <1>1, <1>8, <2>1
  <2> QED BY <1>13, <2>2
<1> QED
  BY <1>15, <1>16, <1>17

-----------------------------------------------------------------------------
(* The loop of ProcessChunk                                                *)

\* Why the loop goes on from i, for good.
Passed(t, i, p) ==
  /\ \A c \in Tags : (StandsAt(t, i, c) /\ i + Len(c) <= p) \/ Differs(t, i, c)
  /\ (\A c \in Signals : Differs(t, i, c)) \/ \E n \in Nat \ {0} : IsDepth(t, i, n)

\* What holds when the loop has come to p in t, at depth d.
ScanInv(t, p, d) ==
  /\ p \in 0..Len(t) /\ IsDepth(t, p, d)
  /\ \A i \in 0..(p - 1) : Passed(t, i, p)

\* No tag reaches over where the loop is.
LEMMA ScanAcross ==
  ASSUME NEW t \in Texts, NEW p, NEW d, ScanInv(t, p, d)
  PROVE  NoneAcross(t, p)
<1>1. Len(t) \in Nat /\ p \in 0..Len(t)
  BY DEF ScanInv, Texts
<1>2. ASSUME NEW k \in 0..(p - 1), NEW s \in Tags, StandsAt(t, k, s)
      PROVE  k + Len(s) <= p
  <2>1. (StandsAt(t, k, s) /\ k + Len(s) <= p) \/ Differs(t, k, s)
    BY <1>2 DEF ScanInv, Passed
  <2>2. k \in 0..Len(t) /\ s \in Texts
    BY <1>1, Controls DEF Tags
  <2> QED BY <1>2, <2>1, <2>2, DiffersIs
<1> QED
  BY <1>2 DEF NoneAcross

\* More text does not disturb what was scanned.
LEMMA ScanLater ==
  ASSUME NEW t \in Texts, NEW x \in Texts, NEW p, NEW d, ScanInv(t, p, d)
  PROVE  ScanInv(t \o x, p, d)
<1>1. /\ p \in 0..Len(t) /\ IsDepth(t, p, d) /\ \A i \in 0..(p - 1) : Passed(t, i, p)
      /\ Len(t) \in Nat /\ Len(x) \in Nat /\ Len(t \o x) = Len(t) + Len(x)
  BY TextGrows DEF ScanInv
<1>2. p \in 0..Len(t \o x) /\ IsDepth(t \o x, p, d)
  BY <1>1, DepthLater
<1>3. ASSUME NEW i \in 0..(p - 1)
      PROVE  Passed(t \o x, i, p)
  <2>1. i \in 0..Len(t) /\ Passed(t, i, p)
    BY <1>1
  <2>2. ASSUME NEW c \in Tags
        PROVE  (StandsAt(t \o x, i, c) /\ i + Len(c) <= p) \/ Differs(t \o x, i, c)
    BY <2>1, StandsLater, Controls DEF Passed, Tags
  <2>3. (\A c \in Signals : Differs(t \o x, i, c)) \/ \E n \in Nat \ {0} : IsDepth(t \o x, i, n)
    <3>1. CASE \A c \in Signals : Differs(t, i, c)
      BY <2>1, <3>1, StandsLater, SignalType
    <3>2. CASE \E n \in Nat \ {0} : IsDepth(t, i, n)
      BY <2>1, <3>2, DepthLater
    <3> QED BY <2>1, <3>1, <3>2 DEF Passed
  <2> QED BY <2>2, <2>3 DEF Passed
<1> QED
  BY <1>2, <1>3 DEF ScanInv

LEMMA PassedLater ==
  ASSUME NEW t \in Texts, NEW i \in Nat, NEW p \in Nat, NEW q \in Nat, p <= q, Passed(t, i, p)
  PROVE  Passed(t, i, q)
<1>1. ASSUME NEW c \in Tags
      PROVE  (StandsAt(t, i, c) /\ i + Len(c) <= q) \/ Differs(t, i, c)
  <2>1. Len(c) \in Nat
    BY Controls DEF Tags
  <2>2. i + Len(c) <= p => i + Len(c) <= q
    BY <2>1
  <2> QED BY <2>2 DEF Passed
<1> QED
  BY <1>1 DEF Passed

\* The loop goes over a tag, all of it.
LEMMA PassTag ==
  ASSUME NEW t \in Texts, NEW p, NEW d, ScanInv(t, p, d), NEW c \in Tags, StandsAt(t, p, c)
  PROVE  ScanInv(t, p + Len(c), IF c = ThinkOpen THEN d + 1 ELSE IF d > 0 THEN d - 1 ELSE d)
<1>1. p \in 0..Len(t) /\ IsDepth(t, p, d) /\ Len(t) \in Nat
  BY DEF ScanInv, Texts
<1>2. Len(c) \in Nat \ {0} /\ c \in Texts
  BY Controls DEF Tags
<1>3. PICK q : q = p + Len(c)
  OBVIOUS
<1>4. p + Len(c) <= Len(t)
  BY <1>1, <1>2, StandsIs
<1>5. q \in (p + 1)..Len(t) /\ q \in Nat /\ p \in Nat
  BY <1>1, <1>2, <1>3, <1>4
<1>6. /\ \A e \in Tags \union Signals : e # c => Differs(t, p, e)
      /\ \A j \in (p + 1)..(q - 1) : \A e \in Tags \union Signals : Differs(t, j, e)
  BY <1>1, <1>3, TagAlone
<1>7. \A k \in (p + 1)..(q - 1) : \A s \in Tags : ~StandsAt(t, k, s)
  <2>1. ASSUME NEW k \in (p + 1)..(q - 1), NEW s \in Tags
        PROVE  ~StandsAt(t, k, s)
    <3>1. k \in 0..Len(t) /\ s \in Texts /\ Differs(t, k, s)
      BY <1>1, <1>5, <1>6, Controls DEF Tags
    <3> QED BY <3>1, DiffersIs
  <2> QED BY <2>1
<1>8. \A s \in Tags : s # c => ~StandsAt(t, p, s)
  BY <1>1, <1>6, DiffersIs, Controls DEF Tags
<1>9. \A s \in Tags : StandsAt(t, p, s) => p + Len(s) <= q
  BY <1>3, <1>5, <1>8, <1>2
<1>10. NoneAcross(t, p)
  BY ScanAcross
<1>11. ThinkOpen # ThinkClose
  BY ApartAssumption DEF ControlsApart
<1>12. IsDepth(t, q, IF c = ThinkOpen THEN d + 1 ELSE IF d > 0 THEN d - 1 ELSE d)
  <2>1. /\ StandsAt(t, p, ThinkOpen) /\ ~StandsAt(t, p, ThinkClose) => IsDepth(t, q, d + 1)
        /\ StandsAt(t, p, ThinkClose) /\ ~StandsAt(t, p, ThinkOpen) =>
              IsDepth(t, q, IF d > 0 THEN d - 1 ELSE d)
    BY <1>1, <1>5, <1>7, <1>9, <1>10, DepthMoves
  <2>2. CASE c = ThinkOpen
    BY <1>8, <1>11, <2>1, <2>2 DEF Tags
  <2>3. CASE c = ThinkClose
    <3>1. IsDepth(t, q, IF d > 0 THEN d - 1 ELSE d)
      BY <1>8, <1>11, <2>1, <2>3 DEF Tags
    <3> QED BY <1>11, <2>3, <3>1
  <2> QED BY <2>2, <2>3 DEF Tags
<1>13. ASSUME NEW i \in 0..(q - 1)
       PROVE  Passed(t, i, q)
  <2>1. CASE i \in 0..(p - 1)
    <3>1. Passed(t, i, p) /\ i \in Nat /\ p <= q
      BY <1>5, <2>1 DEF ScanInv
    <3> QED BY <1>5, <3>1, PassedLater
  <2>2. CASE i = p
    <3>1. ASSUME NEW e \in Tags
          PROVE  (StandsAt(t, i, e) /\ i + Len(e) <= q) \/ Differs(t, i, e)
      BY <1>3, <1>5, <1>6, <2>2
    <3>2. \A e \in Signals : Differs(t, i, e)
      <4>1. c \notin Signals
        <5>1. ASSUME NEW f \in Fences
              PROVE  c # f \o Trigger
          <6>1. c[1] # f[1]
            <7>1. f[1] # c[1]
              BY Controls, ApartAssumption DEF ControlsApart, Tags
            <7> QED BY <7>1
          <6>2. (f \o Trigger)[1] = f[1]
            BY Controls DEF Texts
          <6> QED BY <6>1, <6>2
        <5>2. c # Trigger
          BY ApartAssumption DEF ControlsApart, Tags
        <5> QED BY <5>1, <5>2 DEF Signals
      <4> QED BY <1>6, <2>2, <4>1
    <3> QED BY <3>1, <3>2 DEF Passed
  <2>3. CASE i \in (p + 1)..(q - 1)
    BY <1>6, <2>3 DEF Passed
  <2>4. i \in 0..(p - 1) \/ i = p \/ i \in (p + 1)..(q - 1)
    BY <1>5
  <2> QED BY <2>1, <2>2, <2>3, <2>4
<1>14. q \in 0..Len(t)
  BY <1>5
<1> QED
  BY <1>3, <1>12, <1>13, <1>14 DEF ScanInv

\* The loop goes over a character that begins nothing.
LEMMA PassCharacter ==
  ASSUME NEW t \in Texts, NEW p, NEW d, ScanInv(t, p, d), p < Len(t),
         \A c \in Tags : Differs(t, p, c),
         (\A c \in Signals : Differs(t, p, c)) \/ d > 0
  PROVE  ScanInv(t, p + 1, d)
<1>1. p \in 0..Len(t) /\ IsDepth(t, p, d) /\ Len(t) \in Nat
  BY DEF ScanInv, Texts
<1>2. PICK q : q = p + 1
  OBVIOUS
<1>3. q \in (p + 1)..Len(t) /\ q \in Nat /\ p \in Nat /\ (p + 1)..(q - 1) = {}
  BY <1>1, <1>2
<1>4. \A s \in Tags : ~StandsAt(t, p, s)
  BY <1>1, DiffersIs, Controls DEF Tags
<1>5. NoneAcross(t, p)
  BY ScanAcross
<1>6. IsDepth(t, q, d)
  BY <1>1, <1>3, <1>4, <1>5, DepthMoves DEF Tags
<1>7. ASSUME NEW i \in 0..(q - 1)
      PROVE  Passed(t, i, q)
  <2>1. CASE i \in 0..(p - 1)
    <3>1. Passed(t, i, p) /\ i \in Nat /\ p <= q
      BY <1>2, <1>3, <2>1 DEF ScanInv
    <3> QED BY <1>3, <3>1, PassedLater
  <2>2. CASE i = p
    <3>1. d > 0 => d \in Nat \ {0}
      BY <1>1 DEF IsDepth
    <3> QED BY <1>1, <2>2, <3>1 DEF Passed
  <2>3. i \in 0..(p - 1) \/ i = p
    BY <1>2, <1>3
  <2> QED BY <2>1, <2>2, <2>3
<1>8. q \in 0..Len(t)
  BY <1>3
<1> QED
  BY <1>2, <1>6, <1>7, <1>8 DEF ScanInv

\* What neither is a tag nor can become one is something else for good.
LEMMA Decided ==
  ASSUME NEW t \in Texts, NEW i \in 0..Len(t), NEW c \in Texts, ~StandsAt(t, i, c),
         ~(Len(Rest(t, i)) < Len(c) /\ HasPrefix(c, Rest(t, i)))
  PROVE  Differs(t, i, c)
<1>1. SUFFICES ASSUME \A k \in 1..Len(c) : i + k <= Len(t) => t[i + k] = c[k]
               PROVE  FALSE
  BY DEF Differs
<1>2. PICK r : r = Rest(t, i)
  OBVIOUS
<1>3. r \in Texts /\ Len(r) = Len(t) - i /\ \A k \in 1..(Len(t) - i) : r[k] = t[i + k]
  BY <1>2, RestIs
<1>4. Len(t) \in Nat /\ Len(c) \in Nat
  BY DEF Texts
<1>5. CASE Len(c) <= Len(r)
  <2>1. i + Len(c) <= Len(t) /\ \A k \in 1..Len(c) : i + k <= Len(t)
    BY <1>3, <1>4, <1>5
  <2> QED BY <1>1, <2>1, StandsIs
<1>6. CASE Len(r) < Len(c)
  <2>1. ASSUME NEW k \in 1..Len(r)
        PROVE  c[k] = r[k]
    <3>1. k \in 1..Len(c) /\ i + k <= Len(t) /\ k \in 1..(Len(t) - i)
      BY <1>3, <1>4, <1>6
    <3> QED BY <1>1, <1>3, <3>1
  <2>2. Len(r) <= Len(c)
    BY <1>3, <1>4, <1>6
  <2>3. HasPrefix(c, r)
    BY <1>3, <2>1, <2>2, PrefixIs
  <2> QED BY <1>2, <1>6, <2>3
<1> QED
  BY <1>3, <1>4, <1>5, <1>6

LEMMA OffsetIs ==
  ASSUME NEW t, NEW i
  PROVE  ToolTriggerOffset(Rest(t, i)) # {} <=> \E c \in Signals : StandsAt(t, i, c)
BY DEF ToolTriggerOffset, Signals, StandsAt

\* A turn of the loop at i and d, and f for the turns behind it.
ScanTurn(f, b, i, d) ==
  LET rest == Rest(b, i) IN
  IF rest = <<>> THEN [at |-> i, depth |-> d, offset |-> {}]
  ELSE IF HasPrefix(rest, ThinkOpen) THEN f[<<i + Len(ThinkOpen), d + 1>>]
  ELSE IF HasPrefix(rest, ThinkClose)
       THEN f[<<i + Len(ThinkClose), IF d > 0 THEN d - 1 ELSE d>>]
  ELSE IF d = 0 /\ ToolTriggerOffset(rest) # {}
       THEN [at |-> i, depth |-> d, offset |-> ToolTriggerOffset(rest)]
  ELSE IF ShouldHoldForPossibleControlPrefix(rest)
       THEN [at |-> i, depth |-> d, offset |-> {}]
  ELSE f[<<i + 1, d>>]

\* f is the loop from n on.
IsLoop(f, b, n) == f = [s \in (n..Len(b)) \X Nat |-> ScanTurn(f, b, s[1], s[2])]

\* Scan is where a loop from the start of the buffer stops.
LEMMA ScanIs ==
  ASSUME NEW b, NEW d0
  PROVE  Scan(b, d0) = (CHOOSE f : IsLoop(f, b, 0))[<<0, d0>>]
BY DEF Scan, IsLoop, ScanTurn

LEMMA LoopAt ==
  ASSUME NEW f, NEW b, NEW n, IsLoop(f, b, n), NEW i \in n..Len(b), NEW d \in Nat
  PROVE  f[<<i, d>>] = ScanTurn(f, b, i, d)
<1>1. f = [s \in (n..Len(b)) \X Nat |-> ScanTurn(f, b, s[1], s[2])]
  BY DEF IsLoop
<1>2. [s \in (n..Len(b)) \X Nat |-> ScanTurn(f, b, s[1], s[2])][<<i, d>>] = ScanTurn(f, b, i, d)
  OBVIOUS
<1>3. PICK g : g = [s \in (n..Len(b)) \X Nat |-> ScanTurn(f, b, s[1], s[2])]
  OBVIOUS
<1>4. g[<<i, d>>] = ScanTurn(f, b, i, d)
  BY <1>2, <1>3
<1> QED
  BY <1>1, <1>3, <1>4

\* A set of natural numbers has a least one.
LEMMA LeastNatural ==
  ASSUME NEW T \in SUBSET Nat, T # {}
  PROVE  \E x \in T : \A y \in T : x <= y
<1> DEFINE R == {ss \in Nat \X Nat : ss[1] < ss[2]}
<1>1. IsWellFoundedOn(OpToRel(<, Nat), Nat)
  BY NatLessThanWellFounded
<1>2. OpToRel(<, Nat) = R
  BY DEF OpToRel
<1>3. PICK x \in T : \A y \in T : ~(<<y, x>> \in R)
  BY <1>1, <1>2, WFMin
<1>4. ASSUME NEW y \in T
      PROVE  x <= y
  <2>1. x \in Nat /\ y \in Nat /\ ~(<<y, x>> \in R)
    BY <1>3
  <2>2. ~(y < x)
    BY <2>1
  <2> QED
    BY <2>1, <2>2
<1> QED
  BY <1>4

\* Where a turn of the loop goes on is behind it, and in the buffer.
LEMMA TurnGoesOn ==
  ASSUME NEW b \in Texts, NEW i \in 0..Len(b), NEW d \in Nat
  PROVE  /\ HasPrefix(Rest(b, i), ThinkOpen) => i + Len(ThinkOpen) \in (i + 1)..Len(b)
         /\ HasPrefix(Rest(b, i), ThinkClose) => i + Len(ThinkClose) \in (i + 1)..Len(b)
         /\ Rest(b, i) # <<>> => i + 1 \in (i + 1)..Len(b)
         /\ d + 1 \in Nat /\ (IF d > 0 THEN d - 1 ELSE d) \in Nat
<1>1. Len(Rest(b, i)) = Len(b) - i /\ Len(b) \in Nat /\ Rest(b, i) \in Seq(Char)
  BY RestIs DEF Texts
<1>2. Rest(b, i) # <<>> => i < Len(b)
  BY <1>1
<1>3. Len(ThinkOpen) \in Nat \ {0} /\ Len(ThinkClose) \in Nat \ {0}
  BY Controls
<1>4. ASSUME HasPrefix(Rest(b, i), ThinkOpen)
      PROVE  i + Len(ThinkOpen) \in (i + 1)..Len(b)
  <2>1. Len(ThinkOpen) <= Len(b) - i
    BY <1>1, <1>4 DEF HasPrefix
  <2> QED BY <1>1, <1>3, <2>1
<1>5. ASSUME HasPrefix(Rest(b, i), ThinkClose)
      PROVE  i + Len(ThinkClose) \in (i + 1)..Len(b)
  <2>1. Len(ThinkClose) <= Len(b) - i
    BY <1>1, <1>5 DEF HasPrefix
  <2> QED BY <1>1, <1>3, <2>1
<1>6. Rest(b, i) # <<>> => i + 1 \in (i + 1)..Len(b)
  BY <1>1, <1>2
<1> QED
  BY <1>4, <1>5, <1>6

\* A turn asks only for turns behind it.
LEMMA TurnSame ==
  ASSUME NEW b \in Texts, NEW i \in 0..Len(b), NEW d \in Nat, NEW f, NEW g,
         \A k \in (i + 1)..Len(b), e \in Nat : f[<<k, e>>] = g[<<k, e>>]
  PROVE  ScanTurn(f, b, i, d) = ScanTurn(g, b, i, d)
<1>1. /\ HasPrefix(Rest(b, i), ThinkOpen) =>
           f[<<i + Len(ThinkOpen), d + 1>>] = g[<<i + Len(ThinkOpen), d + 1>>]
      /\ HasPrefix(Rest(b, i), ThinkClose) =>
           f[<<i + Len(ThinkClose), IF d > 0 THEN d - 1 ELSE d>>]
             = g[<<i + Len(ThinkClose), IF d > 0 THEN d - 1 ELSE d>>]
      /\ Rest(b, i) # <<>> => f[<<i + 1, d>>] = g[<<i + 1, d>>]
  BY TurnGoesOn
<1> QED
  BY <1>1, Zenon DEF ScanTurn

\* The loop ends, so what it comes to exists.
LEMMA LoopExists ==
  ASSUME NEW b \in Texts
  PROVE  \E f : IsLoop(f, b, 0)
<1> DEFINE N == Len(b)
           T == {m \in 0..N : \E f : IsLoop(f, b, m)}
<1>1. N \in Nat
  BY DEF Texts
<1>2. N \in T
  <2>1. PICK f : f = [s \in (N..N) \X Nat |-> [at |-> s[1], depth |-> s[2], offset |-> {}]]
    OBVIOUS
  <2>2. Rest(b, N) = <<>>
    <3>1. Len(Rest(b, N)) = 0 /\ Rest(b, N) \in Seq(Char)
      BY <1>1, RestIs DEF Texts
    <3> QED BY <3>1
  <2>3. ASSUME NEW s \in (N..N) \X Nat
        PROVE  ScanTurn(f, b, s[1], s[2]) = [at |-> s[1], depth |-> s[2], offset |-> {}]
    <3>1. s[1] = N
      BY <1>1, <2>3
    <3> QED BY <2>2, <3>1 DEF ScanTurn
  <2>4. [s \in (N..N) \X Nat |-> ScanTurn(f, b, s[1], s[2])]
          = [s \in (N..N) \X Nat |-> [at |-> s[1], depth |-> s[2], offset |-> {}]]
    BY <2>3
  <2>5. IsLoop(f, b, N)
    BY <2>1, <2>4 DEF IsLoop
  <2> QED BY <1>1, <2>5
<1>3. PICK m \in T : \A k \in T : m <= k
  <2>1. T \in SUBSET Nat /\ T # {}
    BY <1>1, <1>2
  <2> HIDE DEF T
  <2> QED BY <2>1, LeastNatural
<1>4. m \in 0..N /\ \E f : IsLoop(f, b, m)
  BY <1>3
<1>5. CASE m > 0
  <2>1. PICK f : IsLoop(f, b, m)
    BY <1>4
  <2>2. PICK n : n = m - 1
    OBVIOUS
  <2>3. n \in 0..N /\ n + 1 = m /\ \A i \in n..N : i = n \/ i \in m..N
    BY <1>1, <1>4, <1>5, <2>2
  <2>4. PICK g : g = [s \in (n..N) \X Nat |-> IF s[1] = n THEN ScanTurn(f, b, s[1], s[2]) ELSE f[s]]
    OBVIOUS
  <2>5. ASSUME NEW k \in m..N, NEW e \in Nat
        PROVE  g[<<k, e>>] = f[<<k, e>>]
    <3>1. k \in n..N /\ k # n
      BY <1>1, <1>4, <2>3, <2>5
    <3> QED BY <2>4, <3>1
  <2>6. ASSUME NEW i \in n..N, NEW d \in Nat
        PROVE  ScanTurn(g, b, i, d) = g[<<i, d>>]
    <3>1. i \in 0..Len(b) /\ (i + 1)..Len(b) \subseteq m..N
      BY <1>1, <2>3
    <3>2. ScanTurn(g, b, i, d) = ScanTurn(f, b, i, d)
      BY <2>5, <3>1, TurnSame
    <3>3. CASE i = n
      <4>1. g[<<i, d>>] = ScanTurn(f, b, i, d)
        BY <2>4, <3>3
      <4> QED BY <3>2, <4>1
    <3>4. CASE i \in m..N
      <4>1. f[<<i, d>>] = ScanTurn(f, b, i, d)
        BY <2>1, <3>4, LoopAt
      <4> QED BY <2>5, <3>2, <3>4, <4>1
    <3> QED BY <2>3, <3>3, <3>4
  <2>7. IsLoop(g, b, n)
    <3>1. ASSUME NEW s \in (n..N) \X Nat
          PROVE  ScanTurn(g, b, s[1], s[2]) = g[s]
      <4>1. s = <<s[1], s[2]>> /\ s[1] \in n..N /\ s[2] \in Nat
        OBVIOUS
      <4>2. ScanTurn(g, b, s[1], s[2]) = g[<<s[1], s[2]>>]
        BY <2>6, <4>1
      <4> QED BY <4>1, <4>2
    <3>2. g = [s \in (n..N) \X Nat |-> g[s]]
      BY <2>4
    <3>3. [s \in (n..N) \X Nat |-> ScanTurn(g, b, s[1], s[2])] = [s \in (n..N) \X Nat |-> g[s]]
      BY <3>1
    <3> QED BY <3>2, <3>3 DEF IsLoop
  <2>8. n \in T
    BY <2>3, <2>7
  <2>9. m <= n
    BY <1>3, <2>8
  <2>10. m \in Nat
    BY <1>1, <1>4
  <2> QED BY <2>2, <2>9, <2>10
<1>6. CASE m = 0
  BY <1>4, <1>6
<1> QED
  BY <1>1, <1>4, <1>5, <1>6

\* What is left of a text is left of its end.
LEMMA RestOfText ==
  ASSUME NEW y \in Texts, NEW b \in Texts, NEW i \in 0..Len(b)
  PROVE  Rest(y \o b, Len(y) + i) = Rest(b, i) /\ Len(y) + i \in 0..Len(y \o b)
<1>1. PICK t, p : t = y \o b /\ p = Len(y) + i
  OBVIOUS
<1>2. t \in Texts /\ p \in 0..Len(t) /\ Len(t) = Len(y) + Len(b) /\ Len(b) \in Nat /\ Len(y) \in Nat
  BY <1>1 DEF Texts
<1>3. PICK u, v : u = Rest(t, p) /\ v = Rest(b, i)
  OBVIOUS
<1>4. u \in Texts /\ Len(u) = Len(t) - p /\ \A k \in 1..(Len(t) - p) : u[k] = t[p + k]
  BY <1>2, <1>3, RestIs
<1>5. v \in Texts /\ Len(v) = Len(b) - i /\ \A k \in 1..(Len(b) - i) : v[k] = b[i + k]
  BY <1>3, RestIs
<1>6. Len(u) = Len(v)
  BY <1>1, <1>2, <1>4, <1>5
<1>7. ASSUME NEW k \in 1..Len(u)
      PROVE  u[k] = v[k]
  <2>1. k \in 1..(Len(t) - p) /\ k \in 1..(Len(b) - i)
    BY <1>4, <1>5, <1>6
  <2>2. PICK m : m = i + k
    OBVIOUS
  <2>3. m \in 1..Len(b) /\ p + k = Len(y) + m
    BY <1>1, <1>2, <2>1, <2>2
  <2>4. t[Len(y) + m] = b[m]
    BY <1>1, <1>2, <2>3, SMTT(30) DEF Texts
  <2>5. u[k] = t[p + k] /\ v[k] = b[m]
    BY <1>4, <1>5, <2>1, <2>2
  <2> QED BY <2>3, <2>4, <2>5
<1>8. u = v
  BY <1>4, <1>5, <1>6, <1>7, SeqEqual DEF Texts
<1> QED
  BY <1>1, <1>2, <1>3, <1>8

\* Why and where the loop stops, in the buffer b at the end of the text t.
StopsAt(t, b, r) ==
  /\ r.at \in 0..Len(b) /\ ScanInv(t, Len(t) - Len(b) + r.at, r.depth)
  /\ \/ /\ r.offset = {}
        /\ Rest(b, r.at) = <<>> \/ ShouldHoldForPossibleControlPrefix(Rest(b, r.at))
     \/ /\ r.offset = ToolTriggerOffset(Rest(b, r.at)) /\ r.offset # {}
        /\ r.depth = 0

\* A turn keeps the invariant of the loop, and what it stops with is right.
LEMMA TurnStops ==
  ASSUME NEW y \in Texts, NEW b \in Texts, NEW t, t = y \o b, NEW i \in 0..Len(b), NEW d \in Nat,
         ScanInv(t, Len(y) + i, d), NEW f,
         \A k \in (i + 1)..Len(b), e \in Nat :
            ScanInv(t, Len(y) + k, e) => StopsAt(t, b, f[<<k, e>>])
  PROVE  StopsAt(t, b, ScanTurn(f, b, i, d))
<1>1. PICK p, rest : p = Len(y) + i /\ rest = Rest(b, i)
  OBVIOUS
<1>2. /\ t \in Texts /\ Len(t) = Len(y) + Len(b) /\ Len(b) \in Nat /\ Len(y) \in Nat
      /\ p \in 0..Len(t) /\ Rest(t, p) = rest /\ ScanInv(t, p, d)
      /\ Len(t) - Len(b) + i = p
  <2>1. t \in Texts /\ Len(t) = Len(y) + Len(b) /\ Len(b) \in Nat /\ Len(y) \in Nat
    BY DEF Texts
  <2>2. p \in 0..Len(t) /\ Rest(t, p) = rest /\ ScanInv(t, p, d)
    BY <1>1, RestOfText
  <2>3. Len(t) - Len(b) + i = p
    BY <1>1, <2>1
  <2> QED BY <2>1, <2>2, <2>3
<1>3. \A c : StandsAt(t, p, c) <=> HasPrefix(rest, c)
  BY <1>2 DEF StandsAt
<1>4. ASSUME NEW c \in Tags, StandsAt(t, p, c)
      PROVE  LET e == IF c = ThinkOpen THEN d + 1 ELSE IF d > 0 THEN d - 1 ELSE d
             IN  StopsAt(t, b, f[<<i + Len(c), e>>])
  <2>1. PICK e : e = IF c = ThinkOpen THEN d + 1 ELSE IF d > 0 THEN d - 1 ELSE d
    OBVIOUS
  <2>2. e \in Nat
    BY <2>1
  <2>3. ScanInv(t, p + Len(c), e)
    BY <1>2, <1>4, <2>1, PassTag
  <2>4. i + Len(c) \in (i + 1)..Len(b)
    BY <1>1, <1>3, <1>4, TurnGoesOn DEF Tags
  <2>5. Len(c) \in Nat
    BY Controls DEF Tags
  <2>6. PICK k : k = i + Len(c)
    OBVIOUS
  <2>7. p + Len(c) = Len(y) + k
    BY <1>1, <1>2, <2>5, <2>6
  <2>8. ScanInv(t, Len(y) + k, e) /\ k \in (i + 1)..Len(b)
    BY <2>3, <2>4, <2>6, <2>7
  <2>9. StopsAt(t, b, f[<<k, e>>])
    BY <2>2, <2>8
  <2> QED BY <2>1, <2>6, <2>9
<1>5. ThinkOpen # ThinkClose
  BY ApartAssumption DEF ControlsApart
<1>6. CASE rest = <<>>
  <2>1. PICK r : r = [at |-> i, depth |-> d, offset |-> {}]
    OBVIOUS
  <2>2. ScanTurn(f, b, i, d) = r
    BY <1>1, <1>6, <2>1 DEF ScanTurn
  <2>3. r.at = i /\ r.depth = d /\ r.offset = {}
    BY <2>1
  <2>4. StopsAt(t, b, r)
    BY <1>1, <1>2, <1>6, <2>3 DEF StopsAt
  <2> QED BY <2>2, <2>4
<1>7. CASE rest # <<>> /\ HasPrefix(rest, ThinkOpen)
  <2>1. ScanTurn(f, b, i, d) = f[<<i + Len(ThinkOpen), d + 1>>]
    BY <1>1, <1>7 DEF ScanTurn
  <2>2. ThinkOpen \in Tags /\ StandsAt(t, p, ThinkOpen)
    BY <1>3, <1>7 DEF Tags
  <2> QED BY <1>4, <2>1, <2>2
<1>8. CASE rest # <<>> /\ ~HasPrefix(rest, ThinkOpen) /\ HasPrefix(rest, ThinkClose)
  <2>1. ScanTurn(f, b, i, d) = f[<<i + Len(ThinkClose), IF d > 0 THEN d - 1 ELSE d>>]
    BY <1>1, <1>8 DEF ScanTurn
  <2>2. ThinkClose \in Tags /\ StandsAt(t, p, ThinkClose)
    BY <1>3, <1>8 DEF Tags
  <2> QED BY <1>4, <1>5, <2>1, <2>2
<1>9. CASE /\ rest # <<>> /\ ~HasPrefix(rest, ThinkOpen) /\ ~HasPrefix(rest, ThinkClose)
           /\ d = 0 /\ ToolTriggerOffset(rest) # {}
  <2>1. PICK r : r = [at |-> i, depth |-> d, offset |-> ToolTriggerOffset(rest)]
    OBVIOUS
  <2>2. ScanTurn(f, b, i, d) = r
    BY <1>1, <1>9, <2>1 DEF ScanTurn
  <2>3. r.at = i /\ r.depth = d /\ r.offset = ToolTriggerOffset(rest)
    BY <2>1
  <2>4. StopsAt(t, b, r)
    BY <1>1, <1>2, <1>9, <2>3 DEF StopsAt
  <2> QED BY <2>2, <2>4
<1>10. CASE /\ rest # <<>> /\ ~HasPrefix(rest, ThinkOpen) /\ ~HasPrefix(rest, ThinkClose)
            /\ ~(d = 0 /\ ToolTriggerOffset(rest) # {})
            /\ ShouldHoldForPossibleControlPrefix(rest)
  <2>1. PICK r : r = [at |-> i, depth |-> d, offset |-> {}]
    OBVIOUS
  <2>2. ScanTurn(f, b, i, d) = r
    BY <1>1, <1>10, <2>1 DEF ScanTurn
  <2>3. r.at = i /\ r.depth = d /\ r.offset = {}
    BY <2>1
  <2>4. StopsAt(t, b, r)
    BY <1>1, <1>2, <1>10, <2>3 DEF StopsAt
  <2> QED BY <2>2, <2>4
<1>11. CASE /\ rest # <<>> /\ ~HasPrefix(rest, ThinkOpen) /\ ~HasPrefix(rest, ThinkClose)
            /\ ~(d = 0 /\ ToolTriggerOffset(rest) # {})
            /\ ~ShouldHoldForPossibleControlPrefix(rest)
  <2>1. ScanTurn(f, b, i, d) = f[<<i + 1, d>>]
    BY <1>1, <1>11 DEF ScanTurn
  <2>2. \A c \in Tags \union Signals : ~(Len(rest) < Len(c) /\ HasPrefix(c, rest))
    BY <1>11 DEF ShouldHoldForPossibleControlPrefix, Candidates, Tags, Signals
  <2>3. \A c \in Tags \union Signals : c \in Texts
    BY Controls, SignalType DEF Tags
  <2>4. \A c \in Tags : Differs(t, p, c)
    BY <1>2, <1>3, <1>11, <2>2, <2>3, Decided DEF Tags
  <2>5. (\A c \in Signals : Differs(t, p, c)) \/ d > 0
    <3>1. CASE d = 0
      <4>1. ToolTriggerOffset(Rest(t, p)) = {}
        BY <1>2, <1>11, <3>1
      <4>2. \A c \in Signals : ~StandsAt(t, p, c)
        BY <4>1, OffsetIs
      <4> QED BY <1>2, <2>2, <2>3, <4>2, Decided
    <3>2. CASE d # 0
      BY <3>2
    <3> QED BY <3>1, <3>2
  <2>6. p < Len(t)
    <3>1. Len(rest) = Len(t) - p /\ rest \in Seq(Char)
      BY <1>2, RestIs DEF Texts
    <3>2. Len(rest) # 0
      BY <1>11, <3>1
    <3>3. p \in 0..Len(t) /\ Len(t) \in Nat
      BY <1>2 DEF Texts
    <3>4. Len(t) - p # 0
      BY <3>1, <3>2
    <3>5. PICK n : n = Len(t)
      OBVIOUS
    <3>6. n \in Nat /\ p \in 0..n /\ n - p # 0
      BY <3>3, <3>4, <3>5
    <3>7. p < n
      BY <3>6
    <3> QED BY <3>5, <3>7
  <2>7. ScanInv(t, p + 1, d)
    BY <1>2, <2>4, <2>5, <2>6, PassCharacter
  <2>8. PICK k : k = i + 1
    OBVIOUS
  <2>9. p + 1 = Len(y) + k /\ k \in (i + 1)..Len(b)
    BY <1>1, <1>2, <2>6, <2>8
  <2>10. StopsAt(t, b, f[<<k, d>>])
    BY <2>7, <2>9
  <2> QED BY <2>1, <2>8, <2>10
<1> QED
  BY <1>6, <1>7, <1>8, <1>9, <1>10, <1>11

\* Where the scan of a buffer stops, and that all before it is settled.
LEMMA ScanStops ==
  ASSUME NEW y \in Texts, NEW b \in Texts, NEW d0 \in Nat, ScanInv(y \o b, Len(y), d0)
  PROVE  StopsAt(y \o b, b, Scan(b, d0))
<1>1. PICK t, f : t = y \o b /\ f = (CHOOSE g : IsLoop(g, b, 0))
  OBVIOUS
<1>2. IsLoop(f, b, 0) /\ Scan(b, d0) = f[<<0, d0>>]
  BY <1>1, LoopExists, ScanIs
<1> DEFINE Wrong(k) == \E e \in Nat : ScanInv(t, Len(y) + (Len(b) - k), e)
                                       /\ ~StopsAt(t, b, f[<<Len(b) - k, e>>])
           T == {k \in 0..Len(b) : Wrong(k)}
<1>3. Len(b) \in Nat /\ Len(y) \in Nat
  BY DEF Texts
<1>4. T = {}
  <2>1. SUFFICES ASSUME T # {}
                 PROVE  FALSE
    OBVIOUS
  <2>2. T \in SUBSET Nat
    BY <1>3
  <2>3. PICK k \in T : \A m \in T : k <= m
    <3> HIDE DEF T
    <3> QED BY <2>1, <2>2, LeastNatural
  <2>4. PICK i : i = Len(b) - k
    OBVIOUS
  <2>5. k \in 0..Len(b) /\ i \in 0..Len(b)
    BY <1>3, <2>3, <2>4
  <2>6. PICK d \in Nat : ScanInv(t, Len(y) + i, d) /\ ~StopsAt(t, b, f[<<i, d>>])
    BY <2>3, <2>4
  <2>7. ASSUME NEW j \in (i + 1)..Len(b), NEW e \in Nat, ScanInv(t, Len(y) + j, e)
        PROVE  StopsAt(t, b, f[<<j, e>>])
    <3>1. PICK m : m = Len(b) - j
      OBVIOUS
    <3>2. m \in 0..Len(b) /\ ~(k <= m) /\ Len(b) - m = j
      BY <1>3, <2>4, <2>5, <3>1
    <3>3. m \notin T
      BY <2>3, <3>2
    <3>4. ~Wrong(m)
      BY <3>2, <3>3
    <3> QED BY <2>7, <3>2, <3>4
  <2>8. StopsAt(t, b, ScanTurn(f, b, i, d))
    BY <1>1, <2>5, <2>6, <2>7, TurnStops
  <2>9. f[<<i, d>>] = ScanTurn(f, b, i, d)
    BY <1>2, <2>5, LoopAt
  <2> QED BY <2>6, <2>8, <2>9
<1>5. ~Wrong(Len(b))
  <2>1. Len(b) \in 0..Len(b)
    BY <1>3
  <2> HIDE DEF Wrong
  <2> QED BY <1>4, <2>1
<1>6. Len(b) - Len(b) = 0 /\ Len(y) + (Len(b) - Len(b)) = Len(y)
  BY <1>3
<1> QED
  BY <1>1, <1>2, <1>5, <1>6

-----------------------------------------------------------------------------
(* Where triggers are                                                      *)

\* Between where the offset is counted from and the trigger there is a fence.
LEMMA OffsetSays ==
  ASSUME NEW t \in Texts, NEW i \in 0..Len(t),
         NEW n \in ToolTriggerOffset(Rest(t, i))
  PROVE  /\ n \in Nat /\ i + n \in 0..Len(t) /\ StandsAt(t, i + n, Trigger)
         /\ \A k \in 1..n : t[i + k] # Trigger[1]
         /\ n = 0 \/ \E f \in Fences : n = Len(f) /\ \A k \in 1..n : t[i + k] = f[k]
<1>1. Len(t) \in Nat /\ Trigger \in Texts /\ Len(Trigger) \in Nat \ {0}
  BY Controls DEF Texts
<1>2. CASE HasPrefix(Rest(t, i), Trigger)
  <2>1. n = 0 /\ StandsAt(t, i, Trigger)
    BY <1>2 DEF ToolTriggerOffset, StandsAt
  <2>2. i + n = i /\ 1..n = {}
    BY <1>1, <2>1
  <2> QED BY <2>1, <2>2
<1>3. CASE ~HasPrefix(Rest(t, i), Trigger)
  <2>1. PICK f \in Fences : n = Len(f) /\ StandsAt(t, i, f \o Trigger)
    BY <1>3 DEF ToolTriggerOffset, StandsAt
  <2>2. f \in Texts /\ n \in Nat \ {0}
    BY <2>1, Controls
  <2>3. PICK c : c = f \o Trigger
    OBVIOUS
  <2>4. c \in Texts /\ Len(c) = n + Len(Trigger)
    BY <1>1, <2>1, <2>2, <2>3 DEF Texts
  <2>5. i + Len(c) <= Len(t) /\ \A k \in 1..Len(c) : t[i + k] = c[k]
    BY <2>1, <2>3, <2>4, StandsIs
  <2>6. \A k \in 1..n : c[k] = f[k]
    BY <1>1, <2>1, <2>2, <2>3 DEF Texts
  <2>7. \A k \in 1..Len(Trigger) : c[n + k] = Trigger[k]
    BY <1>1, <2>1, <2>2, <2>3 DEF Texts
  <2>8. i + n \in 0..Len(t) /\ (i + n) + Len(Trigger) <= Len(t)
    BY <1>1, <2>2, <2>4, <2>5
  <2>9. ASSUME NEW k \in 1..Len(Trigger)
        PROVE  t[(i + n) + k] = Trigger[k]
    <3>1. PICK m : m = n + k
      OBVIOUS
    <3>2. m \in 1..Len(c) /\ i + m = (i + n) + k
      BY <1>1, <2>2, <2>4, <3>1
    <3>3. t[i + m] = c[m]
      BY <2>5, <3>2
    <3>4. c[m] = Trigger[k]
      BY <2>7, <3>1
    <3> QED BY <3>2, <3>3, <3>4
  <2>10. StandsAt(t, i + n, Trigger)
    BY <1>1, <2>8, <2>9, StandsIs
  <2>11. ASSUME NEW k \in 1..n
         PROVE  t[i + k] = f[k] /\ f[k] # Trigger[1]
    <3>1. k \in 1..Len(c) /\ k \in 1..Len(f)
      BY <1>1, <2>1, <2>2, <2>4
    <3>2. f[k] # Trigger[1]
      BY <3>1, ApartAssumption DEF ControlsApart
    <3> QED BY <2>5, <2>6, <3>1, <3>2
  <2> QED BY <2>1, <2>2, <2>8, <2>10, <2>11
<1> QED
  BY <1>2, <1>3

\* ToolTriggerOffset finds one offset.
LEMMA OneOffset ==
  ASSUME NEW t \in Texts, NEW i \in 0..Len(t),
         NEW n \in ToolTriggerOffset(Rest(t, i)),
         NEW m \in ToolTriggerOffset(Rest(t, i))
  PROVE  n = m
<1>1. /\ n \in Nat /\ i + n \in 0..Len(t) /\ StandsAt(t, i + n, Trigger)
      /\ \A k \in 1..n : t[i + k] # Trigger[1]
  BY OffsetSays
<1>2. /\ m \in Nat /\ i + m \in 0..Len(t) /\ StandsAt(t, i + m, Trigger)
      /\ \A k \in 1..m : t[i + k] # Trigger[1]
  BY OffsetSays
<1>3. 1 \in 1..Len(Trigger) /\ Trigger \in Texts
  BY Controls
<1>4. t[(i + n) + 1] = Trigger[1] /\ t[(i + m) + 1] = Trigger[1]
  BY <1>1, <1>2, <1>3, StandsIs
<1>5. i \in Nat
  OBVIOUS
<1>6. ~(n < m)
  <2>1. SUFFICES ASSUME n < m
                 PROVE  FALSE
    OBVIOUS
  <2>2. PICK k : k = n + 1
    OBVIOUS
  <2>3. k \in 1..m /\ (i + n) + 1 = i + k
    BY <1>1, <1>2, <1>5, <2>1, <2>2
  <2>4. t[i + k] # Trigger[1] /\ t[i + k] = Trigger[1]
    BY <1>2, <1>4, <2>3
  <2> QED BY <2>4
<1>7. ~(m < n)
  <2>1. SUFFICES ASSUME m < n
                 PROVE  FALSE
    OBVIOUS
  <2>2. PICK k : k = m + 1
    OBVIOUS
  <2>3. k \in 1..n /\ (i + m) + 1 = i + k
    BY <1>1, <1>2, <1>5, <2>1, <2>2
  <2>4. t[i + k] # Trigger[1] /\ t[i + k] = Trigger[1]
    BY <1>1, <1>4, <2>3
  <2> QED BY <2>4
<1> QED
  BY <1>1, <1>2, <1>6, <1>7

\* A trigger found stays one when text comes behind it.
LEMMA OffsetLater ==
  ASSUME NEW t \in Texts, NEW x \in Texts, NEW i \in 0..Len(t),
         NEW n \in ToolTriggerOffset(Rest(t, i))
  PROVE  n \in ToolTriggerOffset(Rest(t \o x, i))
<1>1. Trigger \in Texts /\ \A f \in Fences : f \o Trigger \in Texts /\ f \o Trigger \in Signals
  BY SignalType, Controls DEF Signals
<1>2. CASE StandsAt(t, i, Trigger)
  <2>1. n = 0
    BY <1>2 DEF ToolTriggerOffset, StandsAt
  <2>2. StandsAt(t \o x, i, Trigger)
    BY <1>1, <1>2, StandsLater
  <2> QED BY <2>1, <2>2 DEF ToolTriggerOffset, StandsAt
<1>3. CASE ~StandsAt(t, i, Trigger)
  <2>1. PICK f \in Fences : n = Len(f) /\ StandsAt(t, i, f \o Trigger)
    BY <1>3 DEF ToolTriggerOffset, StandsAt
  <2>2. PICK u, c : u = t \o x /\ c = f \o Trigger
    OBVIOUS
  <2>3. c \in Texts /\ c \in Signals /\ u \in Texts /\ i \in 0..Len(u)
    BY <1>1, <2>2, TextGrows
  <2>4. StandsAt(u, i, c)
    BY <1>1, <2>1, <2>2, StandsLater
  <2>5. Len(c) \in Nat \ {0} /\ c[1] = f[1] /\ Len(f) \in Nat \ {0}
    <3>1. Len(c) \in Nat \ {0} /\ Len(f) \in Nat \ {0}
      BY <2>3, SignalType, Controls
    <3>2. c[1] = f[1]
      BY <2>2, Controls DEF Texts
    <3> QED BY <3>1, <3>2
  <2>6. u[i + 1] = f[1]
    BY <2>3, <2>4, <2>5, StandsIs
  <2>7. f[1] # Trigger[1]
    BY <2>5, ApartAssumption DEF ControlsApart
  <2>8. ~StandsAt(u, i, Trigger)
    <3>1. 1 \in 1..Len(Trigger)
      BY Controls
    <3>2. StandsAt(u, i, Trigger) => u[i + 1] = Trigger[1]
      BY <1>1, <2>3, <3>1, StandsIs
    <3> QED BY <2>6, <2>7, <3>2
  <2>9. n \in ToolTriggerOffset(Rest(u, i))
    BY <2>1, <2>2, <2>4, <2>8 DEF ToolTriggerOffset, StandsAt
  <2> QED BY <2>2, <2>9
<1> QED
  BY <1>2, <1>3

\* What is held back has no trigger in it.
LEMMA HeldHasNone ==
  ASSUME NEW t \in Texts, NEW p \in 0..Len(t),
         Rest(t, p) = <<>> \/ ShouldHoldForPossibleControlPrefix(Rest(t, p)),
         NEW i \in p..Len(t)
  PROVE  ToolTriggerOffset(Rest(t, i)) = {}
<1>1. SUFFICES ASSUME NEW n \in ToolTriggerOffset(Rest(t, i))
               PROVE  FALSE
  OBVIOUS
<1>2. Len(t) \in Nat /\ i \in 0..Len(t) /\ Trigger \in Texts /\ Len(Trigger) \in Nat \ {0}
  BY Controls DEF Texts
<1>3. n \in Nat /\ i + n \in 0..Len(t) /\ StandsAt(t, i + n, Trigger)
  BY <1>1, <1>2, OffsetSays
<1>4. (i + n) + Len(Trigger) <= Len(t) /\ \A k \in 1..Len(Trigger) : t[(i + n) + k] = Trigger[k]
  BY <1>2, <1>3, StandsIs
<1>5. PICK r, m : r = Rest(t, p) /\ m = (i + n) - p
  OBVIOUS
<1>6. r \in Texts /\ Len(r) = Len(t) - p /\ \A k \in 1..(Len(t) - p) : r[k] = t[p + k]
  BY <1>5, RestIs
<1>7. m \in Nat /\ m + Len(Trigger) <= Len(r)
  BY <1>2, <1>3, <1>4, <1>5, <1>6
<1>8. ASSUME NEW k \in 1..Len(Trigger)
      PROVE  r[m + k] = Trigger[k]
  <2>1. m + k \in 1..(Len(t) - p) /\ p + (m + k) = (i + n) + k
    BY <1>2, <1>3, <1>5, <1>6, <1>7
  <2>2. r[m + k] = t[p + (m + k)]
    BY <1>6, <2>1
  <2> QED BY <1>4, <2>1, <2>2
<1>9. Len(r) \in Nat \ {0}
  BY <1>2, <1>6, <1>7
<1>10. r # <<>>
  BY <1>6, <1>9 DEF Texts
<1>11. PICK c \in Tags \union Signals : Len(r) < Len(c) /\ HasPrefix(c, r)
  BY <1>5, <1>10 DEF ShouldHoldForPossibleControlPrefix, Candidates, Tags, Signals
<1>12. c \in Texts /\ Len(c) \in Nat
  BY <1>11, Controls, SignalType DEF Tags
<1>13. \A k \in 1..Len(r) : c[k] = r[k]
  BY <1>6, <1>11, <1>12, PrefixIs
<1>14. \A k \in 1..Len(Trigger) : c[m + k] = Trigger[k] /\ m + k < Len(c)
  <2>1. ASSUME NEW k \in 1..Len(Trigger)
        PROVE  c[m + k] = Trigger[k] /\ m + k < Len(c)
    <3>1. m + k \in 1..Len(r) /\ m + k < Len(c)
      BY <1>2, <1>7, <1>9, <1>11, <1>12
    <3> QED BY <1>8, <1>13, <3>1
  <2> QED BY <2>1
<1>15. 1 \in 1..Len(Trigger) /\ m + 1 \in Nat
  BY <1>2, <1>7
<1>16. CASE c \in Tags \union {Trigger}
  <2>1. CASE m = 0
    <3>1. \A k \in 1..Len(Trigger) : c[k] = Trigger[k] /\ k < Len(c)
      BY <1>14, <2>1
    <3>2. Trigger # c
      <4>1. Len(Trigger) \in 1..Len(Trigger)
        BY <1>2
      <4>2. Len(Trigger) < Len(c)
        BY <3>1, <4>1
      <4> QED BY <1>2, <4>2
    <3>3. PICK k \in 1..Len(Trigger) : k <= Len(c) /\ Trigger[k] # c[k]
      BY <1>16, <3>2, Apart
    <3> QED BY <3>1, <3>3
  <2>2. CASE m > 0
    <3>1. m + 1 \in 2..Len(c)
      BY <1>7, <1>12, <1>14, <1>15, <2>2
    <3>2. c[m + 1] # Trigger[1]
      BY <1>16, <3>1, InsideApart DEF Signals
    <3> QED BY <1>14, <1>15, <3>2
  <2> QED BY <1>7, <2>1, <2>2
<1>17. CASE \E f \in Fences : c = f \o Trigger
  <2>1. PICK f \in Fences : c = f \o Trigger
    BY <1>17
  <2>2. f \in Texts /\ Len(f) \in Nat /\ Len(c) = Len(f) + Len(Trigger)
    BY <1>2, <2>1, Controls DEF Texts
  <2>3. m < Len(f)
    BY <1>2, <1>7, <1>9, <1>11, <2>2
  <2>4. m + 1 \in 1..Len(f)
    BY <1>7, <2>2, <2>3
  <2>5. c[m + 1] = f[m + 1]
    BY <1>2, <2>1, <2>2, <2>4 DEF Texts
  <2>6. f[m + 1] # Trigger[1]
    BY <2>4, ApartAssumption DEF ControlsApart
  <2> QED BY <1>14, <1>15, <2>5, <2>6
<1> QED
  BY <1>11, <1>16, <1>17 DEF Signals

\* What the loop has passed has no trigger outside thinking.
LEMMA NoneBefore ==
  ASSUME NEW t \in Texts, NEW p, NEW d, ScanInv(t, p, d), NEW i \in 0..(p - 1)
  PROVE  i \notin TriggersIn(t)
<1>1. p \in 0..Len(t) /\ Passed(t, i, p) /\ Len(t) \in Nat
  BY DEF ScanInv, Texts
<1>2. i \in 0..Len(t)
  BY <1>1
<1>3. CASE \A c \in Signals : Differs(t, i, c)
  <2>1. \A c \in Signals : ~StandsAt(t, i, c)
    BY <1>2, <1>3, DiffersIs, SignalType
  <2>2. ToolTriggerOffset(Rest(t, i)) = {}
    BY <2>1, OffsetIs
  <2> QED BY <2>2 DEF TriggersIn
<1>4. CASE \E n \in Nat \ {0} : IsDepth(t, i, n)
  <2>1. DepthAt(t, i) # 0
    BY <1>2, <1>4, DepthIs
  <2> QED BY <2>1 DEF TriggersIn
<1> QED
  BY <1>1, <1>3, <1>4 DEF Passed

\* Where it stopped for a trigger there is one.
LEMMA TriggerHere ==
  ASSUME NEW t \in Texts, NEW p, ScanInv(t, p, 0), ToolTriggerOffset(Rest(t, p)) # {}
  PROVE  p \in TriggersIn(t)
BY DepthIs DEF ScanInv, TriggersIn

-----------------------------------------------------------------------------
(* Cutting a text                                                          *)

\* The two parts of a text make the text.
LEMMA CutAt ==
  ASSUME NEW b \in Texts, NEW n \in 0..Len(b)
  PROVE  /\ SubSeq(b, 1, n) \in Texts /\ Len(SubSeq(b, 1, n)) = n
         /\ SubSeq(b, 1, n) \o Rest(b, n) = b
         /\ Rest(b, 0) = b /\ Rest(b, n) \in Texts
<1>1. PICK u, v, w : u = SubSeq(b, 1, n) /\ v = Rest(b, n) /\ w = u \o v
  OBVIOUS
<1>2. Len(b) \in Nat /\ n \in Nat
  BY DEF Texts
<1>3. u \in Texts /\ Len(u) = n /\ \A k \in 1..n : u[k] = b[k]
  BY <1>1, <1>2 DEF Texts
<1>4. v \in Texts /\ Len(v) = Len(b) - n /\ \A k \in 1..(Len(b) - n) : v[k] = b[n + k]
  BY <1>1, RestIs
<1>5. w \in Texts /\ Len(w) = Len(b)
  BY <1>1, <1>2, <1>3, <1>4 DEF Texts
<1>6. ASSUME NEW k \in 1..Len(w)
      PROVE  w[k] = b[k]
  <2>1. CASE k \in 1..n
    <3>1. w[k] = u[k]
      BY <1>1, <1>3, <1>4, <2>1 DEF Texts
    <3> QED BY <1>3, <2>1, <3>1
  <2>2. CASE k \notin 1..n
    <3>1. PICK m : m = k - n
      OBVIOUS
    <3>2. m \in 1..(Len(b) - n) /\ n + m = k
      BY <1>2, <1>5, <2>2, <3>1
    <3>3. w[n + m] = v[m]
      BY <1>1, <1>3, <1>4, <3>2 DEF Texts
    <3> QED BY <1>4, <3>2, <3>3
  <2> QED BY <2>1, <2>2
<1>7. w = b
  BY <1>5, <1>6, SeqEqual DEF Texts
<1>8. Rest(b, 0) = b
  BY DEF Rest, Texts
<1> QED
  BY <1>1, <1>3, <1>4, <1>7, <1>8

LEMMA CutTwice ==
  ASSUME NEW b \in Texts, NEW n \in 0..Len(b), NEW m \in Nat, n + m <= Len(b)
  PROVE  /\ SubSeq(b, n + 1, n + m) \in Texts /\ Len(SubSeq(b, n + 1, n + m)) = m
         /\ \A k \in 1..m : SubSeq(b, n + 1, n + m)[k] = b[n + k]
         /\ SubSeq(b, n + 1, n + m) \o Rest(b, n + m) = Rest(b, n)
<1>1. Len(b) \in Nat /\ n \in Nat /\ n + m \in 0..Len(b)
  BY DEF Texts
<1>2. PICK u, v, w, z : /\ u = SubSeq(b, n + 1, n + m) /\ v = Rest(b, n + m) /\ w = u \o v
                        /\ z = Rest(b, n)
  OBVIOUS
<1>3. u \in Texts /\ Len(u) = m /\ \A k \in 1..m : u[k] = b[n + k]
  <2>1. u \in Texts
    BY <1>1, <1>2 DEF Texts
  <2>2. Len(u) = m
    BY <1>1, <1>2 DEF Texts
  <2>3. \A k \in 1..m : u[k] = b[n + k]
    BY <1>1, <1>2 DEF Texts
  <2> QED BY <2>1, <2>2, <2>3
<1>4. v \in Texts /\ Len(v) = Len(b) - (n + m) /\ \A k \in 1..(Len(b) - (n + m)) : v[k] = b[(n + m) + k]
  BY <1>1, <1>2, RestIs
<1>5. z \in Texts /\ Len(z) = Len(b) - n /\ \A k \in 1..(Len(b) - n) : z[k] = b[n + k]
  BY <1>1, <1>2, RestIs
<1>6. w \in Texts /\ Len(w) = Len(z)
  <2>1. w \in Texts /\ Len(w) = Len(u) + Len(v)
    BY <1>2, <1>3, <1>4 DEF Texts
  <2> QED BY <1>1, <1>3, <1>4, <1>5, <2>1
<1>7. ASSUME NEW k \in 1..Len(w)
      PROVE  w[k] = z[k]
  <2>1. z[k] = b[n + k]
    BY <1>5, <1>6
  <2>2. CASE k \in 1..m
    <3>1. w[k] = u[k]
      BY <1>2, <1>3, <1>4, <2>2 DEF Texts
    <3> QED BY <1>3, <2>1, <2>2, <3>1
  <2>3. CASE k \notin 1..m
    <3>1. PICK j : j = k - m
      OBVIOUS
    <3>2. j \in 1..(Len(b) - (n + m)) /\ m + j = k /\ (n + m) + j = n + k
      BY <1>1, <1>5, <1>6, <2>3, <3>1
    <3>3. w[m + j] = v[j]
      BY <1>2, <1>3, <1>4, <3>2 DEF Texts
    <3> QED BY <1>4, <2>1, <3>2, <3>3
  <2> QED BY <2>2, <2>3
<1>8. w = z
  BY <1>5, <1>6, <1>7, SeqEqual DEF Texts
<1> QED
  BY <1>2, <1>3, <1>8

LEMMA Assoc ==
  ASSUME NEW a \in Texts, NEW b \in Texts, NEW c \in Texts
  PROVE  (a \o b) \o c = a \o (b \o c)
BY DEF Texts

LEMMA Joins ==
  /\ <<>> \in Texts
  /\ \A a \in Texts : a \o <<>> = a /\ <<>> \o a = a
  /\ \A a, b \in Texts : a \o b \in Texts /\ Len(a \o b) = Len(a) + Len(b)
BY DEF Texts

-----------------------------------------------------------------------------
(* The detector                                                            *)

\* What was passed on was scanned and has no trigger outside thinking; what is held can
\* still become something, and the trigger found stands right behind what was passed on.
DetectorInv ==
  /\ DetectorTypeOK
  /\ yielded \o dropped \o contentBuffer = fed
  /\ ScanInv(fed, Len(yielded), thinkDepth)
  /\ state = "detecting" =>
       /\ dropped = <<>>
       /\ contentBuffer = <<>> \/ ShouldHoldForPossibleControlPrefix(contentBuffer)
  /\ state = "tool_parsing" =>
       thinkDepth = 0 /\ Len(dropped) \in ToolTriggerOffset(Rest(fed, Len(yielded)))

LEMMA InitDetector == DetectorInit => DetectorInv
<1> SUFFICES ASSUME DetectorInit
             PROVE  DetectorInv
  OBVIOUS
<1>1. <<>> \in Texts /\ Len(<<>>) = 0 /\ <<>> \o <<>> \o <<>> = <<>>
  BY DEF Texts
<1>2. DetectorTypeOK
  BY <1>1 DEF DetectorInit, DetectorTypeOK, Texts
<1>3. ScanInv(<<>>, 0, 0)
  BY <1>1, DepthAtStart DEF ScanInv
<1> QED
  BY <1>1, <1>2, <1>3 DEF DetectorInit, DetectorInv

LEMMA DetectorTypes ==
  ASSUME DetectorTypeOK
  PROVE  /\ contentBuffer \in Texts /\ fed \in Texts /\ yielded \in Texts /\ dropped \in Texts
         /\ thinkDepth \in Nat /\ state \in {"detecting", "tool_parsing"}
         /\ dropped \in Fences \union {<<>>}
<1>1. dropped \in Texts
  <2>1. \A f \in Fences \union {<<>>} : f \in Texts
    BY Controls, Joins
  <2> QED BY <2>1 DEF DetectorTypeOK
<1> QED
  BY <1>1 DEF DetectorTypeOK, Texts

\* While there was no trigger: all the text is in front of the buffer or in it.
DetectingInv ==
  /\ state = "detecting" /\ dropped = <<>> /\ fed = yielded \o contentBuffer
  /\ contentBuffer = Rest(fed, Len(yielded)) /\ Len(yielded) \in 0..Len(fed)

LEMMA Detecting == DetectorInv /\ state = "detecting" => DetectingInv
<1> SUFFICES ASSUME DetectorInv, state = "detecting"
             PROVE  DetectingInv
  OBVIOUS
<1>1. contentBuffer \in Texts /\ yielded \in Texts /\ fed \in Texts
  BY DetectorTypes DEF DetectorInv
<1>2. dropped = <<>> /\ yielded \o contentBuffer = fed
  BY <1>1, Joins DEF DetectorInv
<1>3. 0 \in 0..Len(contentBuffer) /\ Len(yielded) + 0 = Len(yielded)
  BY <1>1 DEF Texts
<1>4. Rest(yielded \o contentBuffer, Len(yielded) + 0) = Rest(contentBuffer, 0)
      /\ Len(yielded) + 0 \in 0..Len(yielded \o contentBuffer)
  BY <1>1, <1>3, RestOfText
<1>5. Rest(contentBuffer, 0) = contentBuffer
  BY <1>1, <1>3, CutAt
<1> QED
  BY <1>2, <1>3, <1>4, <1>5 DEF DetectingInv

\* More tool text.
LEMMA Collects ==
  ASSUME DetectorInv, NEW delta \in Texts, state = "tool_parsing",
         contentBuffer' = contentBuffer \o delta, fed' = fed \o delta,
         UNCHANGED <<state, thinkDepth, yielded, dropped>>
  PROVE  DetectorInv'
<1>1. /\ contentBuffer \in Texts /\ fed \in Texts /\ yielded \in Texts /\ dropped \in Texts
      /\ dropped \in Fences \union {<<>>} /\ thinkDepth \in Nat
  BY DetectorTypes DEF DetectorInv
<1>2. contentBuffer' \in Texts /\ fed' \in Texts
  BY <1>1, Joins
<1>3. DetectorTypeOK'
  BY <1>1, <1>2 DEF DetectorTypeOK, Texts
<1>4. yielded' \o dropped' \o contentBuffer' = fed'
  <2>1. PICK a : a = yielded \o dropped
    OBVIOUS
  <2>2. a \in Texts /\ a \o contentBuffer = fed
    BY <1>1, <2>1, Joins DEF DetectorInv
  <2>3. (a \o contentBuffer) \o delta = a \o (contentBuffer \o delta)
    BY <1>1, <2>2, Assoc, ZenonT(30)
  <2> QED BY <2>1, <2>2, <2>3
<1>5. ScanInv(fed', Len(yielded'), thinkDepth')
  BY <1>1, ScanLater DEF DetectorInv
<1>6. Len(yielded) \in 0..Len(fed)
  BY DEF DetectorInv, ScanInv
<1>7. thinkDepth' = 0 /\ Len(dropped') \in ToolTriggerOffset(Rest(fed', Len(yielded')))
  BY <1>1, <1>6, OffsetLater DEF DetectorInv
<1> QED
  BY <1>3, <1>4, <1>5, <1>7 DEF DetectorInv

\* A chunk in which the detector looks for the trigger.
LEMMA Detects ==
  ASSUME DetectorInv, NEW delta \in Texts, ProcessChunk(delta), state = "detecting"
  PROVE  DetectorInv' /\ \E x \in Texts : yielded' = yielded \o x
<1>1. contentBuffer \in Texts /\ fed \in Texts /\ yielded \in Texts /\ thinkDepth \in Nat
  BY DetectorTypes DEF DetectorInv
<1>2. PICK b, r : b = contentBuffer \o delta /\ r = Scan(b, thinkDepth)
  OBVIOUS
<1>3. /\ fed' = fed \o delta /\ thinkDepth' = r.depth /\ yielded' = yielded \o SubSeq(b, 1, r.at)
      /\ NoTrigger(b, r) \/ TriggerFound(b, r)
  BY <1>2 DEF ProcessChunk
<1>4. DetectingInv
  BY Detecting
<1>5. b \in Texts /\ fed' \in Texts /\ fed' = yielded \o b
  <2>1. b \in Texts /\ fed' \in Texts
    BY <1>1, <1>2, <1>3, Joins
  <2>2. fed = yielded \o contentBuffer
    BY <1>4 DEF DetectingInv
  <2>3. (yielded \o contentBuffer) \o delta = yielded \o (contentBuffer \o delta)
    BY <1>1, Assoc
  <2> QED BY <1>2, <1>3, <2>1, <2>2, <2>3
<1>6. ScanInv(fed', Len(yielded), thinkDepth)
  BY <1>1, <1>3, ScanLater DEF DetectorInv
<1>7. StopsAt(fed', b, r)
  BY <1>1, <1>2, <1>5, <1>6, ScanStops
<1>8. PICK n, u : n = r.at /\ u = SubSeq(b, 1, n)
  OBVIOUS
<1>9. n \in 0..Len(b) /\ u \in Texts /\ Len(u) = n /\ u \o Rest(b, n) = b
      /\ Rest(b, n) \in Texts
  BY <1>5, <1>7, <1>8, CutAt DEF StopsAt
<1>10. yielded' = yielded \o u /\ yielded' \in Texts /\ yielded' \o Rest(b, n) = fed'
  <2>1. yielded' = yielded \o u /\ yielded' \in Texts
    BY <1>1, <1>3, <1>8, <1>9, Joins
  <2>2. PICK v, w : v = Rest(b, n) /\ w = yielded
    OBVIOUS
  <2>3. w \in Texts /\ u \in Texts /\ v \in Texts
    BY <1>1, <1>9, <2>2
  <2>4. (w \o u) \o v = w \o (u \o v)
    BY <2>3, Assoc
  <2> QED BY <1>5, <1>9, <2>1, <2>2, <2>4
<1>11. Len(yielded') = Len(yielded) + n /\ Len(fed') - Len(b) + n = Len(yielded')
  BY <1>1, <1>5, <1>8, <1>9, <1>10 DEF Texts
<1>12. ScanInv(fed', Len(yielded'), thinkDepth')
  BY <1>3, <1>7, <1>8, <1>11 DEF StopsAt
<1>13. thinkDepth' \in Nat
  BY <1>12 DEF ScanInv, IsDepth
<1>14. Rest(fed', Len(yielded')) = Rest(b, n)
  BY <1>1, <1>5, <1>9, <1>11, RestOfText
<1>15. ASSUME NoTrigger(b, r)
       PROVE  DetectorInv'
  <2>1. contentBuffer' = Rest(b, n) /\ state' = "detecting" /\ dropped' = <<>> /\ r.offset = {}
    BY <1>4, <1>8, <1>15 DEF NoTrigger, DetectingInv
  <2>2. contentBuffer' = <<>> \/ ShouldHoldForPossibleControlPrefix(contentBuffer')
    BY <1>7, <1>8, <2>1 DEF StopsAt
  <2>3. DetectorTypeOK'
    BY <1>5, <1>9, <1>10, <1>13, <2>1 DEF DetectorTypeOK, Texts
  <2>4. yielded' \o dropped' \o contentBuffer' = fed'
    BY <1>10, <2>1, Joins
  <2>5. state' # "tool_parsing"
    BY <2>1
  <2> QED BY <1>12, <2>1, <2>2, <2>3, <2>4, <2>5 DEF DetectorInv
<1>16. ASSUME TriggerFound(b, r)
       PROVE  DetectorInv'
  <2>1. PICK m \in r.offset : /\ state' = "tool_parsing" /\ contentBuffer' = Rest(b, n + m)
                              /\ dropped' = SubSeq(b, n + 1, n + m)
    BY <1>8, <1>16 DEF TriggerFound
  <2>2. m \in ToolTriggerOffset(Rest(b, n)) /\ thinkDepth' = 0
    BY <1>3, <1>7, <1>8, <2>1 DEF StopsAt
  <2>3. /\ m \in Nat /\ n + m \in 0..Len(b)
        /\ m = 0 \/ \E f \in Fences : m = Len(f) /\ \A k \in 1..m : b[n + k] = f[k]
    BY <1>5, <1>9, <2>2, OffsetSays
  <2>4. /\ dropped' \in Texts /\ Len(dropped') = m /\ \A k \in 1..m : dropped'[k] = b[n + k]
        /\ dropped' \o contentBuffer' = Rest(b, n)
    <3>1. n + m <= Len(b) /\ m \in Nat
      BY <1>5, <2>3 DEF Texts
    <3>2. PICK x : x = SubSeq(b, n + 1, n + m)
      OBVIOUS
    <3>3. x \in Texts /\ Len(x) = m /\ (\A k \in 1..m : x[k] = b[n + k])
          /\ x \o Rest(b, n + m) = Rest(b, n)
      BY <1>5, <1>9, <3>1, <3>2, CutTwice
    <3> QED BY <2>1, <3>2, <3>3
  <2>5. dropped' \in Fences \union {<<>>}
    <3>1. CASE m = 0
      BY <2>4, <3>1 DEF Texts
    <3>2. CASE m # 0
      <4>1. PICK f \in Fences : m = Len(f) /\ \A k \in 1..m : b[n + k] = f[k]
        BY <2>3, <3>2
      <4>2. PICK x : x = dropped'
        OBVIOUS
      <4>3. x \in Seq(Char) /\ f \in Seq(Char) /\ Len(x) = Len(f) /\ \A k \in 1..Len(x) : x[k] = f[k]
        BY <2>4, <4>1, <4>2, Controls DEF Texts
      <4>4. x = f
        BY <4>3, SeqEqual
      <4> QED BY <4>2, <4>4
    <3> QED BY <3>1, <3>2
  <2>6. contentBuffer' \in Texts
    BY <1>5, <2>1, <2>3, RestIs
  <2>7. DetectorTypeOK'
    BY <1>5, <1>10, <1>13, <2>1, <2>5, <2>6 DEF DetectorTypeOK, Texts
  <2>8. yielded' \o dropped' \o contentBuffer' = fed'
    <3>1. (yielded' \o dropped') \o contentBuffer' = yielded' \o (dropped' \o contentBuffer')
      BY <1>10, <2>4, <2>6, Assoc
    <3> QED BY <1>10, <2>4, <3>1
  <2>9. Len(dropped') \in ToolTriggerOffset(Rest(fed', Len(yielded')))
    BY <1>14, <2>2, <2>4
  <2>10. state' # "detecting"
    BY <2>1
  <2> QED BY <1>12, <2>1, <2>2, <2>7, <2>8, <2>9, <2>10 DEF DetectorInv
<1> QED
  BY <1>3, <1>9, <1>10, <1>15, <1>16

LEMMA ChunkInv ==
  ASSUME DetectorInv, NEW delta \in Texts, ProcessChunk(delta) \/ AppendToBuffer(delta)
  PROVE  DetectorInv'
<1>1. CASE AppendToBuffer(delta)
  BY <1>1, Collects DEF AppendToBuffer
<1>2. CASE ProcessChunk(delta) /\ state = "tool_parsing"
  <2>1. /\ contentBuffer' = contentBuffer \o delta /\ fed' = fed \o delta
        /\ UNCHANGED <<state, thinkDepth, yielded, dropped>>
    BY <1>2 DEF ProcessChunk
  <2> QED BY <1>2, <2>1, Collects
<1>3. CASE ProcessChunk(delta) /\ state = "detecting"
  BY <1>3, Detects
<1>4. state \in {"detecting", "tool_parsing"}
  BY DetectorTypes DEF DetectorInv
<1> QED
  BY <1>1, <1>2, <1>3, <1>4

LEMMA DetectorStays == DetectorInv /\ UNCHANGED detectorVars => DetectorInv'
BY DEF DetectorInv, DetectorTypeOK, detectorVars

LEMMA DetectorAlways == DetectorSpec => []DetectorInv
<1>1. DetectorInv /\ [DetectorNext]_detectorVars => DetectorInv'
  <2>1. ASSUME DetectorInv, DetectorNext
        PROVE  DetectorInv'
    <3>1. PICK delta \in Chunks : ProcessChunk(delta) \/ AppendToBuffer(delta)
      BY <2>1 DEF DetectorNext
    <3>2. delta \in Texts
      BY DEF Chunks, Texts
    <3> QED BY <2>1, <3>1, <3>2, ChunkInv
  <2> QED BY <2>1, DetectorStays
<1> QED
  BY <1>1, InitDetector, PTL DEF DetectorSpec

\* While it is looking there is no trigger outside thinking in all the text.
LEMMA NoneFound ==
  ASSUME DetectorInv, state = "detecting"
  PROVE  TriggersIn(fed) = {}
<1>1. SUFFICES ASSUME NEW i \in TriggersIn(fed)
               PROVE  FALSE
  OBVIOUS
<1>2. DetectingInv /\ fed \in Texts /\ Len(fed) \in Nat
  BY Detecting, DetectorTypes DEF DetectorInv, Texts
<1>3. i \in 0..Len(fed) /\ ToolTriggerOffset(Rest(fed, i)) # {}
  BY <1>1 DEF TriggersIn
<1>4. ~(i \in 0..(Len(yielded) - 1))
  BY <1>1, <1>2, NoneBefore DEF DetectorInv
<1>5. i \in Len(yielded)..Len(fed)
  BY <1>2, <1>3, <1>4 DEF DetectingInv
<1>6. ToolTriggerOffset(Rest(fed, i)) = {}
  BY <1>2, <1>5, HeldHasNone DEF DetectingInv, DetectorInv
<1> QED
  BY <1>3, <1>6

\* The trigger it has found is the first.
LEMMA FirstFound ==
  ASSUME DetectorInv, state = "tool_parsing"
  PROVE  /\ Len(yielded) \in TriggersIn(fed) /\ \A i \in TriggersIn(fed) : Len(yielded) <= i
<1>1. fed \in Texts /\ Len(fed) \in Nat /\ Len(yielded) \in 0..Len(fed)
  BY DetectorTypes DEF DetectorInv, Texts, ScanInv
<1>2. Len(yielded) \in TriggersIn(fed)
  BY <1>1, TriggerHere DEF DetectorInv
<1>3. ASSUME NEW i \in TriggersIn(fed)
      PROVE  Len(yielded) <= i
  <2>1. i \in 0..Len(fed)
    BY DEF TriggersIn
  <2>2. ~(i \in 0..(Len(yielded) - 1))
    BY <1>1, NoneBefore DEF DetectorInv
  <2> QED BY <1>1, <2>1, <2>2
<1> QED
  BY <1>2, <1>3

\* However the text is cut into chunks, the detector fires as soon as the text so far has
\* a trigger outside thinking, has passed on exactly the text before the first one, and
\* has lost nothing: for any text, of any length, whatever the tags, the trigger and the
\* fences, as long as they are apart.
THEOREM CutAnywhere == DetectorSpec => []ChunkingIrrelevant
<1>1. ASSUME DetectorInv
      PROVE  ChunkingIrrelevant
  <2>1. DetectorTypeOK /\ yielded \o dropped \o contentBuffer = fed /\ state \in {"detecting", "tool_parsing"}
    BY <1>1 DEF DetectorInv, DetectorTypeOK
  <2>2. CASE state = "detecting"
    BY <1>1, <2>1, <2>2, NoneFound DEF ChunkingIrrelevant, DetectorInv
  <2>3. CASE state = "tool_parsing"
    BY <1>1, <2>1, <2>3, FirstFound DEF ChunkingIrrelevant
  <2> QED BY <2>1, <2>2, <2>3
<1> QED
  BY <1>1, DetectorAlways, PTL

\* What is held back from the client can still become a tag or a trigger.
THEOREM HeldBack == DetectorSpec => []HeldOnlyWhileAmbiguous
<1>1. ASSUME DetectorInv, state = "detecting"
      PROVE  \E c \in Candidates : Len(contentBuffer) < Len(c) /\ HasPrefix(c, contentBuffer)
  <2>1. CASE ShouldHoldForPossibleControlPrefix(contentBuffer)
    BY <2>1 DEF ShouldHoldForPossibleControlPrefix
  <2>2. CASE contentBuffer = <<>>
    <3>1. Len(<<>>) = 0 /\ <<>> \in Texts
      BY DEF Texts
    <3>2. Trigger \in Texts /\ Len(Trigger) \in Nat \ {0} /\ Trigger \in Candidates
      BY Controls DEF Candidates
    <3>3. HasPrefix(Trigger, <<>>)
      BY <3>1, <3>2, PrefixIs
    <3> QED BY <2>2, <3>1, <3>2, <3>3
  <2> QED BY <1>1, <2>1, <2>2 DEF DetectorInv
<1>2. DetectorInv => HeldOnlyWhileAmbiguous
  BY <1>1 DEF HeldOnlyWhileAmbiguous
<1> QED
  BY <1>2, DetectorAlways, PTL

-----------------------------------------------------------------------------
(* The order of the callbacks                                              *)

Kind == {"text", "thinking", "error", "tools", "done"}

\* Callbacks that may be followed by any other.
Quiet == {"text", "thinking", "error"}

\* The callbacks a turn of the loop makes: before the end none but quiet ones, and at
\* the end OnDone last, with at most one batch of tool calls right before it.
QuietCallbacks(p) ==
  \/ p = <<>>
  \/ \E a \in Range(p) : p = <<a>> /\ a.kind \in Quiet
  \/ \E a, b \in Range(p) : p = <<a, b>> /\ a.kind \in Quiet /\ b.kind \in Quiet

LastCallbacks(p) ==
  \/ \E a \in Range(p) : p = <<a>> /\ a.kind = "done"
  \/ \E a, b \in Range(p) :
       p = <<a, b>> /\ a.kind \in Quiet \union {"tools"} /\ b.kind = "done"
  \/ \E a, b, c \in Range(p) :
       /\ p = <<a, b, c>>
       /\ a.kind \in Quiet /\ b.kind \in Quiet \union {"tools"} /\ c.kind = "done"

PendingInv ==
  /\ pc \in {"build", "connect"} => pending = <<>>
  /\ pc # "returned" => QuietCallbacks(pending)
  /\ pc = "returned" => pending = <<>> \/ LastCallbacks(pending)

\* After tool calls there is OnDone, and after OnDone nothing.
CallsInv ==
  /\ calls \in Seq(Kind)
  /\ pc \in {"build", "connect"} => calls = <<>>
  /\ calls # <<>> /\ Last(calls) = "done" => Returned
  /\ calls # <<>> /\ Last(calls) = "tools" =>
       pc = "returned" /\ \E a \in Range(pending) : pending = <<a>> /\ a.kind = "done"
  /\ calls # <<>> /\ Returned => Last(calls) = "done"

IInv == PendingInv /\ CallsInv

-----------------------------------------------------------------------------
(* What the steps of the loop put in pending                               *)

LEMMA CallKinds ==
  ASSUME NEW t
  PROVE  /\ Text(t).kind = "text"
         /\ TextIfAny(t) = <<>> \/ TextIfAny(t) = <<Text(t)>>
         /\ Outcome(t).kind \in {"error", "tools"}
BY DEF Text, TextIfAny, Outcome, Call

LEMMA RangeOfTuples ==
  ASSUME NEW a, NEW b, NEW c
  PROVE  a \in Range(<<a>>) /\ {a, b} \subseteq Range(<<a, b>>) /\ {a, b, c} \subseteq Range(<<a, b, c>>)
BY DEF Range

LEMMA Concatenated ==
  ASSUME NEW a, NEW b, NEW c
  PROVE  /\ <<>> \o <<>> = <<>> /\ <<>> \o <<a>> = <<a>> /\ <<a>> \o <<>> = <<a>>
         /\ <<>> \o <<b, c>> = <<b, c>>
         /\ <<a>> \o <<b>> = <<a, b>>
<1> DEFINE S == {a, b, c}
<1>1. /\ <<>> \in Seq(S) /\ <<a>> \in Seq(S) /\ <<b>> \in Seq(S)
      /\ <<a, b>> \in Seq(S) /\ <<b, c>> \in Seq(S) /\ <<a, b, c>> \in Seq(S)
  OBVIOUS
<1>2. \A s \in Seq(S) : <<>> \o s = s /\ s \o <<>> = s
  BY ConcatEmptySeq
<1>3. <<a>> \o <<b>> = <<a, b>>
  <2> DEFINE s == <<a>> \o <<b>>
             t == <<a, b>>
  <2>1. s \in Seq(S) /\ Len(s) = 2 /\ t \in Seq(S) /\ Len(t) = 2
    BY <1>1, ConcatProperties
  <2>2. ASSUME NEW i \in 1..2
        PROVE  s[i] = t[i]
    <3>1. s[i] = IF i <= 1 THEN <<a>>[i] ELSE <<b>>[i - 1]
      BY <1>1, ConcatProperties
    <3>2. i = 1 \/ i = 2
      OBVIOUS
    <3> QED
      BY <3>1, <3>2
  <2> HIDE DEF s, t
  <2>3. s = t
    BY <2>1, <2>2, SeqEqual
  <2> QED
    BY <2>3 DEF s, t
<1> QED
  BY <1>1, <1>2, <1>3

LEMMA ConcatenatedThree ==
  ASSUME NEW a, NEW b, NEW c
  PROVE  <<a>> \o <<b, c>> = <<a, b, c>>
<1> DEFINE S == {a, b, c}
           s == <<a>> \o <<b, c>>
           t == <<a, b, c>>
<1>1. /\ <<a>> \in Seq(S) /\ <<b, c>> \in Seq(S) /\ <<a, b, c>> \in Seq(S)
      /\ Len(<<a>>) = 1 /\ Len(<<b, c>>) = 2
  OBVIOUS
<1>2. s \in Seq(S) /\ Len(s) = 3 /\ t \in Seq(S) /\ Len(t) = 3
  BY <1>1, ConcatProperties
<1>3. ASSUME NEW i \in 1..3
      PROVE  s[i] = t[i]
  <2>1. s[i] = IF i <= 1 THEN <<a>>[i] ELSE <<b, c>>[i - 1]
    BY <1>1, ConcatProperties
  <2>2. i = 1 \/ i = 2 \/ i = 3
    OBVIOUS
  <2> QED
    BY <2>1, <2>2
<1> HIDE DEF s, t
<1>4. s = t
  BY <1>2, <1>3, SeqEqual
<1> QED
  BY <1>4 DEF s, t

LEMMA ShapesOfQuiet ==
  ASSUME NEW a, NEW b, a.kind \in Quiet, b.kind \in Quiet
  PROVE  QuietCallbacks(<<>>) /\ QuietCallbacks(<<a>>) /\ QuietCallbacks(<<a, b>>)
BY RangeOfTuples DEF QuietCallbacks

LEMMA ShapesOfLast ==
  ASSUME NEW a, NEW b, NEW c, a.kind \in Quiet, b.kind \in Quiet \union {"tools"}, c.kind = "done"
  PROVE  LastCallbacks(<<c>>) /\ LastCallbacks(<<b, c>>) /\ LastCallbacks(<<a, b, c>>)
BY RangeOfTuples DEF LastCallbacks

\* What a line with content is answered by, before the turn ends.
LEMMA LineCallbacks ==
  ASSUME NEW thinking \in BOOLEAN, NEW t
  PROVE  QuietCallbacks(Thinking(thinking)) /\ QuietCallbacks(Thinking(thinking) \o TextIfAny(t))
<1> DEFINE a == Call("thinking")
           b == Text(t)
<1>1. a.kind \in Quiet /\ b.kind \in Quiet
  BY DEF Call, Text, Quiet
<1>2. Thinking(thinking) = <<>> \/ Thinking(thinking) = <<a>>
  BY DEF Thinking
<1>3. TextIfAny(t) = <<>> \/ TextIfAny(t) = <<b>>
  BY DEF TextIfAny
<1> HIDE DEF a, b
<1>4. <<>> \o <<>> = <<>> /\ <<>> \o <<b>> = <<b>> /\ <<a>> \o <<>> = <<a>> /\ <<a>> \o <<b>> = <<a, b>>
  BY Concatenated
<1> QED
  BY <1>1, <1>2, <1>3, <1>4, ShapesOfQuiet

\* A complete tool turn, with or without thinking on its last line.
LEMMA ToolTurnCallbacks ==
  ASSUME NEW thinking \in BOOLEAN, NEW t
  PROVE  LastCallbacks(Thinking(thinking) \o <<Outcome(t), Call("done")>>)
<1> DEFINE a == Call("thinking")
           b == Outcome(t)
           c == Call("done")
<1>1. a.kind \in Quiet /\ b.kind \in Quiet \union {"tools"} /\ c.kind = "done"
  BY CallKinds DEF Call, Quiet
<1>2. Thinking(thinking) = <<>> \/ Thinking(thinking) = <<a>>
  BY DEF Thinking
<1> HIDE DEF a, b, c
<1>3. <<>> \o <<b, c>> = <<b, c>>
  BY Concatenated
<1>4. <<a>> \o <<b, c>> = <<a, b, c>>
  BY ConcatenatedThree
<1>5. LastCallbacks(<<b, c>>) /\ LastCallbacks(<<a, b, c>>)
  BY <1>1, ShapesOfLast
<1>6. LastCallbacks(Thinking(thinking) \o <<b, c>>)
  BY <1>2, <1>3, <1>4, <1>5
<1> QED
  BY <1>6 DEF b, c

LEMMA FinalCallbacks ==
  ASSUME Finalise
  PROVE  LastCallbacks(pending')
<1> DEFINE a == Text(contentBuffer)
           b == Outcome(contentBuffer)
           c == Call("done")
<1>1. a.kind \in Quiet /\ b.kind \in Quiet \union {"tools"} /\ c.kind = "done"
  BY CallKinds DEF Call, Quiet
<1>2. \/ pending' = <<>> \o <<c>>
      \/ pending' = <<b>> \o <<c>>
      \/ pending' = <<a>> \o <<c>>
  BY CallKinds DEF Finalise
<1> HIDE DEF a, b, c
<1>3. <<>> \o <<c>> = <<c>> /\ <<b>> \o <<c>> = <<b, c>> /\ <<a>> \o <<c>> = <<a, c>>
  BY Concatenated
<1>4. a.kind \in Quiet \union {"tools"}
  BY <1>1
<1>5. LastCallbacks(<<c>>) /\ LastCallbacks(<<b, c>>) /\ LastCallbacks(<<a, c>>)
  BY <1>1, <1>4, ShapesOfLast
<1> QED
  BY <1>2, <1>3, <1>5

\* What a step that makes no callback comes to.
Turn ==
  /\ pc # "returned" /\ pending = <<>>
  /\ calls' = calls
  /\ \/ pc' # "returned" /\ QuietCallbacks(pending')
     \/ pc' = "returned" /\ LastCallbacks(pending')

LEMMA LineTurn == Line => Turn /\ pc = "read" /\ pc' \in {"read", "finalise", "returned"}
<1> SUFFICES ASSUME Line
             PROVE  Turn /\ pc = "read" /\ pc' \in {"read", "finalise", "returned"}
  OBVIOUS
<1>1. PICK delta \in {<<>>} \union UNION {[1..n -> Sent] : n \in 1..MaxChunk},
           thinking \in BOOLEAN, last \in BOOLEAN :
         \/ PlainChunk(delta, thinking, last)
         \/ DetectingChunk(delta, thinking, last)
         \/ ToolChunk(delta, thinking, last)
  BY Zenon DEF Line
<1>2. CASE PlainChunk(delta, thinking, last)
  BY <1>2, LineCallbacks DEF PlainChunk, MoreLines, At, Turn, delivered
<1>3. CASE DetectingChunk(delta, thinking, last)
  BY <1>3, LineCallbacks DEF DetectingChunk, MoreLines, At, Turn, delivered
<1>4. CASE ToolChunk(delta, thinking, last)
  BY <1>4, LineCallbacks, ToolTurnCallbacks DEF ToolChunk, MoreLines, At, Turn, delivered
<1> QED
  BY <1>1, <1>2, <1>3, <1>4

\* Steps of the loop after the request was sent.
LEMMA LoopTurn ==
  ASSUME ConnectFails \/ Connected \/ ReadError \/ EndOfStream \/ Line
           \/ (\E last \in BOOLEAN : SkippedLine(last)) \/ Finalise
  PROVE  Turn /\ pc' \notin {"build", "connect"}
<1> DEFINE a == Call("error")
           c == Call("done")
<1>1. /\ a.kind \in Quiet /\ a.kind \in Quiet \union {"tools"} /\ c.kind = "done"
      /\ QuietCallbacks(<<>>) /\ QuietCallbacks(<<a>>) /\ LastCallbacks(<<a, c>>)
  <2>1. a.kind \in Quiet /\ c.kind = "done"
    BY DEF Call, Quiet
  <2> QED
    BY <2>1, ShapesOfQuiet, ShapesOfLast
<1> HIDE DEF a, c
<1>2. CASE ConnectFails
  BY <1>1, <1>2 DEF ConnectFails, At, Turn, delivered, a, c
<1>3. CASE Connected
  BY <1>1, <1>3 DEF Connected, At, Turn, delivered
<1>4. CASE ReadError
  BY <1>1, <1>4 DEF ReadError, MoreLines, At, Turn, delivered, a
<1>5. CASE EndOfStream
  BY <1>1, <1>5 DEF EndOfStream, At, Turn, delivered
<1>6. CASE Line
  BY <1>6, LineTurn
<1>7. CASE \E last \in BOOLEAN : SkippedLine(last)
  BY <1>1, <1>7 DEF SkippedLine, MoreLines, At, Turn, delivered
<1>8. CASE Finalise
  BY <1>8, FinalCallbacks DEF Finalise, At, Turn, delivered
<1> QED
  BY <1>2, <1>3, <1>4, <1>5, <1>6, <1>7, <1>8

\* A turn leaves the phase where it is.
LEMMA TurnStep ==
  ASSUME IInv, Turn, pc' \notin {"build", "connect"}
  PROVE  IInv' /\ Phase' = Phase
<1>1. pending' # <<>> \/ pc' # "returned"
  BY DEF Turn, LastCallbacks
<1>2. ~Returned /\ ~Returned'
  BY <1>1 DEF Turn, Returned
<1>3. calls # <<>> => Last(calls) \notin {"done", "tools"}
  BY <1>2 DEF IInv, CallsInv, Turn
<1>4. PendingInv'
  BY DEF Turn, PendingInv
<1>5. CallsInv'
  BY <1>2, <1>3 DEF IInv, CallsInv, Turn
<1>6. Phase' = Phase
  BY <1>2 DEF Turn, Phase
<1> QED
  BY <1>4, <1>5, <1>6 DEF IInv

-----------------------------------------------------------------------------
(* The callbacks themselves                                                *)

\* What is left of pending callbacks when the first is made.
LEMMA CallbacksLeft ==
  ASSUME PendingInv, pending # <<>>
  PROVE  LET c == Head(pending) IN
         \/ /\ pc # "returned" /\ c.kind \in Quiet
            /\ QuietCallbacks(Tail(pending))
         \/ /\ pc = "returned" /\ c.kind \in Quiet
            /\ LastCallbacks(Tail(pending))
         \/ /\ pc = "returned" /\ c.kind = "tools"
            /\ \E a \in Range(Tail(pending)) : Tail(pending) = <<a>> /\ a.kind = "done"
         \/ /\ pc = "returned" /\ c.kind = "done"
            /\ Tail(pending) = <<>>
<1> DEFINE rest == Tail(pending)
<1>1. CASE pc # "returned"
  <2>1. CASE \E a \in Range(pending) : pending = <<a>> /\ a.kind \in Quiet
    <3>1. PICK a : pending = <<a>> /\ a.kind \in Quiet
      BY <2>1
    <3>2. Head(<<a>>) = a /\ Tail(<<a>>) = <<>>
      OBVIOUS
    <3> QED
      BY <1>1, <3>1, <3>2 DEF QuietCallbacks
  <2>2. CASE \E a, b \in Range(pending) : pending = <<a, b>> /\ a.kind \in Quiet /\ b.kind \in Quiet
    <3>1. PICK a, b : pending = <<a, b>> /\ a.kind \in Quiet /\ b.kind \in Quiet
      BY <2>2
    <3>2. Head(<<a, b>>) = a /\ Tail(<<a, b>>) = <<b>>
      OBVIOUS
    <3> QED
      BY <1>1, <3>1, <3>2, ShapesOfQuiet
  <2> QED
    BY <1>1, <2>1, <2>2 DEF PendingInv, QuietCallbacks
<1>2. CASE pc = "returned"
  <2>1. CASE \E a \in Range(pending) : pending = <<a>> /\ a.kind = "done"
    <3>1. PICK a : pending = <<a>> /\ a.kind = "done"
      BY <2>1
    <3>2. Head(<<a>>) = a /\ Tail(<<a>>) = <<>>
      OBVIOUS
    <3> QED
      BY <1>2, <3>1, <3>2
  <2>2. CASE \E a, b \in Range(pending) :
               pending = <<a, b>> /\ a.kind \in Quiet \union {"tools"} /\ b.kind = "done"
    <3>1. PICK a, b : pending = <<a, b>> /\ a.kind \in Quiet \union {"tools"} /\ b.kind = "done"
      BY <2>2
    <3>2. Head(<<a, b>>) = a /\ Tail(<<a, b>>) = <<b>>
      OBVIOUS
    <3>3. b \in Range(<<b>>) /\ LastCallbacks(<<b>>)
      BY <3>1, RangeOfTuples DEF LastCallbacks
    <3> QED
      BY <1>2, <3>1, <3>2, <3>3
  <2>3. CASE \E a, b, c \in Range(pending) :
               /\ pending = <<a, b, c>>
               /\ a.kind \in Quiet /\ b.kind \in Quiet \union {"tools"} /\ c.kind = "done"
    <3>1. PICK a, b, c : /\ pending = <<a, b, c>>
                         /\ a.kind \in Quiet /\ b.kind \in Quiet \union {"tools"} /\ c.kind = "done"
      BY <2>3
    <3>2. Head(<<a, b, c>>) = a /\ Tail(<<a, b, c>>) = <<b, c>>
      OBVIOUS
    <3>3. LastCallbacks(<<b, c>>)
      BY <3>1, ShapesOfLast
    <3> QED
      BY <1>2, <3>1, <3>2, <3>3
  <2> QED
    BY <1>2, <2>1, <2>2, <2>3 DEF PendingInv, LastCallbacks
<1> QED
  BY <1>1, <1>2

\* What a callback adds to the calls.
LEMMA Called ==
  ASSUME calls \in Seq(Kind), Deliver, Head(pending).kind \in Kind
  PROVE  calls' \in Seq(Kind) /\ calls' # <<>> /\ Last(calls') = Head(pending).kind
<1> DEFINE k == Head(pending).kind
<1>1. CASE k \in {"text", "thinking"} /\ calls # <<>> /\ Last(calls) = k
  BY <1>1 DEF Deliver
<1>2. CASE ~(k \in {"text", "thinking"} /\ calls # <<>> /\ Last(calls) = k)
  <2>1. calls' = Append(calls, k)
    BY <1>2 DEF Deliver
  <2> HIDE DEF k
  <2>2. k \in Kind
    BY DEF k
  <2> QED
    BY <2>1, <2>2 DEF Last, k
<1> QED
  BY <1>1, <1>2

LEMMA DeliverStep ==
  ASSUME IInv, Deliver
  PROVE  IInv' /\ Protocol!PhaseNext
<1> DEFINE k == Head(pending).kind
           rest == Tail(pending)
<1>1. pending # <<>> /\ pending' = rest /\ pc' = pc
  BY DEF Deliver
<1>2. \/ pc # "returned" /\ k \in Quiet /\ QuietCallbacks(rest)
      \/ pc = "returned" /\ k \in Quiet /\ LastCallbacks(rest)
      \/ /\ pc = "returned" /\ k = "tools"
         /\ \E a \in Range(rest) : rest = <<a>> /\ a.kind = "done"
      \/ pc = "returned" /\ k = "done" /\ rest = <<>>
  BY <1>1, CallbacksLeft DEF IInv
<1>3. k \in Kind
  BY <1>2 DEF Kind, Quiet
<1>4. calls' \in Seq(Kind) /\ calls' # <<>> /\ Last(calls') = k
  BY <1>3, Called DEF IInv, CallsInv
<1>5. pc \notin {"build", "connect"}
  BY <1>1 DEF IInv, PendingInv
<1>6. Returned' <=> pc = "returned" /\ rest = <<>>
  BY <1>1 DEF Returned
<1>7. ~Returned /\ (calls # <<>> => Last(calls) # "done")
  BY <1>1 DEF Returned, IInv, CallsInv
<1>8. (calls # <<>> /\ Last(calls) = "tools") => k = "done"
  <2> SUFFICES ASSUME calls # <<>> /\ Last(calls) = "tools"
               PROVE  k = "done"
    OBVIOUS
  <2>1. PICK a : pending = <<a>> /\ a.kind = "done"
    BY DEF IInv, CallsInv
  <2>2. Head(<<a>>) = a
    OBVIOUS
  <2> QED
    BY <2>1, <2>2
<1> HIDE DEF k, rest
<1>9. rest = <<>> => ~LastCallbacks(rest)
  BY DEF LastCallbacks
<1>10. PendingInv'
  <2>1. (\E a \in Range(rest) : rest = <<a>> /\ a.kind = "done") => LastCallbacks(rest)
    BY DEF LastCallbacks
  <2> QED
    BY <1>1, <1>2, <1>5, <2>1 DEF PendingInv
<1>11. CallsInv'
  <2>1. k = "done" => Returned'
    BY <1>2, <1>6 DEF Quiet
  <2>2. k = "tools" => pc' = "returned" /\ \E a \in Range(rest) : rest = <<a>> /\ a.kind = "done"
    BY <1>1, <1>2 DEF Quiet
  <2>3. Returned' => k = "done"
    <3> SUFFICES ASSUME pc = "returned", rest = <<>>
                 PROVE  k = "done"
      BY <1>6
    <3>1. \A a : rest # <<a>>
      OBVIOUS
    <3> QED
      BY <1>2, <1>9, <3>1
  <2> QED
    BY <1>1, <1>4, <1>5, <2>1, <2>2, <2>3 DEF CallsInv
<1>12. Phase' = CASE k = "done" -> "closed" [] k = "tools" -> "tools" [] OTHER -> "open"
  BY <1>4 DEF Phase
<1>13. Phase \in {"idle", "open"} \/ (Phase = "tools" /\ k = "done")
  <2>1. CASE calls = <<>>
    BY <1>7, <2>1 DEF Phase
  <2>2. CASE calls # <<>> /\ Last(calls) = "tools"
    BY <1>8, <2>2 DEF Phase
  <2>3. CASE calls # <<>> /\ Last(calls) # "tools"
    BY <1>7, <2>3 DEF Phase
  <2> QED
    BY <2>1, <2>2, <2>3
<1>14. Protocol!PhaseNext
  <2>1. CASE k = "done"
    BY <1>12, <1>13, <2>1 DEF Protocol!PhaseNext, Protocol!CallDone
  <2>2. CASE k = "tools"
    BY <1>12, <1>13, <2>2 DEF Protocol!PhaseNext, Protocol!CallToolCalls
  <2>3. CASE k \in Quiet
    BY <1>12, <1>13, <2>3 DEF Protocol!PhaseNext, Protocol!CallText, Quiet
  <2> QED
    BY <1>2, <2>1, <2>2, <2>3
<1> QED
  BY <1>10, <1>11, <1>14 DEF IInv

-----------------------------------------------------------------------------

\* The request is built, or could not be.
LEMMA BuildStep ==
  ASSUME IInv, Build
  PROVE  IInv' /\ (Protocol!PhaseNext \/ Phase' = Phase)
<1>1. /\ pending = <<>> /\ pending' = <<>> /\ calls = <<>> /\ calls' = <<>>
      /\ pc = "build" /\ pc' \in {"connect", "returned"}
  BY DEF Build, At, delivered, IInv, CallsInv
<1>2. IInv'
  BY <1>1 DEF IInv, PendingInv, CallsInv, QuietCallbacks
<1>3. Phase = "idle" /\ Phase' \in {"idle", "aborted"}
  BY <1>1 DEF Phase, Returned
<1> QED
  BY <1>2, <1>3 DEF Protocol!PhaseNext, Protocol!Abort

LEMMA SameTurn ==
  ASSUME IInv, UNCHANGED <<pc, pending, calls>>
  PROVE  IInv' /\ Phase' = Phase
<1>1. Returned' <=> Returned
  BY DEF Returned
<1>2. Phase' = Phase
  BY <1>1 DEF Phase
<1>3. PendingInv'
  BY DEF IInv, PendingInv
<1>4. CallsInv'
  BY <1>1 DEF IInv, CallsInv
<1> QED
  BY <1>2, <1>3, <1>4 DEF IInv

LEMMA InitEstablishes == Init => IInv /\ Protocol!PhaseInit
<1> SUFFICES ASSUME Init
             PROVE  IInv /\ Protocol!PhaseInit
  OBVIOUS
<1>1. pc = "build" /\ pending = <<>> /\ calls = <<>>
  BY DEF Init
<1>2. IInv
  BY <1>1 DEF IInv, PendingInv, CallsInv, QuietCallbacks
<1>3. Phase = "idle"
  BY <1>1 DEF Phase, Returned
<1> QED
  BY <1>2, <1>3 DEF Protocol!PhaseInit

LEMMA NextPreserves == IInv /\ [Next]_vars => IInv' /\ [Protocol!PhaseNext]_Phase
<1> SUFFICES ASSUME IInv, [Next]_vars
             PROVE  IInv' /\ [Protocol!PhaseNext]_Phase
  OBVIOUS
<1>1. CASE Build
  BY <1>1, BuildStep
<1>2. CASE ConnectFails \/ Connected \/ ReadError \/ EndOfStream \/ Line
             \/ (\E last \in BOOLEAN : SkippedLine(last)) \/ Finalise
  BY <1>2, LoopTurn, TurnStep
<1>3. CASE Deliver
  BY <1>3, DeliverStep
<1>4. CASE Cancel \/ UNCHANGED vars
  <2>1. UNCHANGED <<pc, pending, calls>>
    BY <1>4 DEF Cancel, vars, delivered
  <2> QED
    BY <2>1, SameTurn
<1> QED
  BY <1>1, <1>2, <1>3, <1>4 DEF Next

\* The engine makes its callbacks in the order the emitters are written for, however
\* long the turn is, however it is cut and on every way out of the loop.
THEOREM ImplementsCallbackProtocol == Spec => KeepsCallbackProtocol
  BY InitEstablishes, NextPreserves, PTL DEF Spec, KeepsCallbackProtocol, Protocol!PhaseSpec

-----------------------------------------------------------------------------
(* The text shown                                                          *)

Callback == [kind : Kind, text : Texts]

\* The text that the callbacks p still hand over is t: one of them has it.
Owes(p, t) ==
  \E i \in 0..Len(p) :
    /\ t = IF i = 0 THEN <<>> ELSE p[i].text
    /\ \A j \in 1..Len(p) : j # i => p[j].text = <<>>

\* The text up to where the engine is: what the detector still holds is text only when
\* the turn has ended without a trigger.
Said ==
  IF hasFunctionCall /\ ~(pc = "returned" /\ state = "detecting") THEN yielded ELSE fed

EngineTypes ==
  /\ pc \in {"build", "connect", "read", "finalise", "returned"}
  /\ protocolName \in Formats \union {"none"}
  /\ eof \in BOOLEAN /\ cancelled \in BOOLEAN
  /\ pending \in Seq(Callback) /\ shown \in Texts
  /\ DetectorTypeOK

\* What was shown and what pending callbacks will show is what was said.
TextInv ==
  /\ EngineTypes
  /\ pc \in {"build", "connect"} => DetectorInit
  /\ hasFunctionCall => DetectorInv
  /\ ~hasFunctionCall => state = "detecting" /\ yielded = <<>> /\ dropped = <<>>
  /\ \E t \in Texts : Owes(pending, t) /\ shown \o t = Said

LEMMA EmptyText == <<>> \in Texts /\ Len(<<>>) = 0
BY DEF Texts

LEMMA CallbackTypes ==
  ASSUME NEW t \in Texts
  PROVE  /\ Text(t) \in Callback /\ Text(t).text = t
         /\ \A k \in Kind : Call(k) \in Callback /\ Call(k).text = <<>> /\ Call(k).kind = k
         /\ \E k \in {"error", "tools"} : Outcome(t) = Call(k)
<1>1. Text(t) \in Callback /\ Text(t).text = t
  BY DEF Text, Callback, Kind
<1>2. \A k \in Kind : Call(k) \in Callback /\ Call(k).text = <<>> /\ Call(k).kind = k
  BY EmptyText DEF Call, Callback
<1>3. Outcome(t) = Call("error") \/ Outcome(t) = Call("tools")
  BY DEF Outcome
<1> QED
  BY <1>1, <1>2, <1>3

LEMMA OwedByNone ==
  ASSUME NEW p \in Seq(Callback), \A j \in 1..Len(p) : p[j].text = <<>>
  PROVE  Owes(p, <<>>)
<1>1. 0 \in 0..Len(p)
  OBVIOUS
<1> QED
  BY <1>1 DEF Owes

LEMMA NoneOwed == <<>> \in Seq(Callback) /\ Owes(<<>>, <<>>)
<1>1. <<>> \in Seq(Callback) /\ Len(<<>>) = 0
  OBVIOUS
<1>2. \A j \in 1..0 : <<>>[j].text = <<>>
  OBVIOUS
<1> QED
  BY <1>1, <1>2, OwedByNone

\* What a turn of the loop puts in pending, with and without text.
LEMMA OwedByOne ==
  ASSUME NEW a \in Callback, a.text = <<>>, NEW b \in Callback, NEW c \in Callback, c.text = <<>>
  PROVE  /\ <<>> \in Seq(Callback) /\ Owes(<<>>, <<>>)
         /\ <<b>> \in Seq(Callback) /\ Owes(<<b>>, b.text)
         /\ <<a, b>> \in Seq(Callback) /\ Owes(<<a, b>>, b.text)
         /\ <<b, c>> \in Seq(Callback) /\ Owes(<<b, c>>, b.text)
         /\ <<a, b, c>> \in Seq(Callback) /\ Owes(<<a, b, c>>, b.text)
<1>1. <<>> \in Seq(Callback) /\ Owes(<<>>, <<>>)
  BY NoneOwed
<1>2. <<b>> \in Seq(Callback) /\ Owes(<<b>>, b.text)
  <2>1. Len(<<b>>) = 1 /\ <<b>>[1] = b
    OBVIOUS
  <2> QED BY <2>1 DEF Owes
<1>3. <<a, b>> \in Seq(Callback) /\ Owes(<<a, b>>, b.text)
  <2>1. Len(<<a, b>>) = 2 /\ <<a, b>>[1] = a /\ <<a, b>>[2] = b
    OBVIOUS
  <2>2. \A j \in 1..2 : j # 2 => <<a, b>>[j].text = <<>>
    BY <2>1
  <2>3. 2 \in 0..2
    OBVIOUS
  <2> QED BY <2>1, <2>2, <2>3 DEF Owes
<1>4. <<b, c>> \in Seq(Callback) /\ Owes(<<b, c>>, b.text)
  <2>1. Len(<<b, c>>) = 2 /\ <<b, c>>[1] = b /\ <<b, c>>[2] = c
    OBVIOUS
  <2>2. \A j \in 1..2 : j # 1 => <<b, c>>[j].text = <<>>
    BY <2>1
  <2>3. 1 \in 0..2
    OBVIOUS
  <2> QED BY <2>1, <2>2, <2>3 DEF Owes
<1>5. <<a, b, c>> \in Seq(Callback) /\ Owes(<<a, b, c>>, b.text)
  <2>1. Len(<<a, b, c>>) = 3 /\ <<a, b, c>>[1] = a /\ <<a, b, c>>[2] = b /\ <<a, b, c>>[3] = c
    OBVIOUS
  <2>2. \A j \in 1..3 : j # 2 => <<a, b, c>>[j].text = <<>>
    BY <2>1
  <2>3. 2 \in 0..3
    OBVIOUS
  <2> QED BY <2>1, <2>2, <2>3 DEF Owes
<1> QED
  BY <1>1, <1>2, <1>3, <1>4, <1>5

LEMMA LineOwes ==
  ASSUME NEW thinking \in BOOLEAN, NEW t \in Texts
  PROVE  LET p == Thinking(thinking) \o TextIfAny(t) IN p \in Seq(Callback) /\ Owes(p, t)
<1> DEFINE a == Call("thinking")
           b == Text(t)
<1>1. a \in Callback /\ a.text = <<>> /\ b \in Callback /\ b.text = t
  BY CallbackTypes DEF Kind
<1>2. Thinking(thinking) = <<>> \/ Thinking(thinking) = <<a>>
  BY DEF Thinking
<1>3. (t = <<>> /\ TextIfAny(t) = <<>>) \/ TextIfAny(t) = <<b>>
  BY DEF TextIfAny
<1> HIDE DEF a, b
<1>4. <<>> \o <<>> = <<>> /\ <<>> \o <<b>> = <<b>> /\ <<a>> \o <<>> = <<a>> /\ <<a>> \o <<b>> = <<a, b>>
  BY Concatenated
<1>5. /\ <<>> \in Seq(Callback) /\ Owes(<<>>, <<>>) /\ <<b>> \in Seq(Callback) /\ Owes(<<b>>, t)
      /\ <<a, b>> \in Seq(Callback) /\ Owes(<<a, b>>, t)
  BY <1>1, OwedByOne
<1>6. <<a>> \in Seq(Callback) /\ Owes(<<a>>, <<>>)
  BY <1>1, OwedByOne
<1> QED
  BY <1>2, <1>3, <1>4, <1>5, <1>6

\* A callback with no text before it or after it.
LEMMA EndOwes ==
  ASSUME NEW thinking \in BOOLEAN, NEW t \in Texts
  PROVE  LET p == Thinking(thinking) \o <<Outcome(t), Call("done")>> IN p \in Seq(Callback) /\ Owes(p, <<>>)
<1> DEFINE a == Call("thinking")
           b == Outcome(t)
           c == Call("done")
<1>1. /\ a \in Callback /\ a.text = <<>> /\ b \in Callback /\ b.text = <<>>
      /\ c \in Callback /\ c.text = <<>>
  BY CallbackTypes DEF Kind
<1>2. Thinking(thinking) = <<>> \/ Thinking(thinking) = <<a>>
  BY DEF Thinking
<1> HIDE DEF a, b, c
<1>3. <<>> \o <<b, c>> = <<b, c>> /\ <<a>> \o <<b, c>> = <<a, b, c>>
  BY Concatenated, ConcatenatedThree
<1>4. /\ <<b, c>> \in Seq(Callback) /\ Owes(<<b, c>>, <<>>)
      /\ <<a, b, c>> \in Seq(Callback) /\ Owes(<<a, b, c>>, <<>>)
  BY <1>1, OwedByOne
<1>5. LET p == Thinking(thinking) \o <<b, c>> IN p \in Seq(Callback) /\ Owes(p, <<>>)
  BY <1>2, <1>3, <1>4
<1> QED
  BY <1>5 DEF b, c

LEMMA FinalOwes ==
  ASSUME Finalise, contentBuffer \in Texts
  PROVE  /\ pending' \in Seq(Callback)
         /\ Owes(pending', IF hasFunctionCall /\ state # "tool_parsing" THEN contentBuffer ELSE <<>>)
<1> DEFINE a == Text(contentBuffer)
           b == Outcome(contentBuffer)
           c == Call("done")
           t == IF hasFunctionCall /\ state # "tool_parsing" THEN contentBuffer ELSE <<>>
<1>1. /\ a \in Callback /\ a.text = contentBuffer /\ b \in Callback /\ b.text = <<>>
      /\ c \in Callback /\ c.text = <<>>
  BY CallbackTypes DEF Kind
<1>2. \/ pending' = <<>> \o <<c>> /\ t = <<>>
      \/ pending' = <<b>> \o <<c>> /\ t = <<>>
      \/ pending' = <<a>> \o <<c>> /\ t = contentBuffer
  BY DEF Finalise, TextIfAny
<1> HIDE DEF a, b, c, t
<1>3. <<>> \o <<c>> = <<c>> /\ <<b>> \o <<c>> = <<b, c>> /\ <<a>> \o <<c>> = <<a, c>>
  BY Concatenated
<1>4. /\ <<c>> \in Seq(Callback) /\ Owes(<<c>>, <<>>)
      /\ <<b, c>> \in Seq(Callback) /\ Owes(<<b, c>>, <<>>)
      /\ <<a, c>> \in Seq(Callback) /\ Owes(<<a, c>>, contentBuffer)
  BY <1>1, OwedByOne
<1>5. pending' \in Seq(Callback) /\ Owes(pending', t)
  BY <1>2, <1>3, <1>4
<1> QED
  BY <1>5 DEF t

\* Making a callback hands over what it owes.
LEMMA OwesLess ==
  ASSUME NEW p \in Seq(Callback), p # <<>>, NEW t \in Texts, Owes(p, t)
  PROVE  \E u \in Texts : Owes(Tail(p), u) /\ Head(p).text \o u = t /\ Head(p).text \in Texts
<1>1. PICK i \in 0..Len(p) : /\ t = IF i = 0 THEN <<>> ELSE p[i].text
                             /\ \A j \in 1..Len(p) : j # i => p[j].text = <<>>
  BY DEF Owes
<1>2. PICK h, q : h = p[1] /\ q = Tail(p)
  OBVIOUS
<1>3. h = Head(p) /\ h \in Callback /\ h.text \in Texts /\ Len(p) \in Nat \ {0}
  <2>1. h = Head(p) /\ h \in Callback /\ Len(p) \in Nat \ {0}
    BY <1>2
  <2> QED BY <2>1 DEF Callback
<1>4. q \in Seq(Callback) /\ Len(q) = Len(p) - 1 /\ \A k \in 1..Len(q) : q[k] = p[k + 1]
  BY <1>2
<1>5. CASE i = 1
  <2>1. ASSUME NEW k \in 1..Len(q)
        PROVE  q[k].text = <<>>
    <3>1. k + 1 \in 1..Len(p) /\ k + 1 # 1
      BY <1>3, <1>4
    <3> QED BY <1>1, <1>4, <1>5, <3>1
  <2>2. Owes(q, <<>>)
    BY <1>4, <2>1, OwedByNone
  <2>3. t = h.text /\ h.text \o <<>> = h.text
    BY <1>1, <1>2, <1>3, <1>5, Joins
  <2> QED BY <1>2, <1>3, <2>2, <2>3, EmptyText
<1>6. CASE i # 1
  <2>1. h.text = <<>> /\ <<>> \o t = t
    BY <1>1, <1>2, <1>3, <1>6, Joins
  <2>2. CASE i = 0
    <3>1. ASSUME NEW k \in 1..Len(q)
          PROVE  q[k].text = <<>>
      <4>1. k + 1 \in 1..Len(p) /\ k + 1 # 0
        BY <1>3, <1>4
      <4> QED BY <1>1, <1>4, <2>2, <4>1
    <3>2. Owes(q, <<>>) /\ t = <<>>
      BY <1>1, <1>4, <2>2, <3>1, OwedByNone
    <3> QED BY <1>2, <1>3, <2>1, <3>2, EmptyText
  <2>3. CASE i # 0
    <3>1. PICK m : m = i - 1
      OBVIOUS
    <3>2. m \in 1..Len(q) /\ m + 1 = i /\ m # 0
      BY <1>3, <1>4, <1>6, <2>3, <3>1
    <3>3. q[m].text = t
      BY <1>1, <1>4, <2>3, <3>2
    <3>4. ASSUME NEW k \in 1..Len(q), k # m
          PROVE  q[k].text = <<>>
      <4>1. k + 1 \in 1..Len(p) /\ k + 1 # i
        BY <1>3, <1>4, <3>2, <3>4
      <4> QED BY <1>1, <1>4, <4>1
    <3>5. m \in 0..Len(q)
      BY <3>2
    <3>6. Owes(q, t)
      BY <3>2, <3>3, <3>4, <3>5 DEF Owes
    <3> QED BY <1>2, <1>3, <2>1, <3>6
  <2> QED BY <2>2, <2>3
<1> QED
  BY <1>5, <1>6

LEMMA TextInit == Init => TextInv
<1> SUFFICES ASSUME Init
             PROVE  TextInv
  OBVIOUS
<1>1. /\ pc = "build" /\ pending = <<>> /\ shown = <<>> /\ DetectorInit
      /\ eof \in BOOLEAN /\ cancelled \in BOOLEAN /\ protocolName \in Formats \union {"none"}
  BY DEF Init
<1>2. DetectorInv /\ DetectorTypeOK
  BY <1>1, InitDetector DEF DetectorInv
<1>3. state = "detecting" /\ yielded = <<>> /\ dropped = <<>> /\ fed = <<>>
  BY <1>1 DEF DetectorInit
<1>4. Owes(<<>>, <<>>) /\ <<>> \in Seq(Callback)
  BY NoneOwed
<1>5. Said = <<>>
  BY <1>3 DEF Said
<1>6. <<>> \o <<>> = <<>>
  BY EmptyText, Joins
<1>7. EngineTypes
  BY <1>1, <1>2, <1>4, EmptyText DEF EngineTypes
<1>8. \E t \in Texts : Owes(pending, t) /\ shown \o t = Said
  BY <1>1, <1>4, <1>5, <1>6, EmptyText
<1> QED
  BY <1>1, <1>2, <1>3, <1>7, <1>8 DEF TextInv

\* When no callback is pending everything said was shown.
LEMMA AllShown ==
  ASSUME TextInv, pending = <<>>
  PROVE  shown = Said /\ shown \in Texts
<1>1. PICK t \in Texts : Owes(pending, t) /\ shown \o t = Said
  BY DEF TextInv
<1>2. t = <<>>
  <2>1. PICK i \in 0..Len(pending) : t = IF i = 0 THEN <<>> ELSE pending[i].text
    BY <1>1 DEF Owes
  <2>2. Len(<<>>) = 0
    OBVIOUS
  <2>3. i = 0
    BY <2>1, <2>2
  <2> QED BY <2>1, <2>3
<1>3. shown \in Texts
  BY DEF TextInv, EngineTypes
<1> QED
  BY <1>1, <1>2, <1>3, Joins

\* Every step but those of lines with content leaves the detector alone.
LEMMA RestingDetector ==
  ASSUME TextInv, UNCHANGED <<protocolName, detectorVars>>
  PROVE  /\ DetectorTypeOK' /\ (hasFunctionCall' <=> hasFunctionCall)
         /\ hasFunctionCall' => DetectorInv'
         /\ ~hasFunctionCall' => state' = "detecting" /\ yielded' = <<>> /\ dropped' = <<>>
         /\ DetectorInit => DetectorInit'
<1>1. hasFunctionCall' <=> hasFunctionCall
  BY DEF hasFunctionCall
<1>2. DetectorInv => DetectorInv'
  BY DetectorStays
<1>3. DetectorTypeOK'
  BY DEF detectorVars, DetectorTypeOK, TextInv, EngineTypes
<1>4. DetectorInit => DetectorInit'
  BY DEF detectorVars, DetectorInit
<1>5. state' = state /\ yielded' = yielded /\ dropped' = dropped
  BY DEF detectorVars
<1> QED
  BY <1>1, <1>2, <1>3, <1>4, <1>5 DEF TextInv

\* A turn of the loop without text: what was said stays said.
LEMMA SilentTurn ==
  ASSUME TextInv, UNCHANGED <<protocolName, shown, detectorVars>>, pending = <<>>,
         pending' \in Seq(Callback), Owes(pending', <<>>), Said' = Said,
         pc' \in {"build", "connect", "read", "finalise", "returned"},
         pc' \in {"build", "connect"} => pc \in {"build", "connect"},
         eof' \in BOOLEAN, cancelled' \in BOOLEAN
  PROVE  TextInv'
<1>1. shown = Said /\ shown \in Texts /\ shown \o <<>> = shown
  BY AllShown, Joins
<1>2. /\ DetectorTypeOK' /\ (hasFunctionCall' => DetectorInv')
      /\ ~hasFunctionCall' => state' = "detecting" /\ yielded' = <<>> /\ dropped' = <<>>
      /\ pc' \in {"build", "connect"} => DetectorInit'
  BY RestingDetector DEF TextInv
<1>3. EngineTypes'
  BY <1>1, <1>2 DEF EngineTypes, TextInv
<1>4. \E t \in Texts : Owes(pending', t) /\ shown' \o t = Said'
  BY <1>1, EmptyText
<1> QED
  BY <1>2, <1>3, <1>4 DEF TextInv

\* Callbacks that the steps around the loop make.
LEMMA NoCallback ==
  /\ <<>> \in Seq(Callback) /\ Owes(<<>>, <<>>)
  /\ <<Call("error")>> \in Seq(Callback) /\ Owes(<<Call("error")>>, <<>>)
  /\ <<Call("error"), Call("done")>> \in Seq(Callback) /\ Owes(<<Call("error"), Call("done")>>, <<>>)
<1> DEFINE a == Call("error")
           c == Call("done")
<1>1. a \in Callback /\ a.text = <<>> /\ c \in Callback /\ c.text = <<>>
  BY CallbackTypes, EmptyText DEF Kind
<1> HIDE DEF a, c
<1>2. /\ <<>> \in Seq(Callback) /\ Owes(<<>>, <<>>) /\ <<a>> \in Seq(Callback) /\ Owes(<<a>>, <<>>)
      /\ <<a, c>> \in Seq(Callback) /\ Owes(<<a, c>>, <<>>)
  BY <1>1, OwedByOne
<1> QED
  BY <1>2 DEF a, c

\* Up to the request being sent nothing was read, so nothing was said.
LEMMA NothingSaid ==
  ASSUME DetectorInit
  PROVE  Said = <<>>
BY DEF DetectorInit, Said

LEMMA QuietSteps ==
  ASSUME TextInv, Build \/ ConnectFails \/ Connected \/ ReadError \/ EndOfStream
                    \/ \E last \in BOOLEAN : SkippedLine(last)
  PROVE  TextInv'
<1>1. /\ pending = <<>> /\ pending' \in {<<>>, <<Call("error")>>, <<Call("error"), Call("done")>>}
      /\ UNCHANGED <<protocolName, shown, detectorVars>>
  BY DEF Build, ConnectFails, Connected, ReadError, EndOfStream, SkippedLine, MoreLines, At, delivered
<1>2. /\ pc \in {"build", "connect"} \/ (pc = "read" /\ pc' \in {"read", "finalise"})
      /\ pc' \in {"build", "connect", "read", "finalise", "returned"}
      /\ pc' \in {"build", "connect"} => pc \in {"build", "connect"}
  BY DEF Build, ConnectFails, Connected, ReadError, EndOfStream, SkippedLine, MoreLines, At
<1>3. eof' \in BOOLEAN /\ cancelled' \in BOOLEAN
  BY DEF Build, ConnectFails, Connected, ReadError, EndOfStream, SkippedLine, TextInv, EngineTypes
<1>4. pending' \in Seq(Callback) /\ Owes(pending', <<>>)
  BY <1>1, NoCallback
<1>5. Said' = Said
  <2>1. CASE pc \in {"build", "connect"}
    <3>1. DetectorInit /\ DetectorInit'
      BY <1>1, <2>1, RestingDetector DEF TextInv
    <3>2. Said = <<>>
      BY <3>1, NothingSaid
    <3>3. Said' = <<>>
      BY <3>1 DEF DetectorInit, Said
    <3> QED BY <3>2, <3>3
  <2>2. CASE pc = "read" /\ pc' \in {"read", "finalise"}
    BY <1>1, <2>2 DEF Said, hasFunctionCall, detectorVars
  <2> QED BY <1>2, <2>1, <2>2
<1> QED
  BY <1>1, <1>2, <1>3, <1>4, <1>5, SilentTurn

LEMMA DeliverText ==
  ASSUME TextInv, Deliver
  PROVE  TextInv'
<1>1. /\ pending # <<>> /\ pending' = Tail(pending) /\ shown' = shown \o Head(pending).text
      /\ UNCHANGED <<pc, protocolName, eof, cancelled, detectorVars>>
  BY DEF Deliver
<1>2. pending \in Seq(Callback) /\ shown \in Texts
  BY DEF TextInv, EngineTypes
<1>3. PICK t \in Texts : Owes(pending, t) /\ shown \o t = Said
  BY DEF TextInv
<1>4. PICK u \in Texts : Owes(Tail(pending), u) /\ Head(pending).text \o u = t /\ Head(pending).text \in Texts
  BY <1>1, <1>2, <1>3, OwesLess
<1>5. PICK h : h = Head(pending).text
  OBVIOUS
<1>6. (shown \o h) \o u = shown \o (h \o u) /\ shown \o h \in Texts
  BY <1>2, <1>4, <1>5, Assoc, Joins
<1>7. Said' = Said
  BY <1>1 DEF Said, hasFunctionCall, detectorVars
<1>8. /\ DetectorTypeOK' /\ (hasFunctionCall' => DetectorInv')
      /\ ~hasFunctionCall' => state' = "detecting" /\ yielded' = <<>> /\ dropped' = <<>>
      /\ pc' \in {"build", "connect"} => DetectorInit'
  BY <1>1, RestingDetector DEF TextInv
<1>9. pending' \in Seq(Callback)
  BY <1>1, <1>2
<1>10. EngineTypes'
  BY <1>1, <1>5, <1>6, <1>8, <1>9 DEF EngineTypes, TextInv
<1>11. \E v \in Texts : Owes(pending', v) /\ shown' \o v = Said'
  BY <1>1, <1>3, <1>4, <1>5, <1>6, <1>7
<1> QED
  BY <1>8, <1>10, <1>11 DEF TextInv

LEMMA CancelText ==
  ASSUME TextInv, UNCHANGED <<pc, protocolName, eof, pending, delivered, detectorVars>>, cancelled' \in BOOLEAN
  PROVE  TextInv'
<1>1. Said' = Said
  BY DEF Said, hasFunctionCall, detectorVars
<1>2. /\ DetectorTypeOK' /\ (hasFunctionCall' => DetectorInv')
      /\ ~hasFunctionCall' => state' = "detecting" /\ yielded' = <<>> /\ dropped' = <<>>
      /\ pc' \in {"build", "connect"} => DetectorInit'
  BY RestingDetector DEF TextInv
<1>3. EngineTypes'
  BY <1>2 DEF EngineTypes, TextInv, delivered
<1>4. \E t \in Texts : Owes(pending', t) /\ shown' \o t = Said'
  <2>1. PICK t \in Texts : Owes(pending, t) /\ shown \o t = Said
    BY DEF TextInv
  <2> QED BY <1>1, <2>1 DEF delivered
<1> QED
  BY <1>2, <1>3, <1>4 DEF TextInv

\* What was added to a text.
LEMMA Added ==
  ASSUME NEW y \in Texts, NEW x \in Texts
  PROVE  SubSeq(y \o x, Len(y) + 1, Len(y \o x)) = x
<1>1. PICK z : z = y \o x
  OBVIOUS
<1>2. 0 \in 0..Len(x) /\ Len(y) + 0 = Len(y)
  BY DEF Texts
<1>3. Rest(z, Len(y) + 0) = Rest(x, 0)
  BY <1>1, <1>2, RestOfText
<1>4. Rest(x, 0) = x
  BY <1>2, CutAt
<1>5. Rest(z, Len(y)) = x
  BY <1>2, <1>3, <1>4
<1> QED
  BY <1>1, <1>5 DEF Rest

\* The contents of a line are text.
LEMMA LineDelta ==
  ASSUME Line
  PROVE  \E delta \in Texts, thinking, last \in BOOLEAN :
           \/ PlainChunk(delta, thinking, last)
           \/ DetectingChunk(delta, thinking, last)
           \/ ToolChunk(delta, thinking, last)
<1>1. PICK delta \in {<<>>} \union UNION {[1..n -> Sent] : n \in 1..MaxChunk},
           thinking \in BOOLEAN, last \in BOOLEAN :
         \/ PlainChunk(delta, thinking, last)
         \/ DetectingChunk(delta, thinking, last)
         \/ ToolChunk(delta, thinking, last)
  BY Zenon DEF Line
<1>2. delta \in Texts
  <2>1. CASE delta = <<>>
    BY <2>1, EmptyText
  <2>2. CASE delta # <<>>
    <3>1. PICK n \in 1..MaxChunk : delta \in [1..n -> Sent]
      BY <2>2
    <3>2. delta \in [1..n -> Char] /\ n \in Nat
      BY <3>1, TurnAssumption
    <3> QED BY <3>2 DEF Texts
  <2> QED BY <2>1, <2>2
<1> QED
  BY <1>1, <1>2

\* What a line with content has to do for the text.
LEMMA TextTurn ==
  ASSUME TextInv, pc = "read", pending = <<>>, UNCHANGED <<protocolName, cancelled, shown>>,
         pc' \in {"read", "finalise", "returned"}, eof' \in BOOLEAN,
         DetectorTypeOK', hasFunctionCall => DetectorInv',
         ~hasFunctionCall => state' = "detecting" /\ yielded' = <<>> /\ dropped' = <<>>,
         NEW t \in Texts, Said' = Said \o t, pending' \in Seq(Callback), Owes(pending', t)
  PROVE  TextInv'
<1>1. shown = Said /\ shown \in Texts
  BY AllShown
<1>2. hasFunctionCall' <=> hasFunctionCall
  BY DEF hasFunctionCall
<1>3. EngineTypes'
  BY DEF EngineTypes, TextInv
<1>4. \E u \in Texts : Owes(pending', u) /\ shown' \o u = Said'
  BY <1>1
<1>5. pc' \notin {"build", "connect"}
  OBVIOUS
<1> QED
  BY <1>2, <1>3, <1>4, <1>5 DEF TextInv

LEMMA PlainText ==
  ASSUME TextInv, NEW delta \in Texts, NEW thinking \in BOOLEAN, NEW last \in BOOLEAN,
         PlainChunk(delta, thinking, last)
  PROVE  TextInv'
<1>1. /\ pc = "read" /\ pending = <<>> /\ UNCHANGED <<protocolName, cancelled, shown>>
      /\ ~hasFunctionCall /\ fed' = fed \o delta
      /\ pending' = Thinking(thinking) \o TextIfAny(delta)
      /\ pc' \in {"read", "finalise", "returned"} /\ eof' = last
      /\ UNCHANGED <<contentBuffer, state, thinkDepth, yielded, dropped>>
  BY DEF PlainChunk, MoreLines, At, delivered
<1>2. pending' \in Seq(Callback) /\ Owes(pending', delta)
  BY <1>1, LineOwes
<1>3. Said = fed
  BY <1>1 DEF Said
<1>4. Said' = fed'
  BY <1>1 DEF Said, hasFunctionCall
<1>5. DetectorTypeOK'
  <2>1. fed \in Texts
    BY DetectorTypes DEF TextInv, EngineTypes
  <2>2. fed' \in Texts
    BY <1>1, <2>1, Joins
  <2> QED BY <1>1, <2>2 DEF TextInv, EngineTypes, DetectorTypeOK, Texts
<1>6. state' = "detecting" /\ yielded' = <<>> /\ dropped' = <<>>
  BY <1>1 DEF TextInv
<1> QED
  BY <1>1, <1>2, <1>3, <1>4, <1>5, <1>6, TextTurn

LEMMA DetectingText ==
  ASSUME TextInv, NEW delta \in Texts, NEW thinking \in BOOLEAN, NEW last \in BOOLEAN,
         DetectingChunk(delta, thinking, last)
  PROVE  TextInv'
<1>1. /\ pc = "read" /\ pending = <<>> /\ UNCHANGED <<protocolName, cancelled, shown>>
      /\ hasFunctionCall /\ state = "detecting" /\ DetectorInv
      /\ pc' \in {"read", "finalise"} /\ eof' = last
      /\ pending' = Thinking(thinking)
                      \o TextIfAny(SubSeq(yielded', Len(yielded) + 1, Len(yielded')))
  BY DEF DetectingChunk, MoreLines, At, delivered, TextInv
<1>2. DetectorInv' /\ \E x \in Texts : yielded' = yielded \o x
  <2>1. CASE delta = <<>>
    <3>1. UNCHANGED detectorVars
      BY <2>1 DEF DetectingChunk
    <3>2. yielded' = yielded
      BY <3>1 DEF detectorVars
    <3>3. yielded \in Texts
      BY <1>1, DetectorTypes DEF DetectorInv
    <3> QED BY <1>1, <3>1, <3>2, <3>3, DetectorStays, EmptyText, Joins
  <2>2. CASE delta # <<>>
    <3>1. ProcessChunk(delta)
      BY <2>2 DEF DetectingChunk
    <3> QED BY <1>1, <3>1, Detects
  <2> QED BY <2>1, <2>2
<1>3. PICK x \in Texts : yielded' = yielded \o x
  BY <1>2
<1>4. yielded \in Texts
  BY <1>1, DetectorTypes DEF DetectorInv
<1>5. SubSeq(yielded', Len(yielded) + 1, Len(yielded')) = x
  BY <1>3, <1>4, Added
<1>6. pending' \in Seq(Callback) /\ Owes(pending', x)
  BY <1>1, <1>5, LineOwes
<1>7. Said = yielded
  BY <1>1 DEF Said
<1>8. Said' = yielded'
  BY <1>1 DEF Said, hasFunctionCall
<1>9. DetectorTypeOK'
  BY <1>2 DEF DetectorInv
<1> QED
  BY <1>1, <1>2, <1>3, <1>6, <1>7, <1>8, <1>9, TextTurn

LEMMA ToolText ==
  ASSUME TextInv, NEW delta \in Texts, NEW thinking \in BOOLEAN, NEW last \in BOOLEAN,
         ToolChunk(delta, thinking, last)
  PROVE  TextInv'
<1>1. /\ pc = "read" /\ pending = <<>> /\ UNCHANGED <<protocolName, cancelled, shown>>
      /\ hasFunctionCall /\ state = "tool_parsing" /\ DetectorInv /\ AppendToBuffer(delta)
      /\ pc' \in {"read", "returned"} /\ eof' = last
      /\ \/ pending' = Thinking(thinking) \o <<Outcome(contentBuffer'), Call("done")>>
         \/ pending' = Thinking(thinking)
  BY DEF ToolChunk, MoreLines, At, delivered, TextInv
<1>2. DetectorInv' /\ UNCHANGED <<state, yielded>>
  BY <1>1, ChunkInv DEF AppendToBuffer
<1>3. contentBuffer' \in Texts /\ yielded \in Texts
  BY <1>1, <1>2, DetectorTypes DEF DetectorInv, DetectorTypeOK, Texts
<1>4. pending' \in Seq(Callback) /\ Owes(pending', <<>>)
  <2>1. CASE pending' = Thinking(thinking) \o <<Outcome(contentBuffer'), Call("done")>>
    BY <1>3, <2>1, EndOwes
  <2>2. CASE pending' = Thinking(thinking)
    <3>1. Thinking(thinking) \o TextIfAny(<<>>) = Thinking(thinking)
      <4>1. <<>> \o <<>> = <<>> /\ <<Call("thinking")>> \o <<>> = <<Call("thinking")>>
        BY Concatenated
      <4> QED BY <4>1 DEF Thinking, TextIfAny
    <3> QED BY <2>2, <3>1, LineOwes, EmptyText
  <2> QED BY <1>1, <2>1, <2>2
<1>5. Said = yielded
  BY <1>1 DEF Said
<1>6. Said' = yielded
  BY <1>1, <1>2 DEF Said, hasFunctionCall
<1>7. DetectorTypeOK'
  BY <1>2 DEF DetectorInv
<1>8. Said' = Said \o <<>>
  BY <1>3, <1>5, <1>6, Joins
<1> QED
  BY <1>1, <1>2, <1>4, <1>7, <1>8, EmptyText, TextTurn

LEMMA FinaliseText ==
  ASSUME TextInv, Finalise
  PROVE  TextInv'
<1>1. /\ pc = "finalise" /\ pending = <<>> /\ pc' = "returned"
      /\ UNCHANGED <<protocolName, eof, cancelled, shown, detectorVars>>
  BY DEF Finalise, At, delivered
<1>2. contentBuffer \in Texts /\ fed \in Texts /\ yielded \in Texts /\ state \in {"detecting", "tool_parsing"}
  BY DetectorTypes DEF TextInv, EngineTypes
<1>3. PICK t : t = IF hasFunctionCall /\ state # "tool_parsing" THEN contentBuffer ELSE <<>>
  OBVIOUS
<1>4. t \in Texts /\ pending' \in Seq(Callback) /\ Owes(pending', t)
  BY <1>2, <1>3, FinalOwes, EmptyText
<1>5. Said' = Said \o t
  <2>1. CASE ~hasFunctionCall
    <3>1. Said = fed /\ Said' = fed /\ t = <<>>
      BY <1>1, <1>3, <2>1 DEF Said, hasFunctionCall, detectorVars
    <3> QED BY <1>2, <3>1, Joins
  <2>2. CASE hasFunctionCall /\ state = "tool_parsing"
    <3>1. Said = yielded /\ Said' = yielded /\ t = <<>>
      BY <1>1, <1>3, <2>2 DEF Said, hasFunctionCall, detectorVars
    <3> QED BY <1>2, <3>1, Joins
  <2>3. CASE hasFunctionCall /\ state = "detecting"
    <3>1. Said = yielded /\ Said' = fed /\ t = contentBuffer
      BY <1>1, <1>3, <2>3 DEF Said, hasFunctionCall, detectorVars
    <3>2. fed = yielded \o contentBuffer
      BY <2>3, Detecting DEF TextInv, DetectingInv
    <3> QED BY <3>1, <3>2
  <2> QED BY <1>2, <2>1, <2>2, <2>3
<1>6. shown = Said /\ shown \in Texts
  BY <1>1, AllShown
<1>7. /\ DetectorTypeOK' /\ (hasFunctionCall' => DetectorInv')
      /\ ~hasFunctionCall' => state' = "detecting" /\ yielded' = <<>> /\ dropped' = <<>>
  BY <1>1, RestingDetector
<1>8. EngineTypes'
  BY <1>1, <1>4, <1>7 DEF EngineTypes, TextInv
<1>9. \E u \in Texts : Owes(pending', u) /\ shown' \o u = Said'
  BY <1>1, <1>4, <1>5, <1>6
<1>10. pc' \notin {"build", "connect"}
  BY <1>1
<1> QED
  BY <1>7, <1>8, <1>9, <1>10 DEF TextInv

LEMMA TextNext == TextInv /\ [Next]_vars => TextInv'
<1> SUFFICES ASSUME TextInv, [Next]_vars
             PROVE  TextInv'
  OBVIOUS
<1>1. CASE Build \/ ConnectFails \/ Connected \/ ReadError \/ EndOfStream
             \/ (\E last \in BOOLEAN : SkippedLine(last))
  BY <1>1, QuietSteps
<1>2. CASE Line
  BY <1>2, LineDelta, PlainText, DetectingText, ToolText
<1>3. CASE Finalise
  BY <1>3, FinaliseText
<1>4. CASE Deliver
  BY <1>4, DeliverText
<1>5. CASE Cancel \/ UNCHANGED vars
  <2>1. UNCHANGED <<pc, protocolName, eof, pending, delivered, detectorVars>> /\ cancelled' \in BOOLEAN
    BY <1>5 DEF Cancel, vars, TextInv, EngineTypes
  <2> QED BY <2>1, CancelText
<1> QED
  BY <1>1, <1>2, <1>3, <1>4, <1>5 DEF Next

\* What was found tells where the text ends.
LEMMA Found ==
  ASSUME TextInv
  PROVE  /\ Triggers = {} <=> ~(hasFunctionCall /\ state = "tool_parsing")
         /\ Triggers # {} => Min(Triggers) = Len(yielded)
<1>1. state \in {"detecting", "tool_parsing"}
  BY DetectorTypes DEF TextInv, EngineTypes
<1>2. CASE ~hasFunctionCall
  BY <1>2 DEF Triggers
<1>3. CASE hasFunctionCall /\ state = "detecting"
  BY <1>3, NoneFound DEF Triggers, TextInv
<1>4. CASE hasFunctionCall /\ state = "tool_parsing"
  <2>1. Triggers = TriggersIn(fed) /\ DetectorInv
    BY <1>4 DEF Triggers, TextInv
  <2>2. Len(yielded) \in Triggers /\ \A i \in Triggers : Len(yielded) <= i
    BY <1>4, <2>1, FirstFound
  <2>3. \A i \in Triggers : i \in Nat
    BY <2>1 DEF TriggersIn
  <2>4. Len(yielded) \in Nat
    BY <2>2, <2>3
  <2>5. Min(Triggers) \in Triggers /\ \A i \in Triggers : Min(Triggers) <= i
    BY <2>2 DEF Min
  <2>6. Min(Triggers) = Len(yielded)
    BY <2>2, <2>3, <2>4, <2>5
  <2> QED BY <1>4, <2>2, <2>6
<1> QED
  BY <1>1, <1>2, <1>3, <1>4

\* What is said is the beginning of what was fed.
LEMMA SaidIs ==
  ASSUME TextInv
  PROVE  /\ \E w \in Texts : fed = Said \o w
         /\ Triggers # {} => Said = SubSeq(fed, 1, Len(yielded))
         /\ Triggers = {} /\ pc = "returned" => Said = fed
<1>1. contentBuffer \in Texts /\ fed \in Texts /\ yielded \in Texts /\ dropped \in Texts
  BY DetectorTypes DEF TextInv, EngineTypes
<1>2. CASE Said = fed /\ Triggers = {}
  BY <1>1, <1>2, Joins, EmptyText
<1>3. CASE Said = yielded /\ hasFunctionCall /\ ~(pc = "returned" /\ state = "detecting")
  <2>1. PICK w : w = dropped \o contentBuffer
    OBVIOUS
  <2>2. w \in Texts /\ fed = yielded \o w
    <3>1. (yielded \o dropped) \o contentBuffer = yielded \o (dropped \o contentBuffer)
      BY <1>1, Assoc
    <3>2. (yielded \o dropped) \o contentBuffer = fed
      BY <1>3 DEF TextInv, DetectorInv
    <3> QED BY <1>1, <2>1, <3>1, <3>2, Joins
  <2>3. SubSeq(fed, 1, Len(yielded)) = yielded
    <3>1. PICK u : u = SubSeq(fed, 1, Len(yielded))
      OBVIOUS
    <3>2. Len(yielded) \in 0..Len(fed) /\ Len(yielded) \in Nat
      BY <1>1, <2>2, TextGrows
    <3>3. u \in Seq(Char) /\ Len(u) = Len(yielded)
      BY <1>1, <3>1, <3>2, CutAt DEF Texts
    <3>4. \A k \in 1..Len(yielded) : u[k] = fed[k]
      BY <1>1, <3>1, <3>2 DEF Texts
    <3>5. \A k \in 1..Len(yielded) : fed[k] = yielded[k]
      BY <1>1, <2>2, TextGrows
    <3>6. u = yielded
      BY <1>1, <3>3, <3>4, <3>5, SeqEqual DEF Texts
    <3> QED BY <3>1, <3>6
  <2>4. state \in {"detecting", "tool_parsing"}
    BY DetectorTypes DEF TextInv, EngineTypes
  <2>5. Triggers = {} => pc # "returned"
    BY <1>3, <2>4, Found
  <2> QED BY <1>3, <2>2, <2>3, <2>5
<1>4. Said = fed => Triggers = {} \/ (hasFunctionCall /\ ~(pc = "returned" /\ state = "detecting"))
  BY Found
<1>5. CASE hasFunctionCall /\ ~(pc = "returned" /\ state = "detecting")
  BY <1>3, <1>5 DEF Said
<1>6. CASE ~(hasFunctionCall /\ ~(pc = "returned" /\ state = "detecting"))
  <2>1. Said = fed
    BY <1>6 DEF Said
  <2>2. Triggers = {}
    BY <1>6, Found
  <2> QED BY <1>2, <2>1, <2>2
<1> QED
  BY <1>5, <1>6

LEMMA BeginsWith ==
  ASSUME NEW a \in Texts, NEW b \in Texts
  PROVE  IsPrefix(a, a \o b)
<1>1. PICK t : t = a \o b
  OBVIOUS
<1>2. t \in Texts /\ Len(a) <= Len(t) /\ Len(a) \in Nat /\ Len(t) \in Nat /\ \A k \in 1..Len(a) : t[k] = a[k]
  <2>1. t \in Texts /\ Len(t) = Len(a) + Len(b) /\ Len(a) \in Nat /\ Len(b) \in Nat
        /\ \A k \in 1..Len(a) : t[k] = a[k]
    BY <1>1, TextGrows
  <2> QED BY <2>1
<1>3. PICK u, v : u = SubSeq(a, 1, Len(a)) /\ v = SubSeq(t, 1, Len(a))
  OBVIOUS
<1>4. u \in Seq(Char) /\ v \in Seq(Char) /\ Len(u) = Len(a) /\ Len(v) = Len(a)
  BY <1>2, <1>3, CutAt DEF Texts
<1>5. \A k \in 1..Len(a) : u[k] = a[k] /\ v[k] = t[k]
  BY <1>2, <1>3 DEF Texts
<1>6. u = v
  BY <1>2, <1>4, <1>5, SeqEqual
<1> QED
  BY <1>1, <1>2, <1>3, <1>6 DEF IsPrefix

LEMMA TextHolds ==
  ASSUME TextInv, calls \in Seq(Kind)
  PROVE  TextIntact
<1>1. PICK t \in Texts : Owes(pending, t) /\ shown \o t = Said
  BY DEF TextInv
<1>2. PICK w \in Texts : fed = Said \o w
  BY SaidIs
<1>3. shown \in Texts
  BY DEF TextInv, EngineTypes
<1>4. IsPrefix(shown, fed)
  <2>1. (shown \o t) \o w = shown \o (t \o w) /\ t \o w \in Texts
    BY <1>3, Assoc, Joins
  <2>2. fed = shown \o (t \o w)
    BY <1>1, <1>2, <2>1
  <2> QED BY <1>3, <2>1, <2>2, BeginsWith
<1>5. Returned => shown = Said
  BY AllShown DEF Returned
<1>6. Returned => shown = IF Triggers = {} THEN fed ELSE SubSeq(fed, 1, Min(Triggers))
  BY <1>5, Found, SaidIs DEF Returned
<1>7. TypeOK
  <2>1. ASSUME NEW c \in Range(pending)
        PROVE  c.kind \in Kind /\ c.text \in Seq(Char)
    <3>1. pending \in Seq(Callback)
      BY DEF TextInv, EngineTypes
    <3>2. c \in Callback
      BY <3>1 DEF Range
    <3> QED BY <3>2 DEF Callback, Texts
  <2>2. Range(calls) \subseteq Kind
    BY DEF Range
  <2> QED BY <2>1, <2>2 DEF TypeOK, TextInv, EngineTypes, Kind, Texts
<1> QED
  BY <1>4, <1>6, <1>7 DEF TextIntact

\* The text shown is the text sent up to the first trigger outside thinking, all of it
\* when the turn ends, however it was cut and wherever the stream ended or broke.
THEOREM ShowsTheText == Spec => []TextIntact
<1>1. TextInv /\ IInv => TextIntact
  BY TextHolds DEF IInv, CallsInv
<1> QED
  BY <1>1, TextInit, TextNext, InitEstablishes, NextPreserves, PTL DEF Spec

-----------------------------------------------------------------------------
(* The outcome reported                                                    *)

\* A turn with tool text reports its outcome and then OnDone; any other no tool calls.
ReportInv ==
  /\ ~(hasFunctionCall /\ state = "tool_parsing") =>
       /\ \A i \in 1..Len(pending) : pending[i].kind # "tools"
       /\ \A i \in 1..Len(calls) : calls[i] # "tools"
  /\ hasFunctionCall /\ state = "tool_parsing" /\ pc = "returned" =>
       LET kind == Outcome(contentBuffer).kind
           n    == Len(pending)
           m    == Len(calls)
       IN  \/ n \in Nat \ {0, 1} /\ pending[n - 1].kind = kind /\ pending[n].kind = "done"
           \/ n = 1 /\ pending[1].kind = "done" /\ m \in Nat \ {0} /\ calls[m] = kind
           \/ n = 0 /\ m \in Nat \ {0, 1} /\ calls[m - 1] = kind /\ calls[m] = "done"

LEMMA ReportInit == Init => ReportInv
<1>1. Len(<<>>) = 0
  OBVIOUS
<1>2. ASSUME Init
      PROVE  ReportInv
  <2>1. pending = <<>> /\ calls = <<>> /\ state # "tool_parsing"
    BY <1>2 DEF Init, DetectorInit
  <2> QED BY <1>1, <2>1 DEF ReportInv
<1> QED
  BY <1>2

\* None of the callbacks p brings tool calls.
NoTools(p) == \A i \in 1..Len(p) : p[i].kind # "tools"

LEMMA NoToolsIn ==
  ASSUME NEW a, NEW b, a.kind # "tools", b.kind # "tools"
  PROVE  NoTools(<<>>) /\ NoTools(<<a>>) /\ NoTools(<<a, b>>)
<1>1. Len(<<>>) = 0 /\ Len(<<a>>) = 1 /\ <<a>>[1] = a
  OBVIOUS
<1>2. Len(<<a, b>>) = 2 /\ <<a, b>>[1] = a /\ <<a, b>>[2] = b
  OBVIOUS
<1>3. ASSUME NEW i \in 1..2
      PROVE  <<a, b>>[i].kind # "tools"
  <2>1. i = 1 \/ i = 2
    OBVIOUS
  <2> QED BY <1>2, <2>1
<1>4. NoTools(<<>>)
  BY <1>1 DEF NoTools
<1>5. NoTools(<<a>>)
  BY <1>1 DEF NoTools
<1>6. NoTools(<<a, b>>)
  BY <1>2, <1>3 DEF NoTools
<1> QED
  BY <1>4, <1>5, <1>6

LEMMA LineNoTools ==
  ASSUME NEW thinking \in BOOLEAN, NEW t
  PROVE  NoTools(Thinking(thinking)) /\ NoTools(Thinking(thinking) \o TextIfAny(t))
<1> DEFINE a == Call("thinking")
           b == Text(t)
<1>1. a.kind # "tools" /\ b.kind # "tools"
  BY DEF Call, Text
<1>2. Thinking(thinking) = <<>> \/ Thinking(thinking) = <<a>>
  BY DEF Thinking
<1>3. TextIfAny(t) = <<>> \/ TextIfAny(t) = <<b>>
  BY DEF TextIfAny
<1> HIDE DEF a, b
<1>4. <<>> \o <<>> = <<>> /\ <<>> \o <<b>> = <<b>> /\ <<a>> \o <<>> = <<a>> /\ <<a>> \o <<b>> = <<a, b>>
  BY Concatenated
<1>5. NoTools(<<>>) /\ NoTools(<<a>>) /\ NoTools(<<b>>) /\ NoTools(<<a, b>>)
  BY <1>1, NoToolsIn
<1> QED
  BY <1>2, <1>3, <1>4, <1>5

\* A turn that does not end with tool text.
LEMMA PlainTurn ==
  ASSUME ReportInv, calls' = calls, NoTools(pending'),
         hasFunctionCall' /\ state' = "tool_parsing" => pc' # "returned",
         ~(hasFunctionCall' /\ state' = "tool_parsing") => ~(hasFunctionCall /\ state = "tool_parsing")
  PROVE  ReportInv'
BY DEF ReportInv, NoTools

\* A turn that does: the last callbacks are the outcome and OnDone.
EndsReported(p, t) ==
  /\ Len(p) \in Nat \ {0, 1}
  /\ p[Len(p) - 1].kind = Outcome(t).kind /\ p[Len(p)].kind = "done"

LEMMA EndReports ==
  ASSUME NEW thinking \in BOOLEAN, NEW t
  PROVE  /\ EndsReported(Thinking(thinking) \o <<Outcome(t), Call("done")>>, t)
         /\ EndsReported(<<Outcome(t)>> \o <<Call("done")>>, t)
<1> DEFINE a == Call("thinking")
           b == Outcome(t)
           c == Call("done")
<1>1. c.kind = "done"
  BY DEF Call
<1>2. Thinking(thinking) = <<>> \/ Thinking(thinking) = <<a>>
  BY DEF Thinking
<1> HIDE DEF a, c
<1>3. <<>> \o <<b, c>> = <<b, c>> /\ <<a>> \o <<b, c>> = <<a, b, c>> /\ <<b>> \o <<c>> = <<b, c>>
  <2> HIDE DEF b
  <2> QED BY Concatenated, ConcatenatedThree
<1>4. EndsReported(<<b, c>>, t) /\ EndsReported(<<a, b, c>>, t)
  <2> HIDE DEF b
  <2>1. Len(<<b, c>>) = 2 /\ <<b, c>>[1] = b /\ <<b, c>>[2] = c
    OBVIOUS
  <2>2. Len(<<a, b, c>>) = 3 /\ <<a, b, c>>[2] = b /\ <<a, b, c>>[3] = c
    OBVIOUS
  <2>3. b.kind = Outcome(t).kind
    BY DEF b
  <2>4. 2 - 1 = 1 /\ 3 - 1 = 2 /\ 2 \in Nat \ {0, 1} /\ 3 \in Nat \ {0, 1}
    OBVIOUS
  <2> QED BY <1>1, <2>1, <2>2, <2>3, <2>4 DEF EndsReported
<1>5. EndsReported(Thinking(thinking) \o <<b, c>>, t) /\ EndsReported(<<b>> \o <<c>>, t)
  <2> HIDE DEF b
  <2> QED BY <1>2, <1>3, <1>4
<1> QED
  BY <1>5 DEF c

LEMMA QuietReports ==
  ASSUME TextInv, ReportInv,
         Build \/ ConnectFails \/ Connected \/ ReadError \/ EndOfStream
           \/ \E last \in BOOLEAN : SkippedLine(last)
  PROVE  ReportInv'
<1>1. /\ pending' \in {<<>>, <<Call("error")>>, <<Call("error"), Call("done")>>}
      /\ calls' = calls /\ UNCHANGED <<protocolName, detectorVars>>
  BY DEF Build, ConnectFails, Connected, ReadError, EndOfStream, SkippedLine, MoreLines, At, delivered
<1>2. pc \in {"build", "connect"} \/ pc' # "returned"
  BY DEF Build, ConnectFails, Connected, ReadError, EndOfStream, SkippedLine, MoreLines, At
<1>3. NoTools(pending')
  <2>1. Call("error").kind # "tools" /\ Call("done").kind # "tools"
    BY DEF Call
  <2> QED BY <1>1, <2>1, NoToolsIn
<1>4. pc \in {"build", "connect"} => state # "tool_parsing"
  BY DEF TextInv, DetectorInit
<1>5. (hasFunctionCall' <=> hasFunctionCall) /\ state' = state
  BY <1>1 DEF hasFunctionCall, detectorVars
<1> QED
  BY <1>1, <1>2, <1>3, <1>4, <1>5, PlainTurn

LEMMA LineReports ==
  ASSUME TextInv, ReportInv, Line
  PROVE  ReportInv'
<1>1. PICK delta \in Texts, thinking \in BOOLEAN, last \in BOOLEAN :
         \/ PlainChunk(delta, thinking, last)
         \/ DetectingChunk(delta, thinking, last)
         \/ ToolChunk(delta, thinking, last)
  BY LineDelta
<1>2. CASE PlainChunk(delta, thinking, last)
  <2>1. /\ ~hasFunctionCall /\ calls' = calls /\ UNCHANGED <<protocolName, state>>
        /\ pending' = Thinking(thinking) \o TextIfAny(delta)
    BY <1>2 DEF PlainChunk, MoreLines, At, delivered
  <2>2. ~hasFunctionCall'
    BY <2>1 DEF hasFunctionCall
  <2>3. NoTools(pending')
    BY <2>1, LineNoTools
  <2> QED BY <2>1, <2>2, <2>3, PlainTurn
<1>3. CASE DetectingChunk(delta, thinking, last)
  <2>1. /\ state = "detecting" /\ calls' = calls /\ pc' # "returned"
        /\ pending' = Thinking(thinking)
                        \o TextIfAny(SubSeq(yielded', Len(yielded) + 1, Len(yielded')))
    BY <1>3 DEF DetectingChunk, MoreLines, At, delivered
  <2>2. NoTools(pending')
    BY <2>1, LineNoTools
  <2> QED BY <2>1, <2>2, PlainTurn
<1>4. CASE ToolChunk(delta, thinking, last)
  <2>1. /\ hasFunctionCall /\ state = "tool_parsing" /\ calls' = calls
        /\ UNCHANGED <<protocolName, state>>
        /\ \/ pending' = Thinking(thinking) \o <<Outcome(contentBuffer'), Call("done")>>
           \/ pending' = Thinking(thinking) /\ pc' # "returned"
    BY <1>4 DEF ToolChunk, MoreLines, At, delivered, AppendToBuffer
  <2>2. hasFunctionCall' /\ state' = "tool_parsing"
    BY <2>1 DEF hasFunctionCall
  <2>3. CASE pending' = Thinking(thinking) /\ pc' # "returned"
    <3>1. NoTools(pending')
      BY <2>3, LineNoTools
    <3> QED BY <2>1, <2>2, <2>3, <3>1, PlainTurn
  <2>4. CASE pending' = Thinking(thinking) \o <<Outcome(contentBuffer'), Call("done")>>
    <3>1. Outcome(contentBuffer)' = Outcome(contentBuffer')
      BY <2>1 DEF Outcome, ParsedCalls
    <3>2. EndsReported(pending', contentBuffer')
      BY <2>4, EndReports
    <3> QED BY <2>2, <3>1, <3>2 DEF ReportInv, EndsReported
  <2> QED BY <2>1, <2>3, <2>4
<1> QED
  BY <1>1, <1>2, <1>3, <1>4

LEMMA FinaliseReports ==
  ASSUME TextInv, ReportInv, Finalise
  PROVE  ReportInv'
<1>1. calls' = calls /\ UNCHANGED <<protocolName, detectorVars>>
  BY DEF Finalise, delivered
<1>2. (hasFunctionCall' <=> hasFunctionCall) /\ state' = state /\ contentBuffer' = contentBuffer
  BY <1>1 DEF hasFunctionCall, detectorVars
<1>3. CASE hasFunctionCall /\ state = "tool_parsing"
  <2>1. pending' = <<Outcome(contentBuffer)>> \o <<Call("done")>>
    BY <1>3 DEF Finalise
  <2>2. EndsReported(pending', contentBuffer)
    BY <2>1, EndReports
  <2>3. Outcome(contentBuffer)' = Outcome(contentBuffer)
    BY <1>1, <1>2 DEF Outcome, ParsedCalls
  <2> QED BY <1>2, <1>3, <2>2, <2>3 DEF ReportInv, EndsReported
<1>4. CASE ~(hasFunctionCall /\ state = "tool_parsing")
  <2> DEFINE a == Text(contentBuffer)
             c == Call("done")
  <2>1. pending' = <<>> \o <<c>> \/ pending' = <<a>> \o <<c>>
    BY <1>4 DEF Finalise, TextIfAny
  <2>2. a.kind # "tools" /\ c.kind # "tools"
    BY DEF Call, Text
  <2> HIDE DEF a, c
  <2>3. <<>> \o <<c>> = <<c>> /\ <<a>> \o <<c>> = <<a, c>>
    BY Concatenated
  <2>4. NoTools(<<c>>) /\ NoTools(<<a, c>>)
    BY <2>2, NoToolsIn
  <2>5. NoTools(pending')
    BY <2>1, <2>3, <2>4
  <2> QED BY <1>1, <1>2, <1>4, <2>5, PlainTurn
<1> QED
  BY <1>3, <1>4

LEMMA DeliverReports ==
  ASSUME TextInv, ReportInv, calls \in Seq(Kind), Deliver
  PROVE  ReportInv'
<1>1. /\ pending # <<>> /\ pending' = Tail(pending) /\ UNCHANGED <<pc, protocolName, detectorVars>>
      /\ pending \in Seq(Callback)
  BY DEF Deliver, TextInv, EngineTypes
<1>2. (hasFunctionCall' <=> hasFunctionCall) /\ state' = state /\ contentBuffer' = contentBuffer
  BY <1>1 DEF hasFunctionCall, detectorVars
<1>3. PICK k, n, m : k = Head(pending).kind /\ n = Len(pending) /\ m = Len(calls)
  OBVIOUS
<1>4. /\ n \in Nat \ {0} /\ m \in Nat /\ k = pending[1].kind
      /\ Len(pending') = n - 1 /\ \A i \in 1..(n - 1) : pending'[i] = pending[i + 1]
  BY <1>1, <1>3
<1>5. k \in Kind
  <2>1. Head(pending) \in Callback
    BY <1>1
  <2> QED BY <1>3, <2>1 DEF Callback
<1>6. /\ k \notin {"text", "thinking"} => calls' = Append(calls, k)
      /\ calls' = calls \/ calls' = Append(calls, k)
  BY <1>3 DEF Deliver
<1>7. /\ Len(Append(calls, k)) = m + 1 /\ Append(calls, k)[m + 1] = k
      /\ \A i \in 1..m : Append(calls, k)[i] = calls[i]
  BY <1>3, <1>5
<1>8. CASE ~(hasFunctionCall /\ state = "tool_parsing")
  <2>1. (\A i \in 1..n : pending[i].kind # "tools") /\ (\A i \in 1..m : calls[i] # "tools")
    BY <1>3, <1>8 DEF ReportInv
  <2>2. k # "tools"
    BY <1>4, <2>1
  <2>3. ASSUME NEW i \in 1..Len(pending')
        PROVE  pending'[i].kind # "tools"
    <3>1. i \in 1..(n - 1) /\ i + 1 \in 1..n
      BY <1>4
    <3> QED BY <1>4, <2>1, <3>1
  <2>4. ASSUME NEW i \in 1..Len(calls')
        PROVE  calls'[i] # "tools"
    <3>1. CASE calls' = calls
      BY <1>3, <2>1, <3>1
    <3>2. CASE calls' = Append(calls, k)
      <4>1. i \in 1..m \/ i = m + 1
        BY <1>4, <1>7, <3>2
      <4> QED BY <1>7, <2>1, <2>2, <3>2, <4>1
    <3> QED BY <1>6, <3>1, <3>2
  <2> QED BY <1>2, <1>8, <2>3, <2>4 DEF ReportInv
<1>9. CASE hasFunctionCall /\ state = "tool_parsing" /\ pc = "returned"
  <2>1. PICK kind : kind = Outcome(contentBuffer).kind
    OBVIOUS
  <2>2. kind \in {"error", "tools"}
    BY <2>1, CallKinds
  <2>3. kind = Outcome(contentBuffer').kind /\ Outcome(contentBuffer)' = Outcome(contentBuffer)
    BY <1>1, <1>2, <2>1 DEF Outcome, ParsedCalls
  <2>4. SUFFICES \/ Len(pending') \in Nat \ {0, 1} /\ pending'[Len(pending') - 1].kind = kind
                      /\ pending'[Len(pending')].kind = "done"
                 \/ Len(pending') = 1 /\ pending'[1].kind = "done"
                      /\ Len(calls') \in Nat \ {0} /\ calls'[Len(calls')] = kind
                 \/ Len(pending') = 0 /\ Len(calls') \in Nat \ {0, 1}
                      /\ calls'[Len(calls') - 1] = kind /\ calls'[Len(calls')] = "done"
    BY <1>2, <1>9, <2>1, <2>3 DEF ReportInv
  <2>5. \/ n \in Nat \ {0, 1} /\ pending[n - 1].kind = kind /\ pending[n].kind = "done"
        \/ n = 1 /\ pending[1].kind = "done" /\ m \in Nat \ {0} /\ calls[m] = kind
    BY <1>3, <1>4, <1>9, <2>1 DEF ReportInv
  <2>6. CASE n > 2
    <3>1. n - 2 \in 1..(n - 1) /\ n - 1 \in 1..(n - 1) /\ (n - 2) + 1 = n - 1 /\ (n - 1) + 1 = n
          /\ (n - 1) - 1 = n - 2 /\ n - 1 \in Nat \ {0, 1}
      BY <1>4, <2>6
    <3>2. pending'[n - 2] = pending[n - 1] /\ pending'[n - 1] = pending[n]
      BY <1>4, <3>1
    <3>3. pending[n - 1].kind = kind /\ pending[n].kind = "done"
      BY <2>5, <2>6
    <3> QED BY <1>4, <3>1, <3>2, <3>3
  <2>7. CASE n = 2
    <3>1. pending[1].kind = kind /\ pending[2].kind = "done"
      BY <2>5, <2>7
    <3>2. k = kind /\ pending'[1] = pending[2] /\ Len(pending') = 1
      BY <1>4, <2>7, <3>1
    <3>3. calls' = Append(calls, kind)
      BY <1>6, <2>2, <3>2
    <3>4. Len(calls') = m + 1 /\ calls'[m + 1] = kind /\ m + 1 \in Nat \ {0}
      BY <1>4, <1>7, <3>2, <3>3
    <3>5. Len(calls') \in Nat \ {0} /\ calls'[Len(calls')] = kind
      BY <3>4
    <3> QED BY <3>1, <3>2, <3>5
  <2>8. CASE n = 1
    <3>1. pending[1].kind = "done" /\ m \in Nat \ {0} /\ calls[m] = kind
      BY <2>5, <2>8
    <3>2. k = "done" /\ Len(pending') = 0
      BY <1>4, <2>8, <3>1
    <3>3. calls' = Append(calls, "done")
      BY <1>6, <3>2
    <3>4. Len(calls') = m + 1 /\ calls'[m + 1] = "done" /\ calls'[m] = calls[m]
      BY <1>4, <1>7, <3>1, <3>2, <3>3
    <3>5. m + 1 \in Nat \ {0, 1} /\ (m + 1) - 1 = m
      BY <3>1
    <3>6. Len(calls') \in Nat \ {0, 1} /\ Len(calls') - 1 = m
      BY <3>4, <3>5
    <3>7. calls'[Len(calls')] = "done"
      BY <3>4
    <3> QED BY <3>1, <3>2, <3>4, <3>6, <3>7
  <2>9. n > 2 \/ n = 2 \/ n = 1
    BY <1>4
  <2> QED BY <2>6, <2>7, <2>8, <2>9
<1>10. CASE hasFunctionCall /\ state = "tool_parsing" /\ pc # "returned"
  BY <1>1, <1>2, <1>10 DEF ReportInv
<1> QED
  BY <1>8, <1>9, <1>10

LEMMA SameReport ==
  ASSUME ReportInv, UNCHANGED <<pc, protocolName, pending, calls, detectorVars>>
  PROVE  ReportInv'
<1>1. (hasFunctionCall' <=> hasFunctionCall) /\ state' = state /\ contentBuffer' = contentBuffer
  BY DEF hasFunctionCall, detectorVars
<1>2. Outcome(contentBuffer)' = Outcome(contentBuffer)
  BY <1>1 DEF Outcome, ParsedCalls
<1> QED
  BY <1>1, <1>2 DEF ReportInv

LEMMA ReportNext == TextInv /\ IInv /\ ReportInv /\ [Next]_vars => ReportInv'
<1> SUFFICES ASSUME TextInv, IInv, ReportInv, [Next]_vars
             PROVE  ReportInv'
  OBVIOUS
<1>1. CASE Build \/ ConnectFails \/ Connected \/ ReadError \/ EndOfStream
             \/ (\E last \in BOOLEAN : SkippedLine(last))
  BY <1>1, QuietReports
<1>2. CASE Line
  BY <1>2, LineReports
<1>3. CASE Finalise
  BY <1>3, FinaliseReports
<1>4. CASE Deliver
  BY <1>4, DeliverReports DEF IInv, CallsInv
<1>5. CASE Cancel \/ UNCHANGED vars
  <2>1. UNCHANGED <<pc, protocolName, pending, calls, detectorVars>>
    BY <1>5 DEF Cancel, vars, delivered
  <2> QED BY <2>1, SameReport
<1> QED
  BY <1>1, <1>2, <1>3, <1>4, <1>5 DEF Next

\* The tool text that is parsed is what follows the first trigger.
LEMMA ToolTextIs ==
  ASSUME TextInv, hasFunctionCall, state = "tool_parsing"
  PROVE  LET start == Min(Triggers)
             skip  == CHOOSE n \in ToolTriggerOffset(Rest(fed, start)) : TRUE
         IN  Rest(fed, start + skip) = contentBuffer
<1>1. contentBuffer \in Texts /\ fed \in Texts /\ yielded \in Texts /\ dropped \in Texts /\ DetectorInv
  BY DetectorTypes DEF TextInv, EngineTypes
<1>2. PICK y, p, o : y = yielded \o dropped /\ p = Len(yielded) /\ o = ToolTriggerOffset(Rest(fed, p))
  OBVIOUS
<1>3. Min(Triggers) = p
  BY <1>2, Found
<1>4. y \in Texts /\ fed = y \o contentBuffer /\ Len(y) = p + Len(dropped)
  <2>1. fed = y \o contentBuffer
    BY <1>1, <1>2 DEF DetectorInv
  <2> QED BY <1>1, <1>2, <2>1, Joins
<1>5. p \in 0..Len(fed) /\ Len(dropped) \in o
  BY <1>1, <1>2 DEF DetectorInv, ScanInv
<1>6. (CHOOSE n \in o : TRUE) = Len(dropped)
  <2>1. \A n, m \in o : n = m
    BY <1>1, <1>2, <1>5, OneOffset
  <2>2. (CHOOSE n \in o : TRUE) \in o
    BY <1>5
  <2> QED BY <1>5, <2>1, <2>2
<1>7. Rest(fed, p + Len(dropped)) = contentBuffer
  <2>1. 0 \in 0..Len(contentBuffer) /\ Len(y) + 0 = Len(y)
    BY <1>1, <1>4 DEF Texts
  <2>2. Rest(y \o contentBuffer, Len(y) + 0) = Rest(contentBuffer, 0)
    BY <1>1, <1>4, <2>1, RestOfText
  <2>3. Rest(contentBuffer, 0) = contentBuffer
    BY <1>1, <2>1, CutAt
  <2> QED BY <1>4, <2>1, <2>2, <2>3
<1> QED
  BY <1>2, <1>3, <1>6, <1>7

\* The end of a sequence, element by element.
LEMMA EndsWith ==
  ASSUME NEW s \in Seq(Kind), NEW a, NEW b, Len(s) \in Nat \ {0, 1},
         s[Len(s) - 1] = a, s[Len(s)] = b
  PROVE  IsSuffix(<<a, b>>, s)
<1>1. PICK n : n = Len(s)
  OBVIOUS
<1>2. PICK u, v : u = Reverse(<<a, b>>) /\ v = Reverse(s)
  OBVIOUS
<1>3. /\ a \in Kind /\ b \in Kind /\ n \in Nat \ {0, 1}
  BY <1>1
<1>4. u \in Seq(Kind) /\ Len(u) = 2 /\ u[1] = b /\ u[2] = a
  <2>1. Len(<<a, b>>) = 2 /\ <<a, b>>[1] = a /\ <<a, b>>[2] = b
    OBVIOUS
  <2>2. u = [i \in 1..2 |-> <<a, b>>[(2 - i) + 1]]
    BY <1>2, <2>1 DEF Reverse
  <2>3. u[1] = b /\ u[2] = a
    BY <2>1, <2>2
  <2>4. \A i \in 1..2 : <<a, b>>[(2 - i) + 1] \in Kind
    BY <1>3, <2>1
  <2>5. u \in [1..2 -> Kind]
    BY <2>2, <2>4
  <2>6. \A m \in Nat : u \in [1..m -> Kind] => u \in Seq(Kind) /\ Len(u) = m
    OBVIOUS
  <2>7. u \in Seq(Kind) /\ Len(u) = 2
    BY <2>5, <2>6
  <2> QED BY <2>3, <2>7
<1>5. v \in Seq(Kind) /\ Len(v) = n /\ v[1] = b /\ v[2] = a
  <2>1. v = [i \in 1..n |-> s[(n - i) + 1]]
    BY <1>1, <1>2 DEF Reverse
  <2>2. \A i \in 1..n : s[(n - i) + 1] \in Kind
    BY <1>1, <1>3
  <2>3. v \in [1..n -> Kind] /\ n \in Nat
    BY <1>3, <2>1, <2>2
  <2>4. 1 \in 1..n /\ 2 \in 1..n /\ (n - 1) + 1 = n /\ (n - 2) + 1 = n - 1
    BY <1>3
  <2>5. v[1] = s[n] /\ v[2] = s[n - 1]
    BY <2>1, <2>4
  <2> QED BY <1>1, <2>3, <2>5
<1>6. PICK x, y : x = SubSeq(u, 1, 2) /\ y = SubSeq(v, 1, 2)
  OBVIOUS
<1>7. 2 <= n
  BY <1>3
<1>8. x \in Seq(Kind) /\ Len(x) = 2 /\ x[1] = b /\ x[2] = a
  BY <1>4, <1>6
<1>9. y \in Seq(Kind) /\ Len(y) = 2 /\ y[1] = b /\ y[2] = a
  BY <1>5, <1>6, <1>7
<1>10. \A i \in 1..2 : x[i] = y[i]
  <2>1. \A i \in 1..2 : i = 1 \/ i = 2
    OBVIOUS
  <2> QED BY <1>8, <1>9, <2>1
<1>11. x = y
  BY <1>8, <1>9, <1>10, SeqEqual
<1> QED
  BY <1>2, <1>4, <1>5, <1>6, <1>7, <1>11 DEF IsSuffix, IsPrefix

LEMMA ReportHolds ==
  ASSUME TextInv, IInv, ReportInv, Returned
  PROVE  IF Triggers = {}
         THEN "tools" \notin Range(calls) /\ (calls = <<>> \/ Last(calls) = "done")
         ELSE LET start == Min(Triggers)
                  skip  == CHOOSE n \in ToolTriggerOffset(Rest(fed, start)) : TRUE
                  kind  == Outcome(Rest(fed, start + skip)).kind
              IN  IsSuffix(<<kind, "done">>, calls)
<1>1. calls \in Seq(Kind) /\ (calls # <<>> => Last(calls) = "done")
  BY DEF IInv, CallsInv
<1>2. CASE Triggers = {}
  <2>1. \A i \in 1..Len(calls) : calls[i] # "tools"
    BY <1>2, Found DEF ReportInv
  <2>2. "tools" \notin Range(calls)
    BY <1>1, <2>1 DEF Range
  <2> QED BY <1>1, <1>2, <2>2
<1>3. CASE Triggers # {}
  <2>1. hasFunctionCall /\ state = "tool_parsing"
    BY <1>3, Found
  <2>2. PICK kind : kind = Outcome(contentBuffer).kind
    OBVIOUS
  <2>3. Len(pending) = 0
    BY DEF Returned
  <2>4. Len(calls) \in Nat \ {0, 1} /\ calls[Len(calls) - 1] = kind /\ calls[Len(calls)] = "done"
    BY <2>1, <2>2, <2>3 DEF ReportInv, Returned
  <2>5. IsSuffix(<<kind, "done">>, calls)
    BY <1>1, <2>4, EndsWith
  <2> QED BY <1>3, <2>1, <2>2, <2>5, ToolTextIs
<1> QED
  BY <1>2, <1>3

\* The outcome of the tool text behind the first trigger is reported, once and right before
\* OnDone, on every way out of the loop; without a trigger no tool calls are.
THEOREM ReportsTheOutcome == Spec => []ToolTurnReported
<1>1. TextInv /\ IInv /\ ReportInv => ToolTurnReported
  BY ReportHolds DEF ToolTurnReported
<1> QED
  BY <1>1, TextInit, TextNext, InitEstablishes, NextPreserves, ReportInit, ReportNext, PTL DEF Spec

=============================================================================
