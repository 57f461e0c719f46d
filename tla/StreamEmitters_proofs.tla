------------------------ MODULE StreamEmitters_proofs ------------------------
(***************************************************************************)
(* Proofs about the three stream emitters, for turns of any length.  The   *)
(* Anthropic emitter's indices are never stale, the text reaches its       *)
(* client exactly once and in order, and its messages end cleanly; the     *)
(* Responses emitter's events carry the indices of open items, and its     *)
(* final texts are what the deltas add up to; and the clients of the three *)
(* protocols are told the same of a turn.                                  *)
(***************************************************************************)
EXTENDS StreamEmitters, FiniteSetTheorems, TLAPS

-----------------------------------------------------------------------------
(* The Anthropic emitter: the invariant                                     *)

\* What the emitter's indices say about the client's message.
IndexInv ==
  /\ nextIndex = Len(view.blocks)
  /\ thinkingIndex \in -2..(nextIndex - 1)
  /\ textIndex \in -1..(nextIndex - 1)
  /\ thinkingIndex >= 0 => view.blocks[Block(thinkingIndex)].type = "thinking"
  /\ textIndex >= 0 => view.blocks[Block(textIndex)].type = "text"

\* Until OnDone the open blocks are exactly the ones the emitter remembers.
OpenInv ==
  phase # "closed" =>
    \A i \in DOMAIN view.blocks :
      view.blocks[i].open <=> (i = Block(thinkingIndex) \/ i = Block(textIndex))

\* The text block, while it is remembered and after the tool calls dropped it.
TextInv ==
  /\ textIndex >= 0 =>
       /\ view.blocks[Block(textIndex)].content = sentText
       /\ sentText # <<>>
       /\ \A i \in DOMAIN view.blocks :
            view.blocks[i].type = "text" => i = Block(textIndex)
  /\ textIndex = -1 /\ phase \in {"idle", "open"} =>
       /\ sentText = <<>>
       /\ \A i \in DOMAIN view.blocks : view.blocks[i].type # "text"

\* TextDelivered, block by block.
TextInBlock ==
  /\ sentText = <<>> => \A i \in DOMAIN view.blocks : view.blocks[i].type # "text"
  /\ sentText # <<>> =>
       \E i \in DOMAIN view.blocks :
         /\ view.blocks[i].content = sentText
         /\ \A j \in DOMAIN view.blocks : view.blocks[j].type = "text" <=> j = i

NoBlockOpenAtEnd ==
  phase = "closed" => \A i \in DOMAIN view.blocks : ~view.blocks[i].open

StopReasonInv ==
  /\ stopReason = "tool_use" <=>
       \E i \in DOMAIN view.blocks : view.blocks[i].type = "tool_use"
  /\ phase = "closed" => view.stop_reason = stopReason

IInv ==
  /\ TypeOK
  /\ IndexInv
  /\ OpenInv
  /\ EventsAddressOpenBlocks
  /\ TextInv
  /\ TextInBlock
  /\ StopReasonInv
  /\ NoBlockOpenAtEnd

LEMMA IInvImplies == IInv => TextDelivered /\ CleanEnd
<1> SUFFICES ASSUME IInv PROVE TextDelivered /\ CleanEnd
  OBVIOUS
<1>1. TextDelivered
  <2>1. CASE sentText = <<>>
    BY <2>1 DEF IInv, TextInBlock, TextDelivered, BlocksOf
  <2>2. CASE sentText # <<>>
    <3>1. PICK i \in DOMAIN view.blocks :
            /\ view.blocks[i].content = sentText
            /\ \A j \in DOMAIN view.blocks : view.blocks[j].type = "text" <=> j = i
      BY <2>2 DEF IInv, TextInBlock
    <3>2. BlocksOf("text") = {i}
      BY <3>1 DEF BlocksOf
    <3> QED
      BY <2>2, <3>1, <3>2 DEF TextDelivered
  <2> QED
    BY <2>1, <2>2
<1>2. CleanEnd
  <2>1. BlocksOf("tool_use") # {} <=>
          \E i \in DOMAIN view.blocks : view.blocks[i].type = "tool_use"
    BY DEF BlocksOf
  <2>2. stopReason # "none"
    BY DEF IInv, TypeOK
  <2> QED
    BY <2>1, <2>2 DEF IInv, StopReasonInv, NoBlockOpenAtEnd, CleanEnd
<1> QED
  BY <1>1, <1>2

-----------------------------------------------------------------------------
(* What one event does to an Anthropic client's message                     *)

LEMMA IndexRange ==
  ASSUME NEW i \in Int, NEW n \in Int, i >= 0, i < n
  PROVE  i \in -1..(n - 1)
  OBVIOUS

LEMMA ContentBlockExceptOpen ==
  ASSUME NEW x \in ContentBlock, NEW o \in BOOLEAN
  PROVE  [x EXCEPT !.open = o] = [type |-> x.type, open |-> o, content |-> x.content]
  BY DEF ContentBlock

LEMMA ContentBlockExceptContent ==
  ASSUME NEW x \in ContentBlock, NEW c \in Seq(Chunk \union {"arguments"})
  PROVE  [x EXCEPT !.content = c] = [type |-> x.type, open |-> x.open, content |-> c]
  BY DEF ContentBlock

LEMMA BelowBound ==
  ASSUME NEW x \in Int, NEW y \in Int, 0 <= x, x < y
  PROVE  x \in 0..(y - 1)
  OBVIOUS

LEMMA BlockStartFacts ==
  ASSUME NEW v \in Message, NEW t \in BlockType, NEW i, i = Len(v.blocks)
  PROVE  LET w == BlockStart(v, i, t) IN
         /\ w \in Message
         /\ Len(w.blocks) = Len(v.blocks) + 1
         /\ \A j \in DOMAIN v.blocks : w.blocks[j] = v.blocks[j]
         /\ w.blocks[Block(i)] = [type |-> t, open |-> TRUE, content |-> <<>>]
         /\ w.stray = v.stray /\ w.error = v.error /\ w.stop_reason = v.stop_reason
<1> DEFINE b == [type |-> t, open |-> TRUE, content |-> <<>>]
           w == BlockStart(v, i, t)
<1>1. b \in ContentBlock
  BY DEF ContentBlock, BlockType
<1>2. w = [v EXCEPT !.blocks = Append(v.blocks, b)]
  BY DEF BlockStart
<1>3. Append(v.blocks, b) \in Seq(ContentBlock)
  BY <1>1 DEF Message
<1>4. w = [blocks |-> Append(v.blocks, b), stray |-> v.stray, error |-> v.error,
           stop_reason |-> v.stop_reason]
  BY <1>2 DEF Message
<1> QED
  BY <1>1, <1>3, <1>4 DEF Message, Block

\* Message w is v with d appended to its open block k, of type t.
Extends(w, v, k, t, d) ==
  /\ w \in Message
  /\ Len(w.blocks) = Len(v.blocks)
  /\ \A j \in DOMAIN v.blocks \ {k} : w.blocks[j] = v.blocks[j]
  /\ w.blocks[k].type = t
  /\ w.blocks[k].open
  /\ w.blocks[k].content = Append(v.blocks[k].content, d)
  /\ w.stray = v.stray /\ w.error = v.error /\ w.stop_reason = v.stop_reason

LEMMA BlockDeltaFacts ==
  ASSUME NEW v \in Message, NEW i \in Int, NEW t \in BlockType,
         NEW d \in Chunk \union {"arguments"},
         IsOpen(v, i), v.blocks[Block(i)].type = t
  PROVE  Extends(BlockDelta(v, i, t, d), v, Block(i), t, d)
<1> DEFINE k == Block(i)
           b == [v.blocks[k] EXCEPT !.content = Append(@, d)]
           s == [v.blocks EXCEPT ![k] = b]
           w == BlockDelta(v, i, t, d)
<1>1. k \in DOMAIN v.blocks /\ v.blocks[k] \in ContentBlock /\ v.blocks[k].open
  BY DEF IsOpen, Message
<1>2. /\ b = [type |-> v.blocks[k].type, open |-> v.blocks[k].open,
                content |-> Append(v.blocks[k].content, d)]
      /\ Append(v.blocks[k].content, d) \in Seq(Chunk \union {"arguments"})
  <2>1. Append(v.blocks[k].content, d) \in Seq(Chunk \union {"arguments"})
    BY <1>1 DEF ContentBlock
  <2> QED
    BY <1>1, <2>1, ContentBlockExceptContent
<1>3. b \in ContentBlock
  <2>1. v.blocks[k].type \in BlockType /\ v.blocks[k].open \in BOOLEAN
    BY <1>1 DEF ContentBlock
  <2> HIDE DEF b
  <2> QED
    BY <1>2, <2>1 DEF ContentBlock
<1>4. s \in Seq(ContentBlock) /\ Len(s) = Len(v.blocks)
  BY <1>1, <1>3 DEF Message
<1>5. w = [v EXCEPT !.blocks = s]
  BY DEF BlockDelta
<1>6. w = [blocks |-> s, stray |-> v.stray, error |-> v.error,
           stop_reason |-> v.stop_reason]
  BY <1>5 DEF Message
<1>7. s[k] = b /\ \A j \in DOMAIN v.blocks \ {k} : s[j] = v.blocks[j]
  BY <1>1 DEF Message
<1>8. w \in Message
  BY <1>4, <1>6 DEF Message
<1> HIDE DEF b, s, w
<1>9. Extends(w, v, k, t, d)
  BY <1>1, <1>2, <1>4, <1>6, <1>7, <1>8 DEF Extends
<1> QED
  BY <1>9 DEF w

LEMMA BlockStopFacts ==
  ASSUME NEW v \in Message, NEW i \in Int, IsOpen(v, i)
  PROVE  LET w == BlockStop(v, i) IN
         /\ w \in Message
         /\ Len(w.blocks) = Len(v.blocks)
         /\ \A j \in DOMAIN v.blocks \ {Block(i)} : w.blocks[j] = v.blocks[j]
         /\ w.blocks[Block(i)].type = v.blocks[Block(i)].type
         /\ ~w.blocks[Block(i)].open
         /\ w.blocks[Block(i)].content = v.blocks[Block(i)].content
         /\ w.stray = v.stray /\ w.error = v.error /\ w.stop_reason = v.stop_reason
<1> DEFINE k == Block(i)
           b == [v.blocks[k] EXCEPT !.open = FALSE]
           s == [v.blocks EXCEPT ![k] = b]
           w == BlockStop(v, i)
<1>1. k \in DOMAIN v.blocks /\ v.blocks[k] \in ContentBlock
  BY DEF IsOpen, Message
<1>2. b = [type |-> v.blocks[k].type, open |-> FALSE, content |-> v.blocks[k].content]
  BY <1>1, ContentBlockExceptOpen, FALSE \in BOOLEAN
<1>3. b \in ContentBlock
  BY <1>1, <1>2 DEF ContentBlock
<1>4. s \in Seq(ContentBlock) /\ Len(s) = Len(v.blocks)
  BY <1>1, <1>3 DEF Message
<1>5. w = [v EXCEPT !.blocks = s]
  BY DEF BlockStop
<1>6. w = [blocks |-> s, stray |-> v.stray, error |-> v.error,
           stop_reason |-> v.stop_reason]
  BY <1>5 DEF Message
<1>7. s[k] = b /\ \A j \in DOMAIN v.blocks \ {k} : s[j] = v.blocks[j]
  BY <1>1 DEF Message
<1> QED
  BY <1>1, <1>2, <1>4, <1>6, <1>7 DEF Message

-----------------------------------------------------------------------------
(* What stopping the remembered blocks does to it                           *)

\* w is v with some blocks closed.
SameButOpen(v, w) ==
  /\ w \in Message
  /\ Len(w.blocks) = Len(v.blocks)
  /\ \A j \in DOMAIN v.blocks : /\ w.blocks[j].type = v.blocks[j].type
                               /\ w.blocks[j].content = v.blocks[j].content
  /\ w.stray = v.stray /\ w.error = v.error /\ w.stop_reason = v.stop_reason

LEMMA StopThinkingFacts ==
  ASSUME IInv, phase # "closed"
  PROVE  LET w == StopThinking(view) IN
         /\ SameButOpen(view, w)
         /\ \A j \in DOMAIN view.blocks : w.blocks[j].open <=> j = Block(textIndex)
<1> DEFINE w == StopThinking(view)
<1>0. view \in Message /\ IndexInv /\ OpenInv /\ thinkingIndex \in Int /\ textIndex \in Int
  BY DEF IInv, TypeOK
<1>1. CASE thinkingIndex >= 0
  <2>1. IsOpen(view, thinkingIndex)
    BY <1>0, <1>1 DEF IndexInv, OpenInv, IsOpen, Block, Message
  <2>2. w = BlockStop(view, thinkingIndex)
    BY <1>1 DEF StopThinking
  <2>3. textIndex # thinkingIndex
    BY <1>0, <1>1 DEF IndexInv
  <2>4. Block(textIndex) # Block(thinkingIndex)
    BY <1>0, <2>3 DEF Block
  <2> QED
    BY <1>0, <2>1, <2>2, <2>4, BlockStopFacts DEF OpenInv, SameButOpen
<1>2. CASE ~(thinkingIndex >= 0)
  <2>1. w = view
    BY <1>2 DEF StopThinking
  <2>2. \A j \in DOMAIN view.blocks : j # Block(thinkingIndex)
    BY <1>0, <1>2 DEF Block, Message
  <2> QED
    BY <1>0, <2>1, <2>2 DEF OpenInv, SameButOpen
<1> QED
  BY <1>1, <1>2

LEMMA StopBothFacts ==
  ASSUME IInv, phase # "closed"
  PROVE  LET w == StopText(StopThinking(view)) IN
         /\ SameButOpen(view, w)
         /\ \A j \in DOMAIN view.blocks : ~w.blocks[j].open
<1> DEFINE v == StopThinking(view)
           w == StopText(v)
<1>0. view \in Message /\ IndexInv /\ textIndex \in Int
  BY DEF IInv, TypeOK
<1>1. /\ SameButOpen(view, v)
      /\ \A j \in DOMAIN view.blocks : v.blocks[j].open <=> j = Block(textIndex)
  BY StopThinkingFacts
<1>2. v \in Message /\ DOMAIN v.blocks = DOMAIN view.blocks
  BY <1>0, <1>1 DEF SameButOpen, Message
<1>3. CASE textIndex # -1
  <2>1. IsOpen(v, textIndex)
    BY <1>0, <1>1, <1>2, <1>3 DEF IndexInv, IsOpen, Block, Message
  <2>2. w = BlockStop(v, textIndex)
    BY <1>3 DEF StopText
  <2> QED
    BY <1>0, <1>1, <1>2, <2>1, <2>2, BlockStopFacts DEF SameButOpen
<1>4. CASE textIndex = -1
  <2>1. w = v
    BY <1>4 DEF StopText
  <2>2. \A j \in DOMAIN view.blocks : j # Block(textIndex)
    BY <1>0, <1>4 DEF Block, Message
  <2> QED
    BY <1>1, <2>1, <2>2
<1> QED
  BY <1>3, <1>4

-----------------------------------------------------------------------------
(* One lemma per callback                                                   *)

\* A step shows the client something in block i, and in no other.
ShownIn(i) ==
  /\ view'.stray = view.stray
  /\ i \in DOMAIN view'.blocks
  /\ \A j \in DOMAIN view.blocks : j \in DOMAIN view'.blocks
  /\ \A j \in DOMAIN view'.blocks : j # i =>
       /\ j \in DOMAIN view.blocks
       /\ view'.blocks[j].type = view.blocks[j].type
       /\ view'.blocks[j].content = view.blocks[j].content

LEMMA OnThinkingPreserves ==
  ASSUME IInv, NEW d \in Chunk, OnThinking(d)
  PROVE  /\ IInv'
         /\ thinkingIndex # -2 =>
              /\ ShownIn(Block(thinkingIndex'))
              /\ view'.blocks[Block(thinkingIndex')].content =
                   IF thinkingIndex = -1 THEN <<d>>
                   ELSE Append(view.blocks[Block(thinkingIndex)].content, d)
<1> DEFINE first == thinkingIndex = -1
           index == IF first THEN nextIndex ELSE thinkingIndex
           v1    == IF first THEN BlockStart(view, index, "thinking") ELSE view
<1>0. /\ TypeOK /\ IndexInv /\ OpenInv /\ EventsAddressOpenBlocks /\ TextInv
      /\ TextInBlock /\ StopReasonInv /\ NoBlockOpenAtEnd
      /\ view \in Message
  BY DEF IInv, TypeOK
<1>1. /\ phase \in {"idle", "open"} /\ phase' = "open"
      /\ thinkingIndex' = index
      /\ nextIndex' = IF first THEN nextIndex + 1 ELSE nextIndex
      /\ view' = BlockDelta(v1, index, "thinking", d)
      /\ sentThinking' = Append(sentThinking, d)
      /\ UNCHANGED <<textIndex, stopReason, sentText>>
  BY DEF OnThinking, Callbacks!CallThinking
<1>2. CASE thinkingIndex = -2
  <2>1. view' = [view EXCEPT !.stray = @ \union {"thinking"}]
    BY <1>0, <1>1, <1>2 DEF BlockDelta, IsOpen, Block, Message
  <2>2. view' = [blocks |-> view.blocks, stray |-> view.stray \union {"thinking"},
                 error |-> view.error, stop_reason |-> view.stop_reason]
    BY <1>0, <2>1 DEF Message
  <2>3. TypeOK'
    <3>1. view' \in Message
      BY <1>0, <2>2 DEF Message, BlockType
    <3>2. thinkingIndex' = thinkingIndex /\ nextIndex' = nextIndex
      BY <1>1, <1>2
    <3> QED
      BY <1>0, <1>1, <3>1, <3>2 DEF TypeOK, Callbacks!PhaseTypeOK, Callbacks!Phases
  <2> QED
    BY <1>0, <1>1, <1>2, <2>2, <2>3
    DEF IInv, IndexInv, OpenInv, EventsAddressOpenBlocks, TextInv, TextInBlock,
        StopReasonInv, NoBlockOpenAtEnd, Block
<1>3. CASE thinkingIndex # -2
  <2>1. /\ v1 \in Message
        /\ Len(v1.blocks) = nextIndex'
        /\ \A j \in DOMAIN view.blocks : v1.blocks[j] = view.blocks[j]
        /\ v1.stray = view.stray /\ v1.stop_reason = view.stop_reason
        /\ IsOpen(v1, index) /\ v1.blocks[Block(index)].type = "thinking"
    <3>1. CASE first
      BY <1>0, <1>1, <3>1, BlockStartFacts
      DEF IndexInv, IsOpen, Block, BlockType, Message
    <3>2. CASE ~first
      BY <1>0, <1>1, <1>3, <3>2 DEF IndexInv, OpenInv, IsOpen, Block, Message
    <3> QED
      BY <3>1, <3>2
  <2>2. index \in Int /\ index >= 0 /\ index < nextIndex' /\ nextIndex' \in Nat
    BY <1>0, <1>1, <1>3 DEF IndexInv, TypeOK
  <2>3. /\ view' \in Message
        /\ Len(view'.blocks) = Len(v1.blocks)
        /\ \A j \in DOMAIN v1.blocks \ {Block(index)} : view'.blocks[j] = v1.blocks[j]
        /\ view'.blocks[Block(index)].type = "thinking"
        /\ view'.blocks[Block(index)].open
        /\ view'.stray = v1.stray /\ view'.stop_reason = v1.stop_reason
    <3>1. "thinking" \in BlockType /\ d \in Chunk \union {"arguments"}
      BY DEF BlockType
    <3>2. view' = BlockDelta(v1, index, "thinking", d)
      BY <1>1
    <3> HIDE DEF first, index, v1
    <3>3. Extends(view', v1, Block(index), "thinking", d)
      BY <2>1, <2>2, <3>1, <3>2, BlockDeltaFacts
    <3> QED
      BY <3>3 DEF Extends
  <2> DEFINE k == Block(index)
  <2>4. /\ DOMAIN view.blocks = 1..nextIndex
        /\ DOMAIN v1.blocks = 1..nextIndex'
        /\ DOMAIN view'.blocks = 1..nextIndex'
        /\ nextIndex \in Nat /\ nextIndex' \in {nextIndex, nextIndex + 1}
        /\ k \in 1..nextIndex' /\ k = index + 1
        /\ nextIndex' = nextIndex + 1 => k = nextIndex + 1
    BY <1>0, <1>1, <2>1, <2>2, <2>3 DEF IndexInv, Block, Message, TypeOK
  <2>5. /\ \A j \in 1..nextIndex : j \in 1..nextIndex'
        /\ \A j \in 1..nextIndex' : j # k => /\ j \in 1..nextIndex
                                           /\ view'.blocks[j] = view.blocks[j]
        /\ k \in 1..nextIndex' /\ view'.blocks[k].type = "thinking" /\ view'.blocks[k].open
    BY <2>1, <2>3, <2>4
  <2>5a. /\ thinkingIndex' = index
         /\ k = Block(thinkingIndex')
         /\ k \in 1..nextIndex => k = Block(thinkingIndex)
         /\ k \notin 1..nextIndex => Block(thinkingIndex) \notin 1..nextIndex
         /\ k # Block(textIndex)
         /\ k \in 1..nextIndex => view.blocks[k].type = "thinking"
    BY <1>0, <1>1, <1>3, <2>2, <2>4 DEF IndexInv, Block
  <2>5b. view'.blocks[k].content =
           IF thinkingIndex = -1 THEN <<d>> ELSE Append(view.blocks[Block(thinkingIndex)].content, d)
    <3>1. first => v1.blocks[k].content = <<>>
      BY <1>0, BlockStartFacts DEF IndexInv, BlockType
    <3>2. ~first => v1.blocks[k].content = view.blocks[Block(thinkingIndex)].content
      OBVIOUS
    <3>3. view'.blocks[k].content = Append(v1.blocks[k].content, d)
      <4>1. "thinking" \in BlockType /\ d \in Chunk \union {"arguments"}
        BY DEF BlockType
      <4>2. view' = BlockDelta(v1, index, "thinking", d)
        BY <1>1
      <4> HIDE DEF first, v1, index
      <4>3. Extends(view', v1, Block(index), "thinking", d)
        BY <2>1, <2>2, <4>1, <4>2, BlockDeltaFacts
      <4> QED
        BY <4>3 DEF Extends
    <3>4. Append(<<>>, d) = <<d>>
      OBVIOUS
    <3> HIDE DEF k, v1
    <3> QED
      BY <3>1, <3>2, <3>3, <3>4
  <2> HIDE DEF first, index, v1, k
  <2>6. TypeOK'
    BY <1>0, <1>1, <2>2, <2>3 DEF TypeOK, Callbacks!PhaseTypeOK, Callbacks!Phases
  <2>7. IndexInv'
    <3>1. nextIndex' = Len(view'.blocks)
      BY <2>1, <2>3
    <3>2. thinkingIndex' \in 0..(nextIndex' - 1)
      <4>1. thinkingIndex' = index
        BY <2>5a
      <4>2. thinkingIndex' \in Int /\ nextIndex' \in Int
        BY <2>2, <4>1
      <4>3. 0 <= thinkingIndex' /\ thinkingIndex' < nextIndex'
        BY <2>2, <4>1
      <4> QED
        BY <4>2, <4>3, BelowBound
    <3>3. textIndex' = textIndex /\ textIndex \in -1..(nextIndex' - 1)
      BY <1>0, <1>1, <2>4 DEF IndexInv
    <3>4. view'.blocks[Block(thinkingIndex')].type = "thinking"
      BY <2>5, <2>5a
    <3>5. textIndex >= 0 => view'.blocks[Block(textIndex)].type = "text"
      <4> SUFFICES ASSUME textIndex >= 0
                   PROVE  view'.blocks[Block(textIndex)].type = "text"
        OBVIOUS
      <4>1. Block(textIndex) \in 1..nextIndex /\ view.blocks[Block(textIndex)].type = "text"
        BY <1>0, <2>4 DEF IndexInv, Block
      <4> QED
        BY <4>1, <2>5, <2>5a
    <3> QED
      BY <2>4, <3>1, <3>2, <3>3, <3>4, <3>5 DEF IndexInv
  <2>8. OpenInv'
    <3> SUFFICES ASSUME NEW j \in 1..nextIndex'
                 PROVE  view'.blocks[j].open <=> (j = k \/ j = Block(textIndex))
      BY <1>1, <2>4, <2>5a DEF OpenInv, Block
    <3>1. CASE j = k
      BY <3>1, <2>5
    <3>2. CASE j # k
      <4>1. view.blocks[j].open <=> (j = Block(thinkingIndex) \/ j = Block(textIndex))
        BY <1>0, <1>1, <2>4, <2>5, <3>2 DEF OpenInv
      <4>2. j # Block(thinkingIndex)
        BY <2>5, <2>5a, <3>2
      <4> QED
        BY <4>1, <4>2, <3>2, <2>5
    <3> QED
      BY <3>1, <3>2
  <2>9. TextInv'
    <3>1. CASE textIndex >= 0
      <4> DEFINE m == Block(textIndex)
      <4>1. /\ m \in 1..nextIndex /\ m # k
            /\ view.blocks[m].content = sentText /\ sentText # <<>>
            /\ \A i \in 1..nextIndex : view.blocks[i].type = "text" => i = m
        <5>1. m \in 1..nextIndex /\ m # k
          BY <1>0, <3>1, <2>4, <2>5a DEF IndexInv, Block
        <5> QED
          BY <1>0, <3>1, <2>4, <5>1 DEF TextInv
      <4>2. view'.blocks[m].content = sentText
        BY <4>1, <2>5
      <4>3. \A i \in 1..nextIndex' : view'.blocks[i].type = "text" => i = m
        BY <4>1, <2>5
      <4>4. m = Block(textIndex')
        BY <1>1 DEF Block
      <4> HIDE DEF m
      <4> QED
        BY <1>1, <3>1, <4>1, <4>2, <4>3, <4>4, <2>4 DEF TextInv
    <3>2. CASE textIndex = -1
      <4>1. sentText = <<>> /\ \A i \in 1..nextIndex : view.blocks[i].type # "text"
        BY <1>0, <1>1, <3>2, <2>4 DEF TextInv
      <4>2. \A i \in 1..nextIndex' : view'.blocks[i].type # "text"
        BY <4>1, <2>5
      <4> QED
        BY <1>1, <3>2, <4>1, <4>2, <2>4 DEF TextInv
    <3> QED
      BY <1>0, <3>1, <3>2 DEF IndexInv
  <2>10. TextInBlock'
    <3>1. CASE sentText = <<>>
      <4>1. \A i \in 1..nextIndex : view.blocks[i].type # "text"
        BY <1>0, <3>1, <2>4 DEF TextInBlock
      <4>2. \A i \in 1..nextIndex' : view'.blocks[i].type # "text"
        BY <4>1, <2>5
      <4>3. sentText' = <<>> /\ DOMAIN view'.blocks = 1..nextIndex'
        BY <1>1, <3>1, <2>4
      <4> QED
        BY <4>2, <4>3 DEF TextInBlock
    <3>2. CASE sentText # <<>>
      <4>1. PICK i \in DOMAIN view.blocks :
              /\ view.blocks[i].content = sentText
              /\ \A j \in DOMAIN view.blocks : view.blocks[j].type = "text" <=> j = i
        BY <1>0, <3>2 DEF TextInBlock
      <4>2. i # k
        BY <4>1, <2>4, <2>5, <2>5a
      <4> QED
        <5>1. i \in 1..nextIndex' /\ view'.blocks[i].content = sentText
          BY <4>1, <4>2, <2>4, <2>5
        <5>2. \A j \in 1..nextIndex' : view'.blocks[j].type = "text" <=> j = i
          BY <4>1, <4>2, <2>4, <2>5
        <5> QED
          <6>1. sentText' = sentText /\ DOMAIN view'.blocks = 1..nextIndex'
            BY <1>1, <2>4
          <6>2. \E m \in DOMAIN view'.blocks :
                  /\ view'.blocks[m].content = sentText'
                  /\ \A j \in DOMAIN view'.blocks : view'.blocks[j].type = "text" <=> j = m
            BY <6>1, <5>1, <5>2
          <6> QED
            BY <6>1, <6>2, <3>2 DEF TextInBlock
    <3> QED
      BY <3>1, <3>2
  <2>11. StopReasonInv'
    <3>1. \A j \in 1..nextIndex : view'.blocks[j].type = view.blocks[j].type
      BY <2>5, <2>5a
    <3>2. \A j \in 1..nextIndex' : view'.blocks[j].type = "tool_use" => j \in 1..nextIndex
      BY <2>5
    <3>3. (\E j \in 1..nextIndex' : view'.blocks[j].type = "tool_use")
            <=> \E j \in 1..nextIndex : view.blocks[j].type = "tool_use"
      BY <2>5, <3>1, <3>2
    <3> QED
      BY <1>0, <1>1, <2>1, <2>3, <2>4, <3>3 DEF StopReasonInv
  <2>12. NoBlockOpenAtEnd' /\ EventsAddressOpenBlocks'
    BY <1>0, <1>1, <2>1, <2>3 DEF NoBlockOpenAtEnd, EventsAddressOpenBlocks
  <2>13. ShownIn(k)
    BY <2>1, <2>3, <2>4, <2>5 DEF ShownIn
  <2> QED
    BY <2>5a, <2>5b, <2>6, <2>7, <2>8, <2>9, <2>10, <2>11, <2>12, <2>13 DEF IInv
<1> QED
  BY <1>2, <1>3

LEMMA OnTextPreserves ==
  ASSUME IInv, NEW d \in Chunk, OnText(d)
  PROVE  IInv' /\ ShownIn(Block(textIndex'))
<1> DEFINE first == textIndex = -1
           index == IF first THEN nextIndex ELSE textIndex
           v1    == StopThinking(view)
           v2    == IF first THEN BlockStart(v1, index, "text") ELSE v1
           k     == Block(index)
<1>0. /\ TypeOK /\ IndexInv /\ EventsAddressOpenBlocks /\ TextInv
      /\ TextInBlock /\ StopReasonInv
      /\ view \in Message
  BY DEF IInv, TypeOK
<1>1. /\ phase \in {"idle", "open"} /\ phase' = "open"
      /\ thinkingIndex' = ThinkingStopped
      /\ textIndex' = index
      /\ nextIndex' = IF first THEN nextIndex + 1 ELSE nextIndex
      /\ view' = BlockDelta(v2, index, "text", d)
      /\ sentText' = Append(sentText, d)
      /\ UNCHANGED <<stopReason, sentThinking>>
  BY DEF OnText, Callbacks!CallText
<1>2. /\ SameButOpen(view, v1)
      /\ \A j \in DOMAIN view.blocks : v1.blocks[j].open <=> j = Block(textIndex)
  BY <1>1, StopThinkingFacts
<1>3. /\ DOMAIN view.blocks = 1..nextIndex /\ DOMAIN v1.blocks = 1..nextIndex
      /\ v1 \in Message /\ Len(v1.blocks) = nextIndex /\ nextIndex \in Nat
  BY <1>0, <1>2 DEF IndexInv, Message, SameButOpen, TypeOK
<1>4. /\ index \in Int /\ index >= 0 /\ index < nextIndex' /\ nextIndex' \in Nat
      /\ k = index + 1 /\ k \in 1..nextIndex'
      /\ nextIndex' \in {nextIndex, nextIndex + 1}
      /\ first => k = nextIndex + 1 /\ k \notin 1..nextIndex
      /\ ~first => k = Block(textIndex) /\ k \in 1..nextIndex /\ textIndex >= 0
      /\ \A j \in 1..nextIndex : j \in 1..nextIndex'
      /\ \A j \in 1..nextIndex' : j # k => j \in 1..nextIndex
  BY <1>0, <1>1, <1>3 DEF IndexInv, Block
<1>5. /\ v2 \in Message /\ DOMAIN v2.blocks = 1..nextIndex'
      /\ \A j \in 1..nextIndex' : j # k =>
           /\ v2.blocks[j].type = view.blocks[j].type
           /\ v2.blocks[j].content = view.blocks[j].content
           /\ ~v2.blocks[j].open
      /\ v2.stray = view.stray /\ v2.stop_reason = view.stop_reason
      /\ v2.blocks[k].type = "text" /\ v2.blocks[k].open
      /\ v2.blocks[k].content = sentText
  <2>1. CASE first
    <3>1. /\ v2 \in Message /\ Len(v2.blocks) = nextIndex + 1
          /\ \A j \in 1..nextIndex : v2.blocks[j] = v1.blocks[j]
          /\ v2.blocks[k] = [type |-> "text", open |-> TRUE, content |-> <<>>]
          /\ v2.stray = v1.stray /\ v2.stop_reason = v1.stop_reason
      BY <1>3, <2>1, BlockStartFacts, "text" \in BlockType DEF BlockType
    <3>2. \A j \in 1..nextIndex : j # Block(textIndex)
      BY <2>1 DEF Block
    <3>3. DOMAIN v2.blocks = 1..nextIndex'
      BY <1>1, <1>3, <2>1, <3>1 DEF Message
    <3>4. sentText = <<>>
      BY <1>0, <1>1, <2>1 DEF TextInv
    <3>5. \A j \in 1..nextIndex :
             /\ v2.blocks[j].type = view.blocks[j].type
             /\ v2.blocks[j].content = view.blocks[j].content
             /\ ~v2.blocks[j].open
      BY <1>2, <1>3, <3>1, <3>2 DEF SameButOpen
    <3>6. v2.blocks[k].type = "text" /\ v2.blocks[k].open /\ v2.blocks[k].content = <<>>
      BY <3>1
    <3>7. v2.stray = view.stray /\ v2.stop_reason = view.stop_reason
      BY <1>2, <3>1 DEF SameButOpen
    <3> QED
      BY <1>4, <3>1, <3>3, <3>4, <3>5, <3>6, <3>7
  <2>2. CASE ~first
    <3>1. v2 = v1 /\ nextIndex' = nextIndex
      BY <1>1, <2>2
    <3>2. k = Block(textIndex) /\ k \in 1..nextIndex /\ textIndex >= 0
      BY <1>4, <2>2
    <3>3. view.blocks[k].type = "text" /\ view.blocks[k].content = sentText
      BY <1>0, <3>2 DEF IndexInv, TextInv
    <3> HIDE DEF k, index, first, v1, v2
    <3>4. \A j \in 1..nextIndex :
             /\ v1.blocks[j].type = view.blocks[j].type
             /\ v1.blocks[j].content = view.blocks[j].content
             /\ v1.blocks[j].open <=> j = k
      BY <1>2, <1>3, <3>2 DEF SameButOpen
    <3>5. v1.stray = view.stray /\ v1.stop_reason = view.stop_reason
      BY <1>2 DEF SameButOpen
    <3> QED
      BY <1>3, <3>1, <3>2, <3>3, <3>4, <3>5
  <2> QED
    BY <2>1, <2>2
<1>6. IsOpen(v2, index)
  BY <1>4, <1>5 DEF IsOpen
<1>7. /\ view' \in Message
      /\ Len(view'.blocks) = Len(v2.blocks)
      /\ \A j \in DOMAIN v2.blocks \ {k} : view'.blocks[j] = v2.blocks[j]
      /\ view'.blocks[k].type = "text" /\ view'.blocks[k].open
      /\ view'.blocks[k].content = Append(v2.blocks[k].content, d)
      /\ view'.stray = v2.stray /\ view'.stop_reason = v2.stop_reason
  <2> HIDE DEF first, index, v1, v2
  <2>1. /\ v2 \in Message /\ index \in Int /\ IsOpen(v2, index)
        /\ v2.blocks[Block(index)].type = "text" /\ d \in Chunk \union {"arguments"}
    BY <1>4, <1>5, <1>6
  <2>2. view' = BlockDelta(v2, index, "text", d)
    BY <1>1
  <2>3. "text" \in BlockType
    BY DEF BlockType
  <2>4. Extends(view', v2, Block(index), "text", d)
    BY <2>1, <2>2, <2>3, BlockDeltaFacts
  <2> QED
    BY <2>4 DEF Extends
<1> HIDE DEF first, index, v1, v2, k
<1>8. /\ DOMAIN view'.blocks = 1..nextIndex' /\ Len(view'.blocks) = nextIndex'
      /\ \A j \in 1..nextIndex' : j # k =>
           /\ j \in 1..nextIndex
           /\ view'.blocks[j].type = view.blocks[j].type
           /\ view'.blocks[j].content = view.blocks[j].content
           /\ ~view'.blocks[j].open
      /\ k \in 1..nextIndex'
      /\ view'.blocks[k].type = "text" /\ view'.blocks[k].open
      /\ view'.blocks[k].content = sentText'
      /\ view'.stray = view.stray /\ view'.stop_reason = view.stop_reason
  <2>1. Len(v2.blocks) = nextIndex'
    BY <1>4, <1>5 DEF Message
  <2>2. DOMAIN view'.blocks = 1..nextIndex'
    BY <1>7, <2>1 DEF Message
  <2>3. \A j \in 1..nextIndex' : j # k =>
          /\ j \in 1..nextIndex
          /\ view'.blocks[j].type = view.blocks[j].type
          /\ view'.blocks[j].content = view.blocks[j].content
          /\ ~view'.blocks[j].open
    <3> SUFFICES ASSUME NEW j \in 1..nextIndex', j # k
                 PROVE  /\ j \in 1..nextIndex
                        /\ view'.blocks[j].type = view.blocks[j].type
                        /\ view'.blocks[j].content = view.blocks[j].content
                        /\ ~view'.blocks[j].open
      OBVIOUS
    <3>1. view'.blocks[j] = v2.blocks[j]
      BY <1>5, <1>7
    <3> QED
      BY <1>4, <1>5, <3>1
  <2>4. view'.blocks[k].content = sentText'
    BY <1>1, <1>5, <1>7
  <2> QED
    BY <1>4, <1>5, <1>7, <2>1, <2>2, <2>3, <2>4
<1>9. k \in 1..nextIndex => view.blocks[k].type = "text"
  <2> SUFFICES ASSUME k \in 1..nextIndex PROVE view.blocks[k].type = "text"
    OBVIOUS
  <2>1. k = Block(textIndex) /\ textIndex >= 0
    BY <1>4
  <2>2. textIndex >= 0 => view.blocks[Block(textIndex)].type = "text"
    BY <1>0 DEF IndexInv
  <2> QED
    BY <2>1, <2>2
<1>10. /\ thinkingIndex' \in {-2, -1}
       /\ Block(thinkingIndex') \notin 1..nextIndex'
       /\ k = Block(textIndex') /\ textIndex' = index
       /\ sentText' # <<>> /\ sentText' \in Seq(Chunk)
  BY <1>0, <1>1, <1>4 DEF ThinkingStopped, IndexInv, Block, TypeOK, k
<1>11. TypeOK'
  BY <1>0, <1>1, <1>4, <1>7, <1>10 DEF TypeOK, Callbacks!PhaseTypeOK, Callbacks!Phases
<1>12. IndexInv'
  <2>1. /\ nextIndex' = Len(view'.blocks)
        /\ thinkingIndex' \in -2..(nextIndex' - 1) /\ ~(thinkingIndex' >= 0)
        /\ textIndex' \in -1..(nextIndex' - 1)
    <3>0. /\ nextIndex' \in Int /\ nextIndex' >= 1
          /\ textIndex' \in Int /\ textIndex' >= 0 /\ textIndex' < nextIndex'
          /\ thinkingIndex' = -2 \/ thinkingIndex' = -1
      BY <1>4, <1>10
    <3>1. textIndex' \in -1..(nextIndex' - 1)
      BY <3>0, IndexRange
    <3>2. thinkingIndex' \in -2..(nextIndex' - 1) /\ ~(thinkingIndex' >= 0)
      BY ONLY <3>0
    <3> QED
      BY <1>8, <3>1, <3>2
  <2>2. view'.blocks[Block(textIndex')].type = "text"
    BY <1>8, <1>10
  <2>3. ~(thinkingIndex' >= 0) /\ thinkingIndex' \in -2..(nextIndex' - 1)
    BY <2>1
  <2> QED
    BY ONLY <2>1, <2>2, <2>3 DEF IndexInv
<1>13. OpenInv'
  <2> SUFFICES ASSUME NEW j \in 1..nextIndex'
               PROVE  view'.blocks[j].open
                        <=> (j = Block(thinkingIndex') \/ j = Block(textIndex'))
    BY <1>8 DEF OpenInv
  <2>1. j # Block(thinkingIndex') /\ k = Block(textIndex')
    BY <1>10
  <2> QED
    BY <1>8, <2>1
<1>14. \A j \in 1..nextIndex' : view'.blocks[j].type = "text" => j = k
  <2> SUFFICES ASSUME NEW j \in 1..nextIndex', j # k
               PROVE  view.blocks[j].type # "text"
    BY <1>8
  <2>0. j \in 1..nextIndex
    BY <1>8
  <2>1. CASE textIndex = -1
    BY <1>0, <1>1, <1>3, <2>0, <2>1 DEF TextInv
  <2>2. CASE textIndex # -1
    <3>1. textIndex >= 0 /\ k = Block(textIndex)
      BY <1>4, <2>2 DEF first
    <3> QED
      BY <1>0, <1>3, <2>0, <3>1 DEF TextInv
  <2> QED
    BY <2>1, <2>2
<1>15. TextInv' /\ TextInBlock'
  <2>1. textIndex' >= 0 /\ textIndex' # -1
    BY <1>4, <1>10
  <2>2. TextInv'
    BY <1>8, <1>10, <1>14, <2>1 DEF TextInv
  <2> QED
    BY <1>8, <1>10, <1>14, <2>2 DEF TextInBlock
<1>16. StopReasonInv'
  <2>1. (\E i \in DOMAIN view.blocks : view.blocks[i].type = "tool_use")
          => \E i \in DOMAIN view'.blocks : view'.blocks[i].type = "tool_use"
    <3> SUFFICES ASSUME NEW i \in 1..nextIndex, view.blocks[i].type = "tool_use"
                 PROVE  i \in 1..nextIndex' /\ view'.blocks[i].type = "tool_use"
      BY <1>3, <1>8
    <3>1. i # k
      BY <1>9
    <3> QED
      BY <1>4, <1>8, <3>1
  <2>2. (\E i \in DOMAIN view'.blocks : view'.blocks[i].type = "tool_use")
          => \E i \in DOMAIN view.blocks : view.blocks[i].type = "tool_use"
    <3> SUFFICES ASSUME NEW i \in 1..nextIndex', view'.blocks[i].type = "tool_use"
                 PROVE  i \in 1..nextIndex /\ view.blocks[i].type = "tool_use"
      BY <1>3, <1>8
    <3> QED
      BY <1>8
  <2> QED
    BY <1>0, <1>1, <2>1, <2>2 DEF StopReasonInv
<1>17. EventsAddressOpenBlocks' /\ NoBlockOpenAtEnd'
  BY <1>0, <1>1, <1>8 DEF EventsAddressOpenBlocks, NoBlockOpenAtEnd
<1>18. ShownIn(k)
  BY <1>3, <1>4, <1>8 DEF ShownIn
<1> QED
  BY <1>10, <1>11, <1>12, <1>13, <1>14, <1>15, <1>16, <1>17, <1>18 DEF IInv

LEMMA ToolUseBlocksFacts ==
  ASSUME NEW v \in Message, NEW n \in Nat
  PROVE  LET w == ToolUseBlocks(v, Len(v.blocks), n) IN
         /\ w \in Message
         /\ Len(w.blocks) = Len(v.blocks) + n
         /\ \A j \in DOMAIN v.blocks : w.blocks[j] = v.blocks[j]
         /\ \A j \in DOMAIN w.blocks : j \notin DOMAIN v.blocks =>
              w.blocks[j].type = "tool_use" /\ ~w.blocks[j].open
         /\ w.stray = v.stray /\ w.error = v.error /\ w.stop_reason = v.stop_reason
<1> DEFINE called == [type |-> "tool_use", open |-> FALSE, content |-> <<"arguments">>]
           calls == [k \in 1..n |-> called]
           w == ToolUseBlocks(v, Len(v.blocks), n)
<1>1. called \in ContentBlock
  <2>1. <<"arguments">> \in Seq(Chunk \union {"arguments"})
    OBVIOUS
  <2> QED
    BY <2>1 DEF ContentBlock, BlockType
<1>2. calls \in Seq(ContentBlock) /\ Len(calls) = n
  <2> HIDE DEF called
  <2> QED
    BY <1>1
<1>3. w = [v EXCEPT !.blocks = v.blocks \o calls]
  BY DEF ToolUseBlocks
<1> DEFINE s == v.blocks \o calls
<1>4. v.blocks \in Seq(ContentBlock)
  BY DEF Message
<1>5. s \in Seq(ContentBlock) /\ Len(s) = Len(v.blocks) + n
  <2> HIDE DEF calls
  <2> QED
    BY <1>2, <1>4
<1>6. \A j \in DOMAIN v.blocks : s[j] = v.blocks[j]
  <2> HIDE DEF calls
  <2> QED
    BY <1>2, <1>4
<1>7. \A j \in DOMAIN s : j \notin DOMAIN v.blocks => s[j] = called
  <2> SUFFICES ASSUME NEW j \in DOMAIN s, j \notin DOMAIN v.blocks
               PROVE  s[j] = called
    OBVIOUS
  <2>1. j - Len(v.blocks) \in 1..n /\ s[j] = calls[j - Len(v.blocks)]
    <3> HIDE DEF calls
    <3> QED
      BY <1>2, <1>4, <1>5
  <2> HIDE DEF called
  <2> QED
    BY <2>1
<1>8. w = [blocks |-> s, stray |-> v.stray, error |-> v.error,
           stop_reason |-> v.stop_reason]
  BY <1>3 DEF Message
<1>9. w \in Message /\ w.blocks = s
  <2> HIDE DEF s, w
  <2> QED
    BY <1>5, <1>8 DEF Message
<1>10. called.type = "tool_use" /\ ~called.open
  OBVIOUS
<1>11. w.stray = v.stray /\ w.error = v.error /\ w.stop_reason = v.stop_reason
  BY <1>8
<1> HIDE DEF called, s, calls
<1> QED
  BY <1>5, <1>6, <1>7, <1>9, <1>10, <1>11

\* A step keeps what the client's blocks show, and adds blocks of tool calls.
CallsAdded ==
  /\ view'.stray = view.stray
  /\ \A j \in DOMAIN view.blocks :
       /\ j \in DOMAIN view'.blocks
       /\ view'.blocks[j].type = view.blocks[j].type
       /\ view'.blocks[j].content = view.blocks[j].content
  /\ \A j \in DOMAIN view'.blocks :
       j \notin DOMAIN view.blocks => view'.blocks[j].type = "tool_use"

LEMMA OnToolCallsPreserves ==
  ASSUME IInv, NEW n \in 1..MaxToolCalls, OnToolCalls(n)
  PROVE  IInv' /\ CallsAdded
<1> DEFINE v == StopText(StopThinking(view))
<1>0. /\ TypeOK /\ IndexInv /\ EventsAddressOpenBlocks
      /\ TextInBlock /\ StopReasonInv
      /\ view \in Message /\ n \in Nat \ {0} /\ nextIndex \in Nat
  BY BoundsAssumption DEF IInv, TypeOK
<1>1. /\ phase \notin {"closed"} /\ phase' = "tools"
      /\ thinkingIndex' = ThinkingStopped
      /\ textIndex' = -1
      /\ nextIndex' = nextIndex + n
      /\ stopReason' = "tool_use"
      /\ view' = ToolUseBlocks(v, nextIndex, n)
      /\ UNCHANGED <<sentText, sentThinking>>
  BY DEF OnToolCalls, Callbacks!CallToolCalls, sent
<1>2. SameButOpen(view, v) /\ \A j \in DOMAIN view.blocks : ~v.blocks[j].open
  BY <1>1, StopBothFacts
<1> HIDE DEF v
<1>3. /\ DOMAIN view.blocks = 1..nextIndex /\ DOMAIN v.blocks = 1..nextIndex
      /\ v \in Message /\ Len(v.blocks) = nextIndex
  BY <1>0, <1>2 DEF IndexInv, Message, SameButOpen
<1>4. /\ view' \in Message
      /\ Len(view'.blocks) = nextIndex'
      /\ \A j \in DOMAIN v.blocks : view'.blocks[j] = v.blocks[j]
      /\ \A j \in DOMAIN view'.blocks : j \notin DOMAIN v.blocks =>
           view'.blocks[j].type = "tool_use" /\ ~view'.blocks[j].open
      /\ view'.stray = v.stray
  <2> DEFINE w == ToolUseBlocks(v, Len(v.blocks), n)
  <2>1. view' = w /\ nextIndex' = Len(v.blocks) + n
    BY <1>1, <1>3
  <2>2. v \in Message /\ n \in Nat
    BY <1>0, <1>3
  <2>3. /\ w \in Message
        /\ Len(w.blocks) = Len(v.blocks) + n
        /\ \A j \in DOMAIN v.blocks : w.blocks[j] = v.blocks[j]
        /\ \A j \in DOMAIN w.blocks : j \notin DOMAIN v.blocks =>
             w.blocks[j].type = "tool_use" /\ ~w.blocks[j].open
        /\ w.stray = v.stray
    BY <2>2, ToolUseBlocksFacts
  <2> HIDE DEF w
  <2> QED
    BY <2>1, <2>3
<1>5. /\ DOMAIN view'.blocks = 1..nextIndex'
      /\ \A j \in 1..nextIndex : j \in 1..nextIndex'
      /\ nextIndex' \in 1..nextIndex' /\ nextIndex' \notin 1..nextIndex
      /\ nextIndex' \in Nat
  <2>1. nextIndex' \in Nat /\ nextIndex < nextIndex'
    BY <1>0, <1>1
  <2>2. view'.blocks \in Seq(ContentBlock)
    BY <1>4 DEF Message
  <2> QED
    BY <1>0, <2>1, <2>2, <1>4
<1>6. /\ \A j \in 1..nextIndex :
           /\ view'.blocks[j].type = view.blocks[j].type
           /\ view'.blocks[j].content = view.blocks[j].content
      /\ \A j \in 1..nextIndex' : ~view'.blocks[j].open
      /\ \A j \in 1..nextIndex' : j \notin 1..nextIndex =>
           view'.blocks[j].type = "tool_use"
      /\ view'.stray = view.stray
  BY <1>2, <1>3, <1>4, <1>5 DEF SameButOpen
<1>7. /\ thinkingIndex' = -2 \/ thinkingIndex' = -1
      /\ thinkingIndex' \in -2..(nextIndex' - 1)
      /\ textIndex' \in -1..(nextIndex' - 1)
      /\ ~(thinkingIndex' >= 0) /\ ~(textIndex' >= 0)
      /\ thinkingIndex' \in Int /\ textIndex' \in Int
  BY <1>0, <1>1, <1>5 DEF ThinkingStopped, IndexInv
<1>8. TypeOK'
  BY <1>0, <1>1, <1>4, <1>5, <1>7 DEF TypeOK, Callbacks!PhaseTypeOK, Callbacks!Phases
<1>9. IndexInv'
  BY <1>4, <1>7 DEF IndexInv
<1>10. OpenInv'
  <2> SUFFICES ASSUME NEW j \in 1..nextIndex'
               PROVE  ~(j = Block(thinkingIndex') \/ j = Block(textIndex'))
    BY <1>5, <1>6 DEF OpenInv
  <2> QED
    BY <1>1, <1>5, <1>7 DEF Block
<1>11. TextInv'
  BY <1>1, <1>7 DEF TextInv
<1>12. TextInBlock'
  <2>1. CASE sentText = <<>>
    <3>1. \A i \in 1..nextIndex : view.blocks[i].type # "text"
      BY <1>0, <1>3, <2>1 DEF TextInBlock
    <3>2. \A i \in 1..nextIndex' : view'.blocks[i].type # "text"
      BY <1>6, <3>1
    <3>3. sentText' = <<>> /\ DOMAIN view'.blocks = 1..nextIndex'
      BY <1>1, <1>5, <2>1
    <3> QED
      BY <3>2, <3>3 DEF TextInBlock
  <2>2. CASE sentText # <<>>
    <3>1. PICK i \in 1..nextIndex :
            /\ view.blocks[i].content = sentText
            /\ \A j \in 1..nextIndex : view.blocks[j].type = "text" <=> j = i
      BY <1>0, <1>3, <2>2 DEF TextInBlock
    <3>2. \A j \in 1..nextIndex' : view'.blocks[j].type = "text" <=> j = i
      BY <3>1, <1>5, <1>6
    <3>3. view'.blocks[i].content = sentText /\ i \in 1..nextIndex'
      BY <3>1, <1>5, <1>6
    <3> QED
      BY <1>1, <1>5, <2>2, <3>2, <3>3 DEF TextInBlock
  <2> QED
    BY <2>1, <2>2
<1>13. StopReasonInv'
  BY <1>1, <1>5, <1>6 DEF StopReasonInv
<1>14. EventsAddressOpenBlocks' /\ NoBlockOpenAtEnd'
  BY <1>0, <1>1, <1>6 DEF EventsAddressOpenBlocks, NoBlockOpenAtEnd
<1>15. CallsAdded
  BY <1>3, <1>5, <1>6 DEF CallsAdded
<1> QED
  BY <1>8, <1>9, <1>10, <1>11, <1>12, <1>13, <1>14, <1>15 DEF IInv

LEMMA OnErrorPreserves ==
  ASSUME IInv, OnError
  PROVE  IInv'
<1>0. view \in Message
  BY DEF IInv, TypeOK
<1>1. /\ phase' = "open" /\ phase # "closed"
      /\ view' = [view EXCEPT !.error = TRUE]
      /\ UNCHANGED <<thinkingIndex, textIndex, nextIndex, stopReason>>
      /\ UNCHANGED <<sentText, sentThinking>>
      /\ phase \in {"idle", "open"}
  BY DEF OnError, Callbacks!CallError, emitter, sent
<1>2. view' = [blocks |-> view.blocks, stray |-> view.stray, error |-> TRUE,
               stop_reason |-> view.stop_reason]
  BY <1>0, <1>1 DEF Message
<1>3. TypeOK'
  <2>1. view' \in Message
    BY <1>0, <1>2 DEF Message
  <2> QED
    BY <1>1, <2>1 DEF IInv, TypeOK, Callbacks!PhaseTypeOK, Callbacks!Phases
<1> QED
  BY <1>1, <1>2, <1>3
  DEF IInv, IndexInv, OpenInv, EventsAddressOpenBlocks, TextInv, TextInBlock,
      StopReasonInv, NoBlockOpenAtEnd, Block

LEMMA OnDonePreserves ==
  ASSUME IInv, OnDone
  PROVE  IInv' /\ DOMAIN view'.blocks = DOMAIN view.blocks /\ CallsAdded
<1> DEFINE v == StopText(StopThinking(view))
<1>0. /\ TypeOK /\ IndexInv /\ EventsAddressOpenBlocks /\ TextInv
      /\ TextInBlock /\ StopReasonInv
      /\ view \in Message
  BY DEF IInv, TypeOK
<1>1. /\ phase # "closed" /\ phase' = "closed"
      /\ view' = [v EXCEPT !.stop_reason = stopReason]
      /\ UNCHANGED <<thinkingIndex, textIndex, nextIndex, stopReason>>
      /\ UNCHANGED <<sentText, sentThinking>>
  BY DEF OnDone, Callbacks!CallDone, emitter, sent
<1>2. SameButOpen(view, v) /\ \A j \in DOMAIN view.blocks : ~v.blocks[j].open
  BY <1>1, StopBothFacts
<1> HIDE DEF v
<1>3. v \in Message
  BY <1>2 DEF SameButOpen
<1>4. view' = [blocks |-> v.blocks, stray |-> v.stray, error |-> v.error,
               stop_reason |-> stopReason]
  BY <1>1, <1>3 DEF Message
<1>5. view' \in Message
  BY <1>0, <1>3, <1>4 DEF Message, TypeOK
<1>6. /\ DOMAIN view'.blocks = DOMAIN view.blocks
      /\ Len(view'.blocks) = Len(view.blocks)
      /\ \A j \in DOMAIN view.blocks :
           /\ view'.blocks[j].type = view.blocks[j].type
           /\ view'.blocks[j].content = view.blocks[j].content
           /\ ~view'.blocks[j].open
      /\ view'.stray = view.stray /\ view'.stop_reason = stopReason
  BY <1>0, <1>2, <1>4 DEF SameButOpen, Message
<1>7. TypeOK'
  BY <1>0, <1>1, <1>5 DEF TypeOK, Callbacks!PhaseTypeOK, Callbacks!Phases
<1>8. IndexInv'
  <2>1. /\ nextIndex = Len(view'.blocks)
        /\ thinkingIndex >= 0 => Block(thinkingIndex) \in DOMAIN view.blocks
        /\ textIndex >= 0 => Block(textIndex) \in DOMAIN view.blocks
    BY <1>0, <1>6 DEF IndexInv, Block, Message
  <2> QED
    BY <1>0, <1>1, <1>6, <2>1 DEF IndexInv, Block
<1>9. TextInv'
  <2>1. CASE textIndex >= 0
    <3>1. Block(textIndex) \in DOMAIN view.blocks
      BY <1>0, <2>1 DEF IndexInv, Block, Message
    <3> QED
      BY <1>0, <1>1, <1>6, <2>1, <3>1 DEF TextInv, Block
  <2>2. CASE ~(textIndex >= 0)
    BY <1>1, <2>2 DEF TextInv
  <2> QED
    BY <2>1, <2>2
<1>10. TextInBlock'
  BY <1>0, <1>1, <1>6 DEF TextInBlock
<1>11. StopReasonInv'
  BY <1>0, <1>1, <1>6 DEF StopReasonInv
<1>12. OpenInv' /\ NoBlockOpenAtEnd' /\ EventsAddressOpenBlocks'
  BY <1>0, <1>1, <1>6 DEF OpenInv, NoBlockOpenAtEnd, EventsAddressOpenBlocks
<1>13. CallsAdded
  BY <1>6 DEF CallsAdded
<1> QED
  BY <1>6, <1>7, <1>8, <1>9, <1>10, <1>11, <1>12, <1>13 DEF IInv

LEMMA NoCallsPreserves ==
  ASSUME IInv, NoCalls
  PROVE  IInv'
<1>1. /\ phase' = "aborted" /\ phase = "idle"
      /\ UNCHANGED <<thinkingIndex, textIndex, nextIndex, stopReason>>
      /\ UNCHANGED <<view, sentText, sentThinking>>
  BY DEF NoCalls, Callbacks!Abort, emitter, sent
<1>2. TypeOK'
  BY <1>1 DEF IInv, TypeOK, Callbacks!PhaseTypeOK, Callbacks!Phases
<1> QED
  BY <1>1, <1>2
  DEF IInv, IndexInv, OpenInv, EventsAddressOpenBlocks, TextInv, TextInBlock,
      StopReasonInv, NoBlockOpenAtEnd, Block

-----------------------------------------------------------------------------

LEMMA InitEstablishes == Init => IInv
<1> SUFFICES ASSUME Init PROVE IInv
  OBVIOUS
<1>1. /\ phase = "idle" /\ thinkingIndex = -1 /\ textIndex = -1 /\ nextIndex = 0
      /\ stopReason = "end_turn" /\ sentText = <<>> /\ sentThinking = <<>>
      /\ view = [blocks |-> <<>>, stray |-> {}, error |-> FALSE, stop_reason |-> "none"]
  BY DEF Init, Callbacks!PhaseInit
<1>2. <<>> \in Seq(ContentBlock) /\ {} \in SUBSET (BlockType \union {"stop"})
      /\ <<>> \in Seq(Chunk)
  OBVIOUS
<1>3. view \in Message
  BY <1>1, <1>2 DEF Message
<1>4. TypeOK
  BY <1>1, <1>2, <1>3 DEF TypeOK, Callbacks!PhaseTypeOK, Callbacks!Phases
<1>5. view.blocks = <<>> /\ DOMAIN view.blocks = {} /\ Len(view.blocks) = 0
  BY <1>1
<1>6. IndexInv
  BY <1>1, <1>5 DEF IndexInv
<1> QED
  BY <1>1, <1>4, <1>5, <1>6
  DEF IInv, OpenInv, EventsAddressOpenBlocks, TextInv, TextInBlock,
      StopReasonInv, NoBlockOpenAtEnd

LEMMA NextPreserves == IInv /\ [Next]_vars => IInv'
<1> SUFFICES ASSUME IInv, [Next]_vars PROVE IInv'
  OBVIOUS
<1>1. ASSUME NEW d \in Chunk, OnThinking(d) PROVE IInv'
  BY <1>1, OnThinkingPreserves
<1>2. ASSUME NEW d \in Chunk, OnText(d) PROVE IInv'
  BY <1>2, OnTextPreserves
<1>3. ASSUME NEW n \in 1..MaxToolCalls, OnToolCalls(n) PROVE IInv'
  BY <1>3, OnToolCallsPreserves
<1>4. CASE OnError
  BY <1>4, OnErrorPreserves
<1>5. CASE OnDone
  BY <1>5, OnDonePreserves
<1>6. CASE NoCalls
  BY <1>6, NoCallsPreserves
<1>7. CASE UNCHANGED vars
  BY <1>7
  DEF vars, emitter, sent, IInv, TypeOK, Callbacks!PhaseTypeOK, IndexInv, OpenInv,
      EventsAddressOpenBlocks, TextInv, TextInBlock, StopReasonInv, NoBlockOpenAtEnd
<1> QED
  BY <1>1, <1>2, <1>3, <1>4, <1>5, <1>6, <1>7 DEF Next

\* The inductive invariant of the emitter: what its remembered indices, its stop
\* reason and the text it was handed say about the message the client holds.
THEOREM IInvAlways == Spec => []IInv
  BY InitEstablishes, NextPreserves, PTL DEF Spec

\* The emitter's variables and the message keep their types
\* (streamAnthropicWithCallbacks' indices, stop reason and events).
THEOREM TypeCorrect == Spec => []TypeOK
<1>1. IInv => TypeOK
  BY DEF IInv
<1> QED
  BY <1>1, IInvAlways, PTL

\* Whatever the order of the callbacks, every block start of
\* streamAnthropicWithCallbacks has the next index and every stop, text delta and
\* tool delta addresses an open block of its type.
THEOREM IndicesNeverStale == Spec => []EventsAddressOpenBlocks
<1>1. IInv => EventsAddressOpenBlocks
  BY DEF IInv
<1> QED
  BY <1>1, IInvAlways, PTL

\* The text handed to OnText is the content of the message's one text block, once
\* and in order, for turns of any length.
THEOREM TextReachesClient == Spec => []TextDelivered
  BY IInvImplies, IInvAlways, PTL

\* A finished message has no open block, and its stop_reason is tool_use exactly
\* when it holds a tool call.
THEOREM MessagesEndCleanly == Spec => []CleanEnd
  BY IInvImplies, IInvAlways, PTL

-----------------------------------------------------------------------------
(* The Responses emitter: the invariant                                     *)

\* An item of the emitter's in the client's response, given what was buffered for it
\* and the phase the turn is at.
ItemIs(item, type, buffer, at) ==
  /\ item.type = type
  /\ item.open <=> at # "closed"
  /\ item.text = buffer
  /\ item.final = IF at = "closed" THEN buffer ELSE <<>>

IsCall(item) ==
  /\ item.type = "function_call"
  /\ ~item.open
  /\ item.final = item.text

\* The next index is the client's until tool calls are written, after which none is used.
ItemIndexInv ==
  /\ thinkingOutputIdx \in -1..(nextOutputIdx - 1)
  /\ textOutputIdx \in -1..(nextOutputIdx - 1)
  /\ thinkingOutputIdx = textOutputIdx => textOutputIdx = -1
  /\ nextOutputIdx <= Len(response.items)
  /\ phase \in {"idle", "open"} => nextOutputIdx = Len(response.items)
  /\ thinkingOutputIdx = -1 => thinkingBuffer = <<>>
  /\ textOutputIdx = -1 => textBuffer = <<>>

\* The client's items are those at the remembered indices, and the calls.
ItemsInv ==
  \A i \in DOMAIN response.items :
    \/ i = thinkingOutputIdx + 1 /\ ItemIs(response.items[i], "reasoning", thinkingBuffer, phase)
    \/ i = textOutputIdx + 1 /\ ItemIs(response.items[i], "message", textBuffer, phase)
    \/ /\ i # thinkingOutputIdx + 1 /\ i # textOutputIdx + 1
       /\ IsCall(response.items[i])

StatusInv ==
  /\ response.stray = {}
  /\ phase = "closed" => response.status = "completed" /\ response.output_text = textBuffer

ResponseInv == Responses!TypeOK /\ ItemIndexInv /\ ItemsInv /\ StatusInv

LEMMA ResponseInvImplies == ResponseInv => Responses!EventsAddressOpenItems /\ Responses!FinalTextIsDeltas
<1> SUFFICES ASSUME ResponseInv
             PROVE  Responses!EventsAddressOpenItems /\ Responses!FinalTextIsDeltas
  OBVIOUS
<1>1. Responses!EventsAddressOpenItems
  BY DEF ResponseInv, StatusInv, Responses!EventsAddressOpenItems
<1>2. ASSUME phase = "closed", NEW i \in DOMAIN response.items
      PROVE  /\ ~response.items[i].open
             /\ response.items[i].final = response.items[i].text
             /\ response.items[i].type = "message" => response.items[i].text = response.output_text
  BY <1>2 DEF ResponseInv, ItemsInv, StatusInv, ItemIs, IsCall
<1>3. ASSUME phase = "closed", response.output_text # <<>>
      PROVE  \E i \in DOMAIN response.items : response.items[i].type = "message"
  <2>1. textOutputIdx \in 0..(nextOutputIdx - 1) /\ nextOutputIdx \in Nat
    BY <1>3 DEF ResponseInv, Responses!TypeOK, ItemIndexInv, StatusInv
  <2>2. textOutputIdx + 1 \in DOMAIN response.items /\ thinkingOutputIdx # textOutputIdx
    BY <2>1 DEF ResponseInv, Responses!TypeOK, ItemIndexInv, Responses!Response
  <2>3. textOutputIdx + 1 # thinkingOutputIdx + 1
    BY <2>2 DEF ResponseInv, Responses!TypeOK
  <2> QED
    BY <2>2, <2>3 DEF ResponseInv, ItemsInv, ItemIs
<1> QED
  BY <1>1, <1>2, <1>3 DEF Responses!FinalTextIsDeltas, ResponseInv, StatusInv

-----------------------------------------------------------------------------
(* What one event does to a client's response                              *)

\* Response w is v with other items.
WithItems(w, v, items) ==
  /\ w \in Responses!Response
  /\ w = [items |-> items, stray |-> v.stray, failed |-> v.failed,
          status |-> v.status, output_text |-> v.output_text]

NewItem(type) == [type |-> type, open |-> TRUE, text |-> <<>>, final |-> <<>>]

Extended(item, delta) ==
  [type |-> item.type, open |-> item.open, text |-> Append(item.text, delta),
   final |-> item.final]

Finished(item, text) ==
  [type |-> item.type, open |-> FALSE, text |-> item.text, final |-> text]

LEMMA ExtendedFacts ==
  ASSUME NEW item \in Responses!OutputItem, NEW delta \in Chunk
  PROVE  /\ Extended(item, delta) \in Responses!OutputItem
         /\ [item EXCEPT !.text = Append(@, delta)] = Extended(item, delta)
<1> DEFINE c == Append(item.text, delta)
<1>1. c \in Seq(Chunk)
  BY DEF Responses!OutputItem
<1> HIDE DEF c
<1>2. [type |-> item.type, open |-> item.open, text |-> c, final |-> item.final] \in Responses!OutputItem
  BY <1>1 DEF Responses!OutputItem
<1>3. [item EXCEPT !.text = c] =
        [type |-> item.type, open |-> item.open, text |-> c, final |-> item.final]
  BY DEF Responses!OutputItem
<1> QED
  BY <1>2, <1>3 DEF c, Extended

LEMMA ExceptOpen ==
  ASSUME NEW item \in Responses!OutputItem, NEW o \in BOOLEAN
  PROVE  [item EXCEPT !.open = o] =
           [type |-> item.type, open |-> o, text |-> item.text, final |-> item.final]
  BY SMTT(30) DEF Responses!OutputItem

LEMMA FinishedFacts ==
  ASSUME NEW item \in Responses!OutputItem, NEW text \in Seq(Chunk)
  PROVE  /\ Finished(item, text) \in Responses!OutputItem
         /\ [[item EXCEPT !.final = text] EXCEPT !.open = FALSE] = Finished(item, text)
<1> DEFINE other == [item EXCEPT !.final = text]
<1>1. other = [type |-> item.type, open |-> item.open, text |-> item.text, final |-> text]
  BY DEF Responses!OutputItem
<1>2. other \in Responses!OutputItem
  BY <1>1 DEF Responses!OutputItem
<1>3. other.type = item.type /\ other.text = item.text /\ other.final = text
  BY <1>1
<1> HIDE DEF other
<1>4. [other EXCEPT !.open = FALSE] = Finished(item, text)
  BY <1>2, <1>3, ExceptOpen, FALSE \in BOOLEAN DEF Finished
<1>5. Finished(item, text) \in Responses!OutputItem
  BY DEF Finished, Responses!OutputItem
<1> QED
  BY <1>4, <1>5 DEF other

LEMMA ItemsReplaced ==
  ASSUME NEW v \in Responses!Response, NEW items \in Seq(Responses!OutputItem)
  PROVE  WithItems([v EXCEPT !.items = items], v, items)
<1>1. [v EXCEPT !.items = items] =
        [items |-> items, stray |-> v.stray, failed |-> v.failed,
         status |-> v.status, output_text |-> v.output_text]
  BY DEF Responses!Response
<1>2. [items |-> items, stray |-> v.stray, failed |-> v.failed,
       status |-> v.status, output_text |-> v.output_text] \in Responses!Response
  BY DEF Responses!Response
<1> QED
  BY <1>1, <1>2 DEF WithItems

LEMMA ItemAddedFacts ==
  ASSUME NEW v \in Responses!Response, NEW type \in Responses!ItemType, NEW i, i = Len(v.items)
  PROVE  WithItems(Responses!ItemAdded(v, i, type), v, Append(v.items, NewItem(type)))
<1>1. v.items \in Seq(Responses!OutputItem)
  BY DEF Responses!Response
<1>2. NewItem(type) \in Responses!OutputItem
  BY DEF NewItem, Responses!OutputItem
<1>3. Responses!ItemAdded(v, i, type) = [v EXCEPT !.items = Append(v.items, NewItem(type))]
  BY DEF Responses!ItemAdded, NewItem
<1>4. Append(v.items, NewItem(type)) \in Seq(Responses!OutputItem)
  BY <1>1, <1>2
<1> QED
  BY <1>3, <1>4, ItemsReplaced

LEMMA TextDeltaFacts ==
  ASSUME NEW v \in Responses!Response, NEW i \in Int, Responses!IsOpen(v, i), NEW delta \in Chunk
  PROVE  WithItems(Responses!TextDelta(v, i, delta), v,
                   [v.items EXCEPT ![i + 1] = Extended(v.items[i + 1], delta)])
<1>1. v.items \in Seq(Responses!OutputItem) /\ i + 1 \in DOMAIN v.items
  BY DEF Responses!Response, Responses!IsOpen
<1>2. v.items[i + 1] \in Responses!OutputItem
  BY <1>1
<1>3. Extended(v.items[i + 1], delta) \in Responses!OutputItem
  BY <1>2, ExtendedFacts
<1>4. Responses!TextDelta(v, i, delta) =
        [v EXCEPT !.items = [v.items EXCEPT ![i + 1] = Extended(v.items[i + 1], delta)]]
  <2>1. [v.items[i + 1] EXCEPT !.text = Append(@, delta)] = Extended(v.items[i + 1], delta)
    BY <1>2, ExtendedFacts
  <2> QED
    BY <2>1 DEF Responses!TextDelta
<1>5. [v.items EXCEPT ![i + 1] = Extended(v.items[i + 1], delta)] \in Seq(Responses!OutputItem)
  BY <1>1, <1>3
<1> QED
  BY <1>4, <1>5, ItemsReplaced

LEMMA ItemDoneFacts ==
  ASSUME NEW v \in Responses!Response, NEW i \in Int, Responses!IsOpen(v, i), NEW text \in Seq(Chunk)
  PROVE  WithItems(Responses!ItemDone(v, i, text), v,
                   [v.items EXCEPT ![i + 1] = Finished(v.items[i + 1], text)])
<1> DEFINE old == v.items[i + 1]
           s == [v.items EXCEPT ![i + 1] = [old EXCEPT !.final = text]]
           u == [v EXCEPT !.items = s]
<1>1. v.items \in Seq(Responses!OutputItem) /\ i + 1 \in DOMAIN v.items
  BY DEF Responses!Response, Responses!IsOpen
<1>2. old \in Responses!OutputItem
  BY <1>1
<1>3. Responses!ItemDone(v, i, text) =
        [u EXCEPT !.items = [u.items EXCEPT ![i + 1] = [u.items[i + 1] EXCEPT !.open = FALSE]]]
  BY DEF Responses!ItemDone
<1>4. u.items = s /\ s[i + 1] = [old EXCEPT !.final = text]
  BY <1>1 DEF Responses!Response
<1>5. [u.items[i + 1] EXCEPT !.open = FALSE] = Finished(old, text)
  <2>1. [[old EXCEPT !.final = text] EXCEPT !.open = FALSE] = Finished(old, text)
    BY <1>2, FinishedFacts
  <2> QED
    BY <1>4, <2>1
<1>6. [s EXCEPT ![i + 1] = Finished(old, text)] = [v.items EXCEPT ![i + 1] = Finished(old, text)]
  BY <1>1
<1>7. Responses!ItemDone(v, i, text) = [v EXCEPT !.items = [v.items EXCEPT ![i + 1] = Finished(old, text)]]
  <2> DEFINE t == [v.items EXCEPT ![i + 1] = Finished(old, text)]
  <2> HIDE DEF s
  <2>1. Responses!ItemDone(v, i, text) = [u EXCEPT !.items = t]
    BY <1>3, <1>4, <1>5, <1>6
  <2> HIDE DEF t
  <2>2. [u EXCEPT !.items = t] = [v EXCEPT !.items = t]
    OBVIOUS
  <2> QED
    BY <2>1, <2>2 DEF t
<1>8. [v.items EXCEPT ![i + 1] = Finished(old, text)] \in Seq(Responses!OutputItem)
  <2>1. Finished(old, text) \in Responses!OutputItem
    BY <1>2 DEF Finished, Responses!OutputItem
  <2> QED
    BY <1>1, <2>1
<1> QED
  BY <1>7, <1>8, ItemsReplaced

\* A delta that opens its item.
LEMMA FirstDelta ==
  ASSUME NEW v \in Responses!Response, NEW type \in Responses!ItemType, NEW delta \in Chunk, NEW n, n = Len(v.items)
  PROVE  WithItems(Responses!TextDelta(Responses!ItemAdded(v, n, type), n, delta), v,
                   Append(v.items, Extended(NewItem(type), delta)))
<1> DEFINE v1 == Responses!ItemAdded(v, n, type)
           s1 == Append(v.items, NewItem(type))
<1>1. v.items \in Seq(Responses!OutputItem) /\ n \in Nat
  BY DEF Responses!Response
<1>2. NewItem(type) \in Responses!OutputItem /\ NewItem(type).open
  BY DEF NewItem, Responses!OutputItem
<1>3. WithItems(v1, v, s1)
  BY ItemAddedFacts
<1>4. s1 \in Seq(Responses!OutputItem) /\ n + 1 \in DOMAIN s1 /\ s1[n + 1] = NewItem(type)
  BY <1>1, <1>2
<1>5. v1 \in Responses!Response /\ v1.items = s1
  BY <1>3 DEF WithItems
<1>6. Responses!IsOpen(v1, n)
  BY <1>2, <1>4, <1>5 DEF Responses!IsOpen
<1> HIDE DEF v1
<1>7. WithItems(Responses!TextDelta(v1, n, delta), v1, [s1 EXCEPT ![n + 1] = Extended(s1[n + 1], delta)])
  <2>1. WithItems(Responses!TextDelta(v1, n, delta), v1,
                  [v1.items EXCEPT ![n + 1] = Extended(v1.items[n + 1], delta)])
    <3>1. n \in Int
      BY <1>1
    <3> HIDE DEF s1
    <3> QED
      BY <3>1, <1>5, <1>6, TextDeltaFacts
  <2> QED
    BY <1>5, <2>1
<1>8. [s1 EXCEPT ![n + 1] = Extended(s1[n + 1], delta)] =
        Append(v.items, Extended(NewItem(type), delta))
  <2> DEFINE new == NewItem(type)
             x == Extended(new, delta)
  <2>1. x \in Responses!OutputItem /\ new \in Responses!OutputItem
    BY <1>2, ExtendedFacts
  <2> HIDE DEF new, x
  <2>2. [Append(v.items, new) EXCEPT ![n + 1] = x] = Append(v.items, x)
    <3> DEFINE left == [Append(v.items, new) EXCEPT ![n + 1] = x]
               right == Append(v.items, x)
    <3>1. Append(v.items, new) \in Seq(Responses!OutputItem) /\ right \in Seq(Responses!OutputItem)
      BY <1>1, <2>1
    <3>2. left \in Seq(Responses!OutputItem) /\ Len(left) = n + 1 /\ Len(right) = n + 1
      BY <1>1, <2>1, <3>1
    <3>3. ASSUME NEW j \in 1..(n + 1)
          PROVE  left[j] = right[j]
      <4>1. CASE j = n + 1
        BY <1>1, <2>1, <3>1, <4>1
      <4>2. CASE j # n + 1
        <5>1. j \in 1..n
          BY <1>1, <4>2
        <5>2. Append(v.items, new)[j] = v.items[j] /\ right[j] = v.items[j]
          BY <1>1, <2>1, <5>1
        <5>3. left[j] = Append(v.items, new)[j]
          <6> DEFINE f == Append(v.items, new)
          <6>1. j \in DOMAIN f
            BY <1>1, <2>1, <5>1
          <6> HIDE DEF f
          <6>2. [f EXCEPT ![n + 1] = x][j] = f[j]
            BY <4>2, <6>1
          <6> QED
            BY <6>2 DEF f
        <5> QED
          BY <5>2, <5>3
      <4> QED
        BY <4>1, <4>2
    <3> HIDE DEF left, right
    <3>4. left = right
      BY <1>1, <3>1, <3>2, <3>3
    <3> QED
      BY <3>4 DEF left, right
  <2> QED
    BY <1>4, <2>2 DEF new, x
<1>9. WithItems(Responses!TextDelta(v1, n, delta), v, Append(v.items, Extended(NewItem(type), delta)))
  BY <1>3, <1>7, <1>8 DEF WithItems
<1> QED
  BY <1>9 DEF v1

\* The closing events of an item, if there is one.
LEMMA DoneFacts ==
  ASSUME NEW v \in Responses!Response, NEW i \in Int, NEW text \in Seq(Chunk), i # -1 => Responses!IsOpen(v, i)
  PROVE  LET w == IF i # -1 THEN Responses!ItemDone(v, i, text) ELSE v
         IN  /\ w \in Responses!Response /\ w.stray = v.stray
             /\ DOMAIN w.items = DOMAIN v.items
             /\ \A j \in DOMAIN v.items :
                  w.items[j] = IF j = i + 1 THEN Finished(v.items[j], text) ELSE v.items[j]
<1>1. v.items \in Seq(Responses!OutputItem)
  BY DEF Responses!Response
<1>2. CASE i = -1
  BY <1>1, <1>2
<1>3. CASE i # -1
  <2> DEFINE w == Responses!ItemDone(v, i, text)
             s == [v.items EXCEPT ![i + 1] = Finished(v.items[i + 1], text)]
  <2>1. WithItems(w, v, s)
    BY <1>3, ItemDoneFacts
  <2>2. /\ DOMAIN s = DOMAIN v.items
        /\ \A j \in DOMAIN v.items :
             s[j] = IF j = i + 1 THEN Finished(v.items[j], text) ELSE v.items[j]
    BY <1>1
  <2> HIDE DEF w, s
  <2>3. w \in Responses!Response /\ w.items = s /\ w.stray = v.stray
    BY <2>1 DEF WithItems
  <2>4. /\ w \in Responses!Response /\ w.stray = v.stray
        /\ DOMAIN w.items = DOMAIN v.items
        /\ \A j \in DOMAIN v.items :
             w.items[j] = IF j = i + 1 THEN Finished(v.items[j], text) ELSE v.items[j]
    BY <2>2, <2>3
  <2> QED
    BY <1>3, <2>4 DEF w
<1> QED
  BY <1>2, <1>3

-----------------------------------------------------------------------------
(* One lemma per callback *)

LEMMA ResponsesThinkingPreserves ==
  ASSUME ResponseInv, NEW d \in Chunk, Responses!OnThinking(d)
  PROVE  ResponseInv'
<1> DEFINE first == thinkingOutputIdx = -1
           index == IF first THEN nextOutputIdx ELSE thinkingOutputIdx
           v1    == IF first THEN Responses!ItemAdded(response, index, "reasoning") ELSE response
<1>0. /\ Responses!TypeOK /\ ItemIndexInv /\ ItemsInv /\ StatusInv
      /\ response \in Responses!Response /\ response.items \in Seq(Responses!OutputItem)
      /\ thinkingOutputIdx \in Int /\ textOutputIdx \in Int /\ nextOutputIdx \in Nat
      /\ thinkingBuffer \in Seq(Chunk) /\ textBuffer \in Seq(Chunk)
  BY DEF ResponseInv, Responses!TypeOK, Responses!Response
<1>1. /\ phase \in {"idle", "open"} /\ phase' = "open"
      /\ thinkingOutputIdx' = index
      /\ nextOutputIdx' = IF first THEN nextOutputIdx + 1 ELSE nextOutputIdx
      /\ thinkingBuffer' = Append(thinkingBuffer, d)
      /\ response' = Responses!TextDelta(v1, index, d)
      /\ UNCHANGED <<textOutputIdx, textBuffer>>
  BY DEF Responses!OnThinking, Responses!Callbacks!CallThinking
<1>2. nextOutputIdx = Len(response.items)
  BY <1>0, <1>1 DEF ItemIndexInv
<1>3. CASE first
  <2> DEFINE new == Extended(NewItem("reasoning"), d)
             s   == Append(response.items, new)
  <2>1. WithItems(response', response, s)
    BY <1>0, <1>1, <1>2, <1>3, FirstDelta DEF Responses!ItemType
  <2>2. thinkingBuffer = <<>> /\ thinkingBuffer' = Append(<<>>, d)
    BY <1>0, <1>1, <1>3 DEF ItemIndexInv
  <2>3. new.type = "reasoning" /\ new.open /\ new.text = thinkingBuffer' /\ new.final = <<>>
    BY <2>2 DEF Extended, NewItem
  <2>4. /\ DOMAIN s = 1..(nextOutputIdx + 1) /\ Len(s) = nextOutputIdx + 1
        /\ s[nextOutputIdx + 1] = new
        /\ \A i \in DOMAIN response.items : s[i] = response.items[i]
    BY <1>0, <1>2
  <2> HIDE DEF new, s
  <2>5. response' \in Responses!Response /\ response'.items = s /\ response'.stray = response.stray
    BY <2>1 DEF WithItems
  <2>6. thinkingOutputIdx' = nextOutputIdx /\ nextOutputIdx' = nextOutputIdx + 1
    BY <1>1, <1>3
  <2>7. Responses!TypeOK'
    BY <1>0, <1>1, <2>5, <2>6 DEF Responses!TypeOK, Responses!Callbacks!PhaseTypeOK, Responses!Callbacks!Phases
  <2>8. ItemIndexInv'
    BY <1>0, <1>1, <1>2, <2>4, <2>5, <2>6 DEF ItemIndexInv
  <2>9. ItemsInv'
    <3> SUFFICES ASSUME NEW i \in DOMAIN s
                 PROVE  \/ i = thinkingOutputIdx' + 1 /\ ItemIs(s[i], "reasoning", thinkingBuffer', phase')
                        \/ i = textOutputIdx' + 1 /\ ItemIs(s[i], "message", textBuffer', phase')
                        \/ /\ i # thinkingOutputIdx' + 1 /\ i # textOutputIdx' + 1
                           /\ IsCall(s[i])
      BY <2>5 DEF ItemsInv
    <3>1. CASE i = nextOutputIdx + 1
      BY <1>1, <2>3, <2>4, <2>6, <3>1 DEF ItemIs
    <3>2. CASE i # nextOutputIdx + 1
      <4>1. i \in DOMAIN response.items /\ i # 0
        BY <1>0, <1>2, <2>4, <3>2
      <4>2. i # thinkingOutputIdx + 1
        BY <1>3, <4>1
      <4>3. \/ i = textOutputIdx + 1 /\ ItemIs(response.items[i], "message", textBuffer, phase)
            \/ i # textOutputIdx + 1 /\ IsCall(response.items[i])
        BY <1>0, <4>1, <4>2 DEF ItemsInv
      <4> QED
        BY <1>1, <2>4, <2>6, <3>2, <4>1, <4>3 DEF ItemIs, IsCall
    <3> QED
      BY <3>1, <3>2
  <2>10. StatusInv'
    BY <1>0, <1>1, <2>5 DEF StatusInv
  <2> QED
    BY <2>7, <2>8, <2>9, <2>10 DEF ResponseInv
<1>4. CASE ~first
  <2> DEFINE k   == thinkingOutputIdx + 1
             new == Extended(response.items[k], d)
             s   == [response.items EXCEPT ![k] = new]
  <2>1. k \in DOMAIN response.items
    BY <1>0, <1>2, <1>4 DEF ItemIndexInv
  <2>2. ItemIs(response.items[k], "reasoning", thinkingBuffer, phase)
    <3>1. thinkingOutputIdx # textOutputIdx
      BY <1>0, <1>4 DEF ItemIndexInv
    <3>2. k # textOutputIdx + 1
      BY <1>0, <3>1
    <3> QED
      BY <1>0, <2>1, <3>2 DEF ItemsInv
  <2>3. Responses!IsOpen(response, thinkingOutputIdx)
    BY <1>1, <2>1, <2>2 DEF Responses!IsOpen, ItemIs
  <2>4. WithItems(response', response, s)
    BY <1>0, <1>1, <1>4, <2>3, TextDeltaFacts
  <2>5. new.type = "reasoning" /\ new.open /\ new.text = thinkingBuffer' /\ new.final = <<>>
    BY <1>1, <2>2 DEF Extended, ItemIs
  <2>6. /\ DOMAIN s = DOMAIN response.items /\ Len(s) = Len(response.items)
        /\ s[k] = new
        /\ \A i \in DOMAIN response.items \ {k} : s[i] = response.items[i]
    BY <1>0, <2>1
  <2> HIDE DEF new, s
  <2>7. response' \in Responses!Response /\ response'.items = s /\ response'.stray = response.stray
    BY <2>4 DEF WithItems
  <2>8. thinkingOutputIdx' = thinkingOutputIdx /\ nextOutputIdx' = nextOutputIdx
    BY <1>1, <1>4
  <2>9. Responses!TypeOK'
    BY <1>0, <1>1, <2>7, <2>8 DEF Responses!TypeOK, Responses!Callbacks!PhaseTypeOK, Responses!Callbacks!Phases
  <2>10. ItemIndexInv'
    BY <1>0, <1>1, <1>2, <1>4, <2>6, <2>7, <2>8 DEF ItemIndexInv
  <2>11. ItemsInv'
    <3> SUFFICES ASSUME NEW i \in DOMAIN s
                 PROVE  \/ i = thinkingOutputIdx' + 1 /\ ItemIs(s[i], "reasoning", thinkingBuffer', phase')
                        \/ i = textOutputIdx' + 1 /\ ItemIs(s[i], "message", textBuffer', phase')
                        \/ /\ i # thinkingOutputIdx' + 1 /\ i # textOutputIdx' + 1
                           /\ IsCall(s[i])
      BY <2>7 DEF ItemsInv
    <3>1. CASE i = k
      BY <1>1, <2>5, <2>6, <2>8, <3>1 DEF ItemIs
    <3>2. CASE i # k
      <4>1. i \in DOMAIN response.items /\ s[i] = response.items[i]
        BY <2>6, <3>2
      <4>2. \/ i = textOutputIdx + 1 /\ ItemIs(response.items[i], "message", textBuffer, phase)
            \/ i # textOutputIdx + 1 /\ IsCall(response.items[i])
        BY <1>0, <3>2, <4>1 DEF ItemsInv
      <4> QED
        BY <1>1, <2>8, <3>2, <4>1, <4>2 DEF ItemIs, IsCall
    <3> QED
      BY <3>1, <3>2
  <2>12. StatusInv'
    BY <1>0, <1>1, <2>7 DEF StatusInv
  <2> QED
    BY <2>9, <2>10, <2>11, <2>12 DEF ResponseInv
<1> QED
  BY <1>3, <1>4

LEMMA ResponsesTextPreserves ==
  ASSUME ResponseInv, NEW d \in Chunk, Responses!OnText(d)
  PROVE  ResponseInv'
<1> DEFINE first == textOutputIdx = -1
           index == IF first THEN nextOutputIdx ELSE textOutputIdx
           v1    == IF first THEN Responses!ItemAdded(response, index, "message") ELSE response
<1>0. /\ Responses!TypeOK /\ ItemIndexInv /\ ItemsInv /\ StatusInv
      /\ response \in Responses!Response /\ response.items \in Seq(Responses!OutputItem)
      /\ textOutputIdx \in Int /\ thinkingOutputIdx \in Int /\ nextOutputIdx \in Nat
      /\ textBuffer \in Seq(Chunk) /\ thinkingBuffer \in Seq(Chunk)
  BY DEF ResponseInv, Responses!TypeOK, Responses!Response
<1>1. /\ phase \in {"idle", "open"} /\ phase' = "open"
      /\ textOutputIdx' = index
      /\ nextOutputIdx' = IF first THEN nextOutputIdx + 1 ELSE nextOutputIdx
      /\ textBuffer' = Append(textBuffer, d)
      /\ response' = Responses!TextDelta(v1, index, d)
      /\ UNCHANGED <<thinkingOutputIdx, thinkingBuffer>>
  BY DEF Responses!OnText, Responses!Callbacks!CallText
<1>2. nextOutputIdx = Len(response.items)
  BY <1>0, <1>1 DEF ItemIndexInv
<1>3. CASE first
  <2> DEFINE new == Extended(NewItem("message"), d)
             s   == Append(response.items, new)
  <2>1. WithItems(response', response, s)
    BY <1>0, <1>1, <1>2, <1>3, FirstDelta DEF Responses!ItemType
  <2>2. textBuffer = <<>> /\ textBuffer' = Append(<<>>, d)
    BY <1>0, <1>1, <1>3 DEF ItemIndexInv
  <2>3. new.type = "message" /\ new.open /\ new.text = textBuffer' /\ new.final = <<>>
    BY <2>2 DEF Extended, NewItem
  <2>4. /\ DOMAIN s = 1..(nextOutputIdx + 1) /\ Len(s) = nextOutputIdx + 1
        /\ s[nextOutputIdx + 1] = new
        /\ \A i \in DOMAIN response.items : s[i] = response.items[i]
    BY <1>0, <1>2
  <2> HIDE DEF new, s
  <2>5. response' \in Responses!Response /\ response'.items = s /\ response'.stray = response.stray
    BY <2>1 DEF WithItems
  <2>6. textOutputIdx' = nextOutputIdx /\ nextOutputIdx' = nextOutputIdx + 1
    BY <1>1, <1>3
  <2>7. Responses!TypeOK'
    BY <1>0, <1>1, <2>5, <2>6 DEF Responses!TypeOK, Responses!Callbacks!PhaseTypeOK, Responses!Callbacks!Phases
  <2>8. ItemIndexInv'
    BY <1>0, <1>1, <1>2, <2>4, <2>5, <2>6 DEF ItemIndexInv
  <2>9. ItemsInv'
    <3> SUFFICES ASSUME NEW i \in DOMAIN s
                 PROVE  \/ i = thinkingOutputIdx' + 1 /\ ItemIs(s[i], "reasoning", thinkingBuffer', phase')
                        \/ i = textOutputIdx' + 1 /\ ItemIs(s[i], "message", textBuffer', phase')
                        \/ /\ i # thinkingOutputIdx' + 1 /\ i # textOutputIdx' + 1
                           /\ IsCall(s[i])
      BY <2>5 DEF ItemsInv
    <3>1. CASE i = nextOutputIdx + 1
      BY <1>1, <2>3, <2>4, <2>6, <3>1 DEF ItemIs
    <3>2. CASE i # nextOutputIdx + 1
      <4>1. i \in DOMAIN response.items /\ i # 0
        BY <1>0, <1>2, <2>4, <3>2
      <4>2. i # textOutputIdx + 1
        BY <1>3, <4>1
      <4>3. \/ i = thinkingOutputIdx + 1 /\ ItemIs(response.items[i], "reasoning", thinkingBuffer, phase)
            \/ i # thinkingOutputIdx + 1 /\ IsCall(response.items[i])
        BY <1>0, <4>1, <4>2 DEF ItemsInv
      <4> QED
        BY <1>1, <2>4, <2>6, <3>2, <4>1, <4>3 DEF ItemIs, IsCall
    <3> QED
      BY <3>1, <3>2
  <2>10. StatusInv'
    BY <1>0, <1>1, <2>5 DEF StatusInv
  <2> QED
    BY <2>7, <2>8, <2>9, <2>10 DEF ResponseInv
<1>4. CASE ~first
  <2> DEFINE k   == textOutputIdx + 1
             new == Extended(response.items[k], d)
             s   == [response.items EXCEPT ![k] = new]
  <2>1. k \in DOMAIN response.items
    BY <1>0, <1>2, <1>4 DEF ItemIndexInv
  <2>2. ItemIs(response.items[k], "message", textBuffer, phase)
    <3>1. textOutputIdx # thinkingOutputIdx
      BY <1>0, <1>4 DEF ItemIndexInv
    <3>2. k # thinkingOutputIdx + 1
      BY <1>0, <3>1
    <3> QED
      BY <1>0, <2>1, <3>2 DEF ItemsInv
  <2>3. Responses!IsOpen(response, textOutputIdx)
    BY <1>1, <2>1, <2>2 DEF Responses!IsOpen, ItemIs
  <2>4. WithItems(response', response, s)
    BY <1>0, <1>1, <1>4, <2>3, TextDeltaFacts
  <2>5. new.type = "message" /\ new.open /\ new.text = textBuffer' /\ new.final = <<>>
    BY <1>1, <2>2 DEF Extended, ItemIs
  <2>6. /\ DOMAIN s = DOMAIN response.items /\ Len(s) = Len(response.items)
        /\ s[k] = new
        /\ \A i \in DOMAIN response.items \ {k} : s[i] = response.items[i]
    BY <1>0, <2>1
  <2> HIDE DEF new, s
  <2>7. response' \in Responses!Response /\ response'.items = s /\ response'.stray = response.stray
    BY <2>4 DEF WithItems
  <2>8. textOutputIdx' = textOutputIdx /\ nextOutputIdx' = nextOutputIdx
    BY <1>1, <1>4
  <2>9. Responses!TypeOK'
    BY <1>0, <1>1, <2>7, <2>8 DEF Responses!TypeOK, Responses!Callbacks!PhaseTypeOK, Responses!Callbacks!Phases
  <2>10. ItemIndexInv'
    BY <1>0, <1>1, <1>2, <1>4, <2>6, <2>7, <2>8 DEF ItemIndexInv
  <2>11. ItemsInv'
    <3> SUFFICES ASSUME NEW i \in DOMAIN s
                 PROVE  \/ i = thinkingOutputIdx' + 1 /\ ItemIs(s[i], "reasoning", thinkingBuffer', phase')
                        \/ i = textOutputIdx' + 1 /\ ItemIs(s[i], "message", textBuffer', phase')
                        \/ /\ i # thinkingOutputIdx' + 1 /\ i # textOutputIdx' + 1
                           /\ IsCall(s[i])
      BY <2>7 DEF ItemsInv
    <3>1. CASE i = k
      BY <1>1, <2>5, <2>6, <2>8, <3>1 DEF ItemIs
    <3>2. CASE i # k
      <4>1. i \in DOMAIN response.items /\ s[i] = response.items[i]
        BY <2>6, <3>2
      <4>2. \/ i = thinkingOutputIdx + 1 /\ ItemIs(response.items[i], "reasoning", thinkingBuffer, phase)
            \/ i # thinkingOutputIdx + 1 /\ IsCall(response.items[i])
        BY <1>0, <3>2, <4>1 DEF ItemsInv
      <4> QED
        BY <1>1, <2>8, <3>2, <4>1, <4>2 DEF ItemIs, IsCall
    <3> QED
      BY <3>1, <3>2
  <2>12. StatusInv'
    BY <1>0, <1>1, <2>7 DEF StatusInv
  <2> QED
    BY <2>9, <2>10, <2>11, <2>12 DEF ResponseInv
<1> QED
  BY <1>3, <1>4

LEMMA ResponsesToolCallsPreserves ==
  ASSUME ResponseInv, NEW n \in 1..MaxToolCalls, Responses!OnToolCalls(n)
  PROVE  ResponseInv' /\ Len(response'.items) = Len(response.items) + n
<1> DEFINE called == [type |-> "function_call", open |-> FALSE, text |-> <<>>, final |-> <<>>]
           calls  == [k \in 1..n |-> called]
           s      == response.items \o calls
<1>0. /\ Responses!TypeOK /\ ItemIndexInv /\ ItemsInv /\ StatusInv
      /\ response \in Responses!Response /\ response.items \in Seq(Responses!OutputItem)
      /\ thinkingOutputIdx \in Int /\ textOutputIdx \in Int /\ nextOutputIdx \in Nat
  BY DEF ResponseInv, Responses!TypeOK, Responses!Response
<1>1. /\ phase \in {"idle", "open"} /\ phase' = "tools"
      /\ response' = Responses!FunctionCalls(response, nextOutputIdx, n)
      /\ UNCHANGED <<thinkingOutputIdx, thinkingBuffer, textOutputIdx, textBuffer, nextOutputIdx>>
  BY DEF Responses!OnToolCalls, Responses!Callbacks!CallToolCalls, Responses!emitter
<1>2. nextOutputIdx = Len(response.items)
  BY <1>0, <1>1 DEF ItemIndexInv
<1>3. called \in Responses!OutputItem /\ IsCall(called)
  BY DEF Responses!OutputItem, Responses!ItemType, IsCall
<1>4. response' = [response EXCEPT !.items = s]
  BY <1>1, <1>2 DEF Responses!FunctionCalls
<1> HIDE DEF called
<1>5. calls \in Seq(Responses!OutputItem) /\ Len(calls) = n /\ n \in Nat
      /\ \A k \in 1..n : calls[k] = called
  BY <1>3, BoundsAssumption
<1> HIDE DEF calls
<1>6. /\ s \in Seq(Responses!OutputItem) /\ Len(s) = nextOutputIdx + n
      /\ \A i \in DOMAIN s : IF i <= nextOutputIdx THEN s[i] = response.items[i] ELSE s[i] = called
  <2>1. s \in Seq(Responses!OutputItem) /\ Len(s) = nextOutputIdx + n
    BY <1>0, <1>2, <1>5
  <2>2. ASSUME NEW i \in DOMAIN s
        PROVE  IF i <= nextOutputIdx THEN s[i] = response.items[i] ELSE s[i] = called
    <3>1. i \in 1..(nextOutputIdx + n)
      BY <2>1
    <3>2. CASE i <= nextOutputIdx
      BY <1>0, <1>2, <1>5, <3>1, <3>2
    <3>3. CASE ~(i <= nextOutputIdx)
      <4>1. i - nextOutputIdx \in 1..n
        BY <1>0, <1>5, <3>1, <3>3
      <4>2. s[i] = calls[i - nextOutputIdx]
        BY <1>0, <1>2, <1>5, <3>1, <3>3
      <4> QED
        BY <1>5, <3>3, <4>1, <4>2
    <3> QED
      BY <3>2, <3>3
  <2> QED
    BY <2>1, <2>2
<1> HIDE DEF s
<1>7. response' \in Responses!Response /\ response'.items = s /\ response'.stray = response.stray
  <2>1. WithItems([response EXCEPT !.items = s], response, s)
    BY <1>0, <1>6, ItemsReplaced
  <2>2. WithItems(response', response, s)
    BY <1>4, <2>1
  <2> QED
    BY <2>2 DEF WithItems
<1>8. Responses!TypeOK'
  BY <1>0, <1>1, <1>7 DEF Responses!TypeOK, Responses!Callbacks!PhaseTypeOK, Responses!Callbacks!Phases
<1>9. ItemIndexInv'
  BY <1>0, <1>1, <1>2, <1>5, <1>6, <1>7 DEF ItemIndexInv
<1>10. ItemsInv'
  <2> SUFFICES ASSUME NEW i \in DOMAIN s
               PROVE  \/ i = thinkingOutputIdx + 1 /\ ItemIs(s[i], "reasoning", thinkingBuffer, phase')
                      \/ i = textOutputIdx + 1 /\ ItemIs(s[i], "message", textBuffer, phase')
                      \/ /\ i # thinkingOutputIdx + 1 /\ i # textOutputIdx + 1
                         /\ IsCall(s[i])
    BY <1>1, <1>7 DEF ItemsInv
  <2>0. i \in 1..(nextOutputIdx + n)
    BY <1>6
  <2>1. CASE i <= nextOutputIdx
    <3>1. i \in DOMAIN response.items
      BY <1>0, <1>2, <2>0, <2>1
    <3>2. s[i] = response.items[i]
      BY <1>6, <2>1
    <3> QED
      BY <1>0, <1>1, <3>1, <3>2 DEF ItemsInv, ItemIs
  <2>2. CASE ~(i <= nextOutputIdx)
    <3>1. i # thinkingOutputIdx + 1 /\ i # textOutputIdx + 1
      BY <1>0, <2>0, <2>2 DEF ItemIndexInv
    <3>2. s[i] = called
      BY <1>6, <2>2
    <3> QED
      BY <1>3, <3>1, <3>2
  <2> QED
    BY <2>1, <2>2
<1>11. StatusInv'
  BY <1>0, <1>1, <1>7 DEF StatusInv
<1> QED
  BY <1>2, <1>6, <1>7, <1>8, <1>9, <1>10, <1>11 DEF ResponseInv

LEMMA ResponsesErrorPreserves ==
  ASSUME ResponseInv, Responses!OnError
  PROVE  ResponseInv'
<1>0. response \in Responses!Response /\ Responses!TypeOK /\ ItemIndexInv /\ ItemsInv /\ StatusInv
  BY DEF ResponseInv, Responses!TypeOK
<1>1. /\ phase \in {"idle", "open"} /\ phase' = "open"
      /\ response' = [response EXCEPT !.failed = TRUE]
      /\ UNCHANGED <<thinkingOutputIdx, thinkingBuffer, textOutputIdx, textBuffer, nextOutputIdx>>
  BY DEF Responses!OnError, Responses!Callbacks!CallError, Responses!emitter
<1>2. response' \in Responses!Response /\ response'.items = response.items /\ response'.stray = response.stray
  BY <1>0, <1>1 DEF Responses!Response
<1>3. Responses!TypeOK'
  BY <1>0, <1>1, <1>2 DEF Responses!TypeOK, Responses!Callbacks!PhaseTypeOK, Responses!Callbacks!Phases
<1>4. ItemIndexInv'
  BY <1>0, <1>1, <1>2 DEF ItemIndexInv
<1>5. ItemsInv'
  BY <1>0, <1>1, <1>2 DEF ItemsInv, ItemIs
<1>6. StatusInv'
  BY <1>0, <1>1, <1>2 DEF StatusInv
<1> QED
  BY <1>3, <1>4, <1>5, <1>6 DEF ResponseInv

LEMMA ResponsesDonePreserves ==
  ASSUME ResponseInv, Responses!OnDone
  PROVE  ResponseInv' /\ Len(response'.items) = Len(response.items)
<1> DEFINE v1 == IF thinkingOutputIdx # -1
                 THEN Responses!ItemDone(response, thinkingOutputIdx, thinkingBuffer) ELSE response
           v2 == IF textOutputIdx # -1 THEN Responses!ItemDone(v1, textOutputIdx, textBuffer) ELSE v1
<1>0. /\ Responses!TypeOK /\ ItemIndexInv /\ ItemsInv /\ StatusInv
      /\ response \in Responses!Response /\ response.items \in Seq(Responses!OutputItem)
      /\ thinkingOutputIdx \in Int /\ textOutputIdx \in Int /\ nextOutputIdx \in Nat
      /\ thinkingBuffer \in Seq(Chunk) /\ textBuffer \in Seq(Chunk)
  BY DEF ResponseInv, Responses!TypeOK, Responses!Response
<1>1. /\ phase # "closed" /\ phase' = "closed"
      /\ response' = [v2 EXCEPT !.status = "completed", !.output_text = textBuffer]
      /\ UNCHANGED <<thinkingOutputIdx, thinkingBuffer, textOutputIdx, textBuffer, nextOutputIdx>>
  BY DEF Responses!OnDone, Responses!Callbacks!CallDone, Responses!emitter
<1>2. thinkingOutputIdx # -1 => Responses!IsOpen(response, thinkingOutputIdx)
  <2> SUFFICES ASSUME thinkingOutputIdx # -1
               PROVE  Responses!IsOpen(response, thinkingOutputIdx)
    OBVIOUS
  <2>1. /\ thinkingOutputIdx + 1 \in DOMAIN response.items
        /\ thinkingOutputIdx + 1 # textOutputIdx + 1
    BY <1>0 DEF ItemIndexInv
  <2> QED
    BY <1>0, <1>1, <2>1 DEF ItemsInv, ItemIs, Responses!IsOpen
<1>3. /\ v1 \in Responses!Response /\ v1.stray = response.stray
      /\ DOMAIN v1.items = DOMAIN response.items
      /\ \A j \in DOMAIN response.items :
           v1.items[j] = IF j = thinkingOutputIdx + 1 THEN Finished(response.items[j], thinkingBuffer)
                         ELSE response.items[j]
  BY <1>0, <1>2, DoneFacts
<1> HIDE DEF v1
<1>4. textOutputIdx # -1 => Responses!IsOpen(v1, textOutputIdx)
  <2> SUFFICES ASSUME textOutputIdx # -1
               PROVE  Responses!IsOpen(v1, textOutputIdx)
    OBVIOUS
  <2>1. /\ textOutputIdx + 1 \in DOMAIN response.items
        /\ textOutputIdx + 1 # thinkingOutputIdx + 1
    BY <1>0 DEF ItemIndexInv
  <2>2. v1.items[textOutputIdx + 1] = response.items[textOutputIdx + 1]
    BY <1>3, <2>1
  <2> QED
    BY <1>0, <1>1, <1>3, <2>1, <2>2 DEF ItemsInv, ItemIs, Responses!IsOpen
<1>5. /\ v2 \in Responses!Response /\ v2.stray = v1.stray
      /\ DOMAIN v2.items = DOMAIN v1.items
      /\ \A j \in DOMAIN v1.items :
           v2.items[j] = IF j = textOutputIdx + 1 THEN Finished(v1.items[j], textBuffer)
                         ELSE v1.items[j]
  BY <1>0, <1>3, <1>4, DoneFacts
<1> HIDE DEF v2
<1>6. /\ response' \in Responses!Response /\ response'.items = v2.items /\ response'.stray = {}
      /\ response'.status = "completed" /\ response'.output_text = textBuffer
  <2>1. response' = [items |-> v2.items, stray |-> v2.stray, failed |-> v2.failed,
                 status |-> "completed", output_text |-> textBuffer]
    BY <1>1, <1>5 DEF Responses!Response
  <2>2. [items |-> v2.items, stray |-> v2.stray, failed |-> v2.failed,
         status |-> "completed", output_text |-> textBuffer] \in Responses!Response
    BY <1>0, <1>5 DEF Responses!Response
  <2> QED
    BY <1>0, <1>3, <1>5, <2>1, <2>2 DEF StatusInv
<1>7. Responses!TypeOK'
  BY <1>0, <1>1, <1>6 DEF Responses!TypeOK, Responses!Callbacks!PhaseTypeOK, Responses!Callbacks!Phases
<1>8a. Len(response'.items) = Len(response.items)
  <2>1. response'.items \in Seq(Responses!OutputItem) /\ DOMAIN response'.items = DOMAIN response.items
    BY <1>3, <1>5, <1>6 DEF Responses!Response
  <2> QED
    BY <1>0, <2>1
<1>8. ItemIndexInv'
  BY <1>0, <1>1, <1>8a DEF ItemIndexInv
<1>9. ItemsInv'
  <2> SUFFICES ASSUME NEW i \in DOMAIN response.items
               PROVE  \/ /\ i = thinkingOutputIdx + 1
                         /\ ItemIs(v2.items[i], "reasoning", thinkingBuffer, phase')
                      \/ /\ i = textOutputIdx + 1
                         /\ ItemIs(v2.items[i], "message", textBuffer, phase')
                      \/ /\ i # thinkingOutputIdx + 1 /\ i # textOutputIdx + 1
                         /\ IsCall(v2.items[i])
    BY <1>1, <1>3, <1>5, <1>6 DEF ItemsInv
  <2>1. CASE i = thinkingOutputIdx + 1
    <3>1. i # textOutputIdx + 1
      BY <1>0, <2>1 DEF ItemIndexInv
    <3>2. v2.items[i] = Finished(response.items[i], thinkingBuffer)
      BY <1>3, <1>5, <2>1, <3>1
    <3> QED
      BY <1>0, <1>1, <2>1, <3>1, <3>2 DEF ItemsInv, ItemIs, Finished
  <2>2. CASE i # thinkingOutputIdx + 1 /\ i = textOutputIdx + 1
    <3>1. v2.items[i] = Finished(response.items[i], textBuffer)
      BY <1>3, <1>5, <2>2
    <3> QED
      BY <1>0, <1>1, <2>2, <3>1 DEF ItemsInv, ItemIs, Finished
  <2>3. CASE i # thinkingOutputIdx + 1 /\ i # textOutputIdx + 1
    <3>1. v2.items[i] = response.items[i]
      BY <1>3, <1>5, <2>3
    <3> QED
      BY <1>0, <2>3, <3>1 DEF ItemsInv
  <2> QED
    BY <2>1, <2>2, <2>3
<1>10. StatusInv'
  BY <1>1, <1>6 DEF StatusInv
<1> QED
  BY <1>7, <1>8a, <1>8, <1>9, <1>10 DEF ResponseInv

\* A turn without calls, and a step of nobody.
LEMMA ViewUnchanged ==
  ASSUME ResponseInv, UNCHANGED <<Responses!emitter, response>>,
         phase' = phase \/ (phase = "idle" /\ phase' = "aborted")
  PROVE  ResponseInv'
<1>1. UNCHANGED <<thinkingOutputIdx, thinkingBuffer, textOutputIdx, textBuffer, nextOutputIdx, response>>
  BY DEF Responses!emitter
<1>2. phase' = "closed" <=> phase = "closed"
  OBVIOUS
<1>3. Responses!TypeOK'
  BY <1>1 DEF ResponseInv, Responses!TypeOK, Responses!Callbacks!PhaseTypeOK, Responses!Callbacks!Phases
<1>4. ItemIndexInv'
  BY <1>1 DEF ResponseInv, ItemIndexInv
<1>5. ItemsInv'
  BY <1>1, <1>2 DEF ResponseInv, ItemsInv, ItemIs
<1>6. StatusInv'
  BY <1>1, <1>2 DEF ResponseInv, StatusInv
<1> QED
  BY <1>3, <1>4, <1>5, <1>6 DEF ResponseInv

LEMMA ResponsesInit == EmittersInit => ResponseInv
<1> SUFFICES ASSUME Responses!Init
             PROVE  ResponseInv
  BY DEF EmittersInit
<1>1. Responses!TypeOK
  <2>1. response \in Responses!Response
    BY DEF Responses!Init, Responses!Response
  <2> QED
    BY <2>1 DEF Responses!Init, Responses!TypeOK, Responses!Callbacks!PhaseInit,
                Responses!Callbacks!PhaseTypeOK, Responses!Callbacks!Phases
<1>2. ItemIndexInv
  BY DEF Responses!Init, ItemIndexInv
<1>3. ItemsInv
  BY DEF Responses!Init, ItemsInv
<1>4. StatusInv
  BY DEF Responses!Init, StatusInv, Responses!Callbacks!PhaseInit
<1> QED
  BY <1>1, <1>2, <1>3, <1>4 DEF ResponseInv

LEMMA ResponsesNext ==
  ASSUME ResponseInv, [EmittersNext]_allVars
  PROVE  ResponseInv'
<1>1. ASSUME NEW d \in Chunk, Thinking(d)
      PROVE  ResponseInv'
  BY <1>1, ResponsesThinkingPreserves DEF Thinking
<1>2. ASSUME NEW d \in Chunk, Text(d)
      PROVE  ResponseInv'
  BY <1>2, ResponsesTextPreserves DEF Text
<1>3. ASSUME NEW n \in 1..MaxToolCalls, ToolCalls(n)
      PROVE  ResponseInv'
  BY <1>3, ResponsesToolCallsPreserves DEF ToolCalls
<1>4. Error => ResponseInv'
  BY ResponsesErrorPreserves DEF Error
<1>5. Done => ResponseInv'
  BY ResponsesDonePreserves DEF Done
<1>6. Nothing => ResponseInv'
  BY ViewUnchanged DEF Nothing, Responses!NoCalls, Responses!Callbacks!Abort
<1>7. UNCHANGED allVars => ResponseInv'
  BY ViewUnchanged DEF allVars, vars, responsesEmitter, Responses!emitter
<1> QED
  BY <1>1, <1>2, <1>3, <1>4, <1>5, <1>6, <1>7 DEF EmittersNext

LEMMA ResponsesAlways == EmittersSpec => []ResponseInv
BY ResponsesInit, ResponsesNext, PTL DEF EmittersSpec

-----------------------------------------------------------------------------
(* The chat emitter                                                         *)

\* The chat client's message keeps its type.
LEMMA ChatInit == EmittersInit => Chat!TypeOK
BY DEF EmittersInit, Chat!Init, Chat!TypeOK, Chat!Message,
       Chat!Callbacks!PhaseInit, Chat!Callbacks!PhaseTypeOK, Chat!Callbacks!Phases

LEMMA ChatNext ==
  ASSUME Chat!TypeOK, [EmittersNext]_allVars
  PROVE  Chat!TypeOK'
<1> USE DEF Chat!TypeOK, Chat!Callbacks!PhaseTypeOK, Chat!Callbacks!Phases
<1>1. ASSUME NEW d \in Chunk, Chat!OnThinking(d)
      PROVE  Chat!TypeOK'
  <2>1. Append(chunks.reasoning_content, d) \in Seq(Chunk)
    BY <1>1 DEF Chat!Message
  <2> QED
    BY <1>1, <2>1 DEF Chat!OnThinking, Chat!Message, Chat!Callbacks!CallThinking
<1>2. ASSUME NEW d \in Chunk, Chat!OnText(d)
      PROVE  Chat!TypeOK'
  <2>1. Append(chunks.content, d) \in Seq(Chunk)
    BY <1>2 DEF Chat!Message
  <2> QED
    BY <1>2, <2>1 DEF Chat!OnText, Chat!Message, Chat!Callbacks!CallText
<1>3. ASSUME NEW n \in 1..MaxToolCalls, Chat!OnToolCalls(n)
      PROVE  Chat!TypeOK'
  <2>1. chunks.tool_calls + n \in Nat
    BY BoundsAssumption DEF Chat!Message
  <2> QED
    BY <1>3, <2>1 DEF Chat!OnToolCalls, Chat!Message, Chat!Callbacks!CallToolCalls
<1>4. Chat!OnError => Chat!TypeOK'
  BY DEF Chat!OnError, Chat!Message, Chat!Callbacks!CallError
<1>5. Chat!OnDone => Chat!TypeOK'
  BY DEF Chat!OnDone, Chat!Message, Chat!Callbacks!CallDone
<1>6. Chat!NoCalls => Chat!TypeOK'
  BY DEF Chat!NoCalls, Chat!Callbacks!Abort
<1>7. UNCHANGED allVars => Chat!TypeOK'
  BY DEF allVars, vars
<1> QED
  BY <1>1, <1>2, <1>3, <1>4, <1>5, <1>6, <1>7
  DEF EmittersNext, Thinking, Text, ToolCalls, Error, Done, Nothing

-----------------------------------------------------------------------------
(* The three side by side                                                   *)

LEMMA AnthropicAlone == EmittersSpec => Spec
<1>1. EmittersInit => Init
  BY DEF EmittersInit
<1>2. [EmittersNext]_allVars => [Next]_vars
  BY DEF EmittersNext, Next, Thinking, Text, ToolCalls, Error, Done, Nothing, allVars
<1> QED
  BY <1>1, <1>2, PTL DEF EmittersSpec, Spec

\* Given the same callbacks in any order, the three emitters keep their types, and every
\* event of the Responses emitter carries the index of an item that the client has open.
THEOREM ItemIndicesNeverStale == EmittersSpec => []EventsAddressOpenItems
<1>1. TypeOK /\ Chat!TypeOK /\ ResponseInv => EventsAddressOpenItems
  BY ResponseInvImplies DEF EventsAddressOpenItems, EmittersTypeOK, ResponseInv
<1>2. EmittersSpec => []Chat!TypeOK
  BY ChatInit, ChatNext, PTL DEF EmittersSpec
<1> QED
  BY <1>1, <1>2, ResponsesAlways, AnthropicAlone, TypeCorrect, PTL

\* At response.completed every item is done, and its final text is what its deltas add up
\* to, in turns of any length.
THEOREM FinalTextsRight == EmittersSpec => []FinalTextIsDeltas
<1>1. ResponseInv => FinalTextIsDeltas
  BY ResponseInvImplies DEF FinalTextIsDeltas
<1> QED
  BY <1>1, ResponsesAlways, PTL

-----------------------------------------------------------------------------
(* What the clients of the three are told: the invariant                    *)

\* The emitters have kept what the chat client was told, and the clients are told of errors
\* alike.
SaidInv ==
  /\ sentText = chunks.content /\ textBuffer = chunks.content
  /\ sentThinking = chunks.reasoning_content /\ thinkingBuffer = chunks.reasoning_content
  /\ view.error = chunks.error /\ response.failed = chunks.error

\* The Responses emitter starts an item for something; its items are those two and the
\* calls, which come last, as the Anthropic client's do.
CountInv ==
  /\ thinkingOutputIdx # -1 => thinkingBuffer # <<>>
  /\ textOutputIdx # -1 => textBuffer # <<>>
  /\ \A i \in 1..nextOutputIdx : i = thinkingOutputIdx + 1 \/ i = textOutputIdx + 1
  /\ Len(response.items) = nextOutputIdx + chunks.tool_calls
  /\ chunks.tool_calls <= nextIndex
  /\ \A i \in DOMAIN view.blocks :
       view.blocks[i].type = "tool_use" <=> i > nextIndex - chunks.tool_calls

\* How the turn ends.
StoppedInv ==
  /\ phase \in {"idle", "open"} => chunks.tool_calls = 0 /\ stopReason = "end_turn"
  /\ chunks.finish_reason = "tool_calls" <=> stopReason = "tool_use"
  /\ phase = "closed" => chunks.done

\* All of the thinking is in block i of the Anthropic client, its one block of thinking.
ThinkingHeld(i) ==
  /\ sentThinking # <<>> /\ view.blocks[i].content = sentThinking
  /\ \A j \in DOMAIN view.blocks : view.blocks[j].type = "thinking" <=> j = i

\* Until thinking comes after text, the Anthropic client has it all.
ThinkingInv ==
  /\ thinkingIndex # -2 => view.stray = {}
  /\ thinkingIndex = -1 =>
       /\ sentThinking = <<>>
       /\ \A j \in DOMAIN view.blocks : view.blocks[j].type # "thinking"
  /\ thinkingIndex >= 0 => ThinkingHeld(Block(thinkingIndex))
  /\ thinkingIndex = -2 /\ view.stray = {} =>
       \E i \in DOMAIN view.blocks : ThinkingHeld(i)

AgreeInv == SaidInv /\ CountInv /\ StoppedInv /\ ThinkingInv

LEMMA OneTextBlock ==
  ASSUME IInv, SaidInv
  PROVE  Whole(InBlocks("text"), chunks.content)
<1> DEFINE f == InBlocks("text")
<1>1. DOMAIN f = BlocksOf("text") /\ \A i \in BlocksOf("text") : f[i] = view.blocks[i].content
  BY DEF InBlocks
<1> SUFFICES Whole(f, chunks.content)
  OBVIOUS
<1> HIDE DEF f
<1>2. CASE sentText = <<>>
  <2>1. BlocksOf("text") = {}
    BY <1>2 DEF IInv, TextInBlock, BlocksOf
  <2> QED
    BY <1>1, <1>2, <2>1 DEF Whole, SaidInv
<1>3. CASE sentText # <<>>
  <2>1. PICK i \in DOMAIN view.blocks :
          /\ view.blocks[i].content = sentText
          /\ \A j \in DOMAIN view.blocks : view.blocks[j].type = "text" <=> j = i
    BY <1>3 DEF IInv, TextInBlock
  <2>2. BlocksOf("text") = {i}
    BY <2>1 DEF BlocksOf
  <2> QED
    BY <1>1, <1>3, <2>1, <2>2 DEF Whole, SaidInv
<1> QED
  BY <1>2, <1>3

LEMMA OneThinkingBlock ==
  ASSUME IInv, SaidInv, ThinkingInv, view.stray = {}
  PROVE  Whole(InBlocks("thinking"), chunks.reasoning_content)
<1> DEFINE f == InBlocks("thinking")
<1>0. thinkingIndex \in Int /\ thinkingIndex >= -2 /\ nextIndex = Len(view.blocks)
      /\ thinkingIndex <= nextIndex - 1 /\ view.blocks \in Seq(ContentBlock)
  BY DEF IInv, IndexInv, TypeOK, Message
<1>1. /\ DOMAIN f = BlocksOf("thinking")
      /\ \A i \in BlocksOf("thinking") : f[i] = view.blocks[i].content
  BY DEF InBlocks
<1> SUFFICES Whole(f, chunks.reasoning_content)
  OBVIOUS
<1> HIDE DEF f
<1>2. CASE thinkingIndex = -1
  <2>1. BlocksOf("thinking") = {} /\ sentThinking = <<>>
    BY <1>2 DEF ThinkingInv, BlocksOf
  <2> QED
    BY <1>1, <2>1 DEF Whole, SaidInv
<1>3. CASE thinkingIndex # -1
  <2>1. PICK i \in DOMAIN view.blocks : ThinkingHeld(i)
    <3>1. CASE thinkingIndex = -2
      BY <3>1 DEF ThinkingInv
    <3>2. CASE thinkingIndex # -2
      <4>1. thinkingIndex >= 0
        BY <1>0, <1>3, <3>2
      <4>2. Block(thinkingIndex) \in DOMAIN view.blocks
        BY <1>0, <4>1 DEF Block
      <4> QED
        BY <4>1, <4>2 DEF ThinkingInv
    <3> QED
      BY <3>1, <3>2
  <2>2. BlocksOf("thinking") = {i}
    BY <2>1 DEF BlocksOf, ThinkingHeld
  <2> QED
    BY <1>1, <2>1, <2>2 DEF Whole, SaidInv, ThinkingHeld
<1> QED
  BY <1>2, <1>3

\* The Responses client's one item of a type, at an index the emitter remembers.
LEMMA OneItem ==
  ASSUME ResponseInv, CountInv,
         NEW idx \in Int, NEW t, NEW buffer,
         \/ t = "reasoning" /\ idx = thinkingOutputIdx /\ buffer = thinkingBuffer
         \/ t = "message" /\ idx = textOutputIdx /\ buffer = textBuffer
  PROVE  Whole(InItems(t), buffer)
<1> DEFINE f == InItems(t)
<1>0. /\ thinkingOutputIdx \in Int /\ textOutputIdx \in Int /\ nextOutputIdx \in Nat
      /\ response.items \in Seq(Responses!OutputItem)
      /\ ItemIndexInv /\ ItemsInv
  BY DEF ResponseInv, Responses!TypeOK, Responses!Response
<1>1. DOMAIN f = ItemsOf(t) /\ \A i \in ItemsOf(t) : f[i] = response.items[i].text
  BY DEF InItems
<1> SUFFICES Whole(f, buffer)
  OBVIOUS
<1> HIDE DEF f
<1>2. \A i \in DOMAIN response.items :
        response.items[i].type = t <=> i = idx + 1
  BY <1>0 DEF ItemsInv, ItemIndexInv, ItemIs, IsCall
<1>3. CASE idx = -1
  <2>1. ItemsOf(t) = {}
    BY <1>0, <1>2, <1>3 DEF ItemsOf
  <2>2. buffer = <<>>
    BY <1>0, <1>3 DEF ItemIndexInv
  <2> QED
    BY <1>1, <2>1, <2>2 DEF Whole
<1>4. CASE idx # -1
  <2>1. idx + 1 \in DOMAIN response.items
    BY <1>0, <1>4 DEF ItemIndexInv
  <2>2. ItemsOf(t) = {idx + 1}
    BY <1>2, <2>1 DEF ItemsOf
  <2>3. buffer # <<>>
    BY <1>4 DEF CountInv
  <2>4. response.items[idx + 1].text = buffer
    BY <1>0, <1>2, <2>1 DEF ItemsInv, ItemIs, ItemIndexInv, IsCall
  <2> QED
    BY <1>1, <2>1, <2>2, <2>3, <2>4 DEF Whole
<1> QED
  BY <1>3, <1>4

LEMMA CallsCounted ==
  ASSUME IInv, ResponseInv, CountInv, Chat!TypeOK
  PROVE  /\ Cardinality(BlocksOf("tool_use")) = chunks.tool_calls
         /\ Cardinality(ItemsOf("function_call")) = chunks.tool_calls
<1> DEFINE n == chunks.tool_calls
<1>0. /\ n \in Nat /\ nextIndex \in Nat /\ nextOutputIdx \in Nat
      /\ thinkingOutputIdx \in Int /\ textOutputIdx \in Int
      /\ n <= nextIndex
      /\ DOMAIN view.blocks = 1..nextIndex
      /\ DOMAIN response.items = 1..(nextOutputIdx + n)
      /\ ItemIndexInv /\ ItemsInv
  BY DEF IInv, IndexInv, TypeOK, Message, ResponseInv, Responses!TypeOK, Responses!Response,
         CountInv, Chat!TypeOK, Chat!Message
<1>1. BlocksOf("tool_use") = (nextIndex - n + 1)..nextIndex
  <2>1. \A i \in DOMAIN view.blocks :
          view.blocks[i].type = "tool_use" <=> i > nextIndex - n
    BY DEF CountInv
  <2> HIDE DEF n
  <2> QED
    BY <1>0, <2>1 DEF BlocksOf
<1>2. ItemsOf("function_call") = (nextOutputIdx + 1)..(nextOutputIdx + n)
  <2>1. \A i \in DOMAIN response.items :
          response.items[i].type = "function_call" <=> i > nextOutputIdx
    <3> SUFFICES ASSUME NEW i \in DOMAIN response.items
                 PROVE  response.items[i].type = "function_call" <=> i > nextOutputIdx
      OBVIOUS
    <3>1. i \in 1..nextOutputIdx => i = thinkingOutputIdx + 1 \/ i = textOutputIdx + 1
      BY DEF CountInv
    <3>2. i > nextOutputIdx => i # thinkingOutputIdx + 1 /\ i # textOutputIdx + 1
      BY <1>0 DEF ItemIndexInv
    <3>3. response.items[i].type = "function_call" <=>
            (i # thinkingOutputIdx + 1 /\ i # textOutputIdx + 1)
      BY <1>0 DEF ItemsInv, ItemIs, IsCall
    <3> QED
      BY <1>0, <3>1, <3>2, <3>3
  <2> HIDE DEF n
  <2> QED
    BY <1>0, <2>1 DEF ItemsOf
<1>3. Cardinality((nextIndex - n + 1)..nextIndex) = n
  <2> HIDE DEF n
  <2> DEFINE a == nextIndex - n + 1
  <2>1. a \in Int /\ nextIndex \in Int
    BY <1>0
  <2>2. Cardinality(a..nextIndex) = IF a <= nextIndex THEN nextIndex - a + 1 ELSE 0
    <3> HIDE DEF a
    <3> QED
      BY <2>1, FS_Interval
  <2> QED
    BY <1>0, <2>2
<1>4. Cardinality((nextOutputIdx + 1)..(nextOutputIdx + n)) = n
  <2> HIDE DEF n
  <2>1. nextOutputIdx + 1 \in Int /\ nextOutputIdx + n \in Int
    BY <1>0
  <2> QED
    BY <1>0, <2>1, FS_Interval
<1> QED
  BY <1>1, <1>2, <1>3, <1>4

LEMMA AgreeInvImplies ==
  ASSUME IInv, ResponseInv, Chat!TypeOK, AgreeInv
  PROVE  ClientsAgree
<1>1. /\ Whole(InBlocks("text"), chunks.content)
      /\ Whole(InItems("message"), chunks.content)
      /\ Whole(InItems("reasoning"), chunks.reasoning_content)
      /\ view.stray = {} => Whole(InBlocks("thinking"), chunks.reasoning_content)
  <2>1. thinkingOutputIdx \in Int /\ textOutputIdx \in Int
    BY DEF ResponseInv, Responses!TypeOK
  <2>2. Whole(InItems("message"), textBuffer) /\ Whole(InItems("reasoning"), thinkingBuffer)
    BY <2>1, OneItem DEF AgreeInv
  <2> QED
    BY <2>2, OneTextBlock, OneThinkingBlock DEF AgreeInv, SaidInv
<1>2. /\ Cardinality(BlocksOf("tool_use")) = chunks.tool_calls
      /\ Cardinality(ItemsOf("function_call")) = chunks.tool_calls
  BY CallsCounted DEF AgreeInv
<1>3. view.error = chunks.error /\ response.failed = chunks.error
  BY DEF AgreeInv, SaidInv
<1>4. phase = "closed" =>
        /\ chunks.done /\ response.status = "completed"
        /\ view.stop_reason = "tool_use" <=> chunks.finish_reason = "tool_calls"
  BY DEF AgreeInv, StoppedInv, IInv, StopReasonInv, ResponseInv, StatusInv
<1> QED
  BY <1>1, <1>2, <1>3, <1>4 DEF ClientsAgree

-----------------------------------------------------------------------------
(* One lemma per callback                                                   *)

\* No event but an error changes what a client knows of errors.
LEMMA ErrorKept ==
  ASSUME NEW v, "error" \in DOMAIN v, NEW i, NEW t, NEW d, NEW n
  PROVE  /\ "error" \in DOMAIN BlockStart(v, i, t) /\ BlockStart(v, i, t).error = v.error
         /\ "error" \in DOMAIN BlockDelta(v, i, t, d) /\ BlockDelta(v, i, t, d).error = v.error
         /\ "error" \in DOMAIN BlockStop(v, i) /\ BlockStop(v, i).error = v.error
         /\ ToolUseBlocks(v, i, n).error = v.error
BY DEF BlockStart, BlockDelta, BlockStop, ToolUseBlocks

LEMMA FailedKept ==
  ASSUME NEW v, "failed" \in DOMAIN v, NEW i, NEW t, NEW d, NEW n
  PROVE  /\ "failed" \in DOMAIN Responses!ItemAdded(v, i, t)
         /\ Responses!ItemAdded(v, i, t).failed = v.failed
         /\ "failed" \in DOMAIN Responses!TextDelta(v, i, d)
         /\ Responses!TextDelta(v, i, d).failed = v.failed
         /\ "failed" \in DOMAIN Responses!ItemDone(v, i, t)
         /\ Responses!ItemDone(v, i, t).failed = v.failed
         /\ Responses!FunctionCalls(v, i, n).failed = v.failed
BY DEF Responses!ItemAdded, Responses!TextDelta, Responses!ItemDone, Responses!FunctionCalls

LEMMA StopsKeepError ==
  ASSUME NEW v, "error" \in DOMAIN v
  PROVE  /\ "error" \in DOMAIN StopThinking(v) /\ StopThinking(v).error = v.error
         /\ "error" \in DOMAIN StopText(v) /\ StopText(v).error = v.error
BY ErrorKept DEF StopThinking, StopText

LEMMA DeltasKeepErrors ==
  ASSUME view \in Message, response \in Responses!Response,
         NEW d \in Chunk, Thinking(d) \/ Text(d)
  PROVE  view'.error = view.error /\ response'.failed = response.failed
<1>1. "error" \in DOMAIN view /\ "failed" \in DOMAIN response
  BY DEF Message, Responses!Response
<1>2. CASE Thinking(d)
  <2>1. PICK v, i : /\ v = view \/ v = BlockStart(view, i, "thinking")
                    /\ view' = BlockDelta(v, i, "thinking", d)
    BY <1>2 DEF Thinking, OnThinking
  <2>2. PICK r, j : /\ r = response \/ r = Responses!ItemAdded(response, j, "reasoning")
                    /\ response' = Responses!TextDelta(r, j, d)
    BY <1>2 DEF Thinking, Responses!OnThinking
  <2> QED
    BY <1>1, <2>1, <2>2, ErrorKept, FailedKept
<1>3. CASE Text(d)
  <2> DEFINE w == StopThinking(view)
  <2>1. PICK v, i : /\ v = w \/ v = BlockStart(w, i, "text")
                    /\ view' = BlockDelta(v, i, "text", d)
    BY <1>3 DEF Text, OnText
  <2>2. PICK r, j : /\ r = response \/ r = Responses!ItemAdded(response, j, "message")
                    /\ response' = Responses!TextDelta(r, j, d)
    BY <1>3 DEF Text, Responses!OnText
  <2>3. "error" \in DOMAIN w /\ w.error = view.error
    BY <1>1, StopsKeepError
  <2> HIDE DEF w
  <2> QED
    BY <1>1, <2>1, <2>2, <2>3, ErrorKept, FailedKept
<1> QED
  BY <1>2, <1>3

LEMMA CallsKeepErrors ==
  ASSUME view \in Message, response \in Responses!Response,
         NEW n \in 1..MaxToolCalls, ToolCalls(n)
  PROVE  view'.error = view.error /\ response'.failed = response.failed
<1>1. "error" \in DOMAIN view /\ "failed" \in DOMAIN response
  BY DEF Message, Responses!Response
<1>2. view'.error = view.error
  BY <1>1, ErrorKept, StopsKeepError DEF ToolCalls, OnToolCalls
<1>3. response'.failed = response.failed
  BY <1>1, FailedKept DEF ToolCalls, Responses!OnToolCalls
<1> QED
  BY <1>2, <1>3

LEMMA DoneKeepsErrors ==
  ASSUME view \in Message, response \in Responses!Response, Done
  PROVE  view'.error = view.error /\ response'.failed = response.failed
<1> DEFINE v == StopText(StopThinking(view))
           r1 == IF thinkingOutputIdx # -1
                 THEN Responses!ItemDone(response, thinkingOutputIdx, thinkingBuffer) ELSE response
           r2 == IF textOutputIdx # -1 THEN Responses!ItemDone(r1, textOutputIdx, textBuffer) ELSE r1
<1>1. "error" \in DOMAIN view /\ "failed" \in DOMAIN response
  BY DEF Message, Responses!Response
<1>2. "error" \in DOMAIN v /\ v.error = view.error
  BY <1>1, StopsKeepError
<1>3. "failed" \in DOMAIN r2 /\ r2.failed = response.failed
  BY <1>1, FailedKept
<1>4. view' = [v EXCEPT !.stop_reason = stopReason]
  BY DEF Done, OnDone
<1>5. response' = [r2 EXCEPT !.status = "completed", !.output_text = textBuffer]
  BY DEF Done, Responses!OnDone
<1> HIDE DEF v, r1, r2
<1> QED
  BY <1>2, <1>3, <1>4, <1>5

\* While the turn is open no call was reported, and the Responses emitter counts every item.
LEMMA NoCallWhileOpen ==
  ASSUME IInv', ResponseInv', phase' = "open", stopReason' = "end_turn",
         chunks'.tool_calls = 0
  PROVE  /\ Len(response'.items) = nextOutputIdx' + chunks'.tool_calls
         /\ chunks'.tool_calls <= nextIndex'
         /\ \A i \in DOMAIN view'.blocks :
              view'.blocks[i].type = "tool_use" <=> i > nextIndex' - chunks'.tool_calls
<1>1. /\ nextOutputIdx' \in Nat /\ nextIndex' \in Nat
      /\ nextOutputIdx' = Len(response'.items)
      /\ DOMAIN view'.blocks = 1..nextIndex'
  BY DEF ResponseInv, ItemIndexInv, Responses!TypeOK, IInv, IndexInv, TypeOK, Message
<1>2. \A i \in DOMAIN view'.blocks : view'.blocks[i].type # "tool_use"
  BY DEF IInv, StopReasonInv
<1>3. \A i \in DOMAIN view'.blocks : ~(i > nextIndex' - chunks'.tool_calls)
  BY <1>1
<1> QED
  BY <1>1, <1>2, <1>3

LEMMA AppendedNotEmpty ==
  ASSUME NEW S, NEW s \in Seq(S), NEW d \in S
  PROVE  Append(s, d) # <<>>
<1>1. Len(Append(s, d)) = Len(s) + 1 /\ Len(s) \in Nat
  OBVIOUS
<1>2. Len(<<>>) = 0
  OBVIOUS
<1> QED
  BY <1>1, <1>2

\* What the invariants below need of a state's types.
Typed ==
  /\ view \in Message /\ response \in Responses!Response
  /\ chunks \in Chat!Message
  /\ thinkingIndex \in Int /\ textIndex \in Int /\ nextIndex \in Nat
  /\ thinkingOutputIdx \in Int /\ textOutputIdx \in Int /\ nextOutputIdx \in Nat
  /\ sentText \in Seq(Chunk) /\ sentThinking \in Seq(Chunk)
  /\ thinkingBuffer \in Seq(Chunk) /\ textBuffer \in Seq(Chunk)
  /\ nextIndex = Len(view.blocks) /\ DOMAIN view.blocks = 1..nextIndex
  /\ thinkingIndex >= -2 /\ thinkingIndex < nextIndex

LEMMA TypedHolds ==
  ASSUME IInv, ResponseInv, Chat!TypeOK
  PROVE  Typed
BY DEF Typed, IInv, IndexInv, TypeOK, Message, ResponseInv, Responses!TypeOK, Chat!TypeOK

LEMMA StrayThinking ==
  ASSUME view \in Message, thinkingIndex = -2, NEW d, OnThinking(d)
  PROVE  "thinking" \in view'.stray
<1>1. view' = BlockDelta(view, -2, "thinking", d)
  BY DEF OnThinking
<1>2. ~IsOpen(view, -2)
  BY DEF IsOpen, Block, Message
<1>3. view' = [view EXCEPT !.stray = view.stray \union {"thinking"}]
  BY <1>1, <1>2 DEF BlockDelta
<1> QED
  BY <1>3 DEF Message

\* The block a text delta is shown in is the text block, and was if it was there.
LEMMA TextBlockKept ==
  ASSUME IInv, IInv', NEW d, OnText(d)
  PROVE  /\ view'.blocks[Block(textIndex')].type = "text"
         /\ Block(textIndex') \in DOMAIN view.blocks =>
              view.blocks[Block(textIndex')].type = "text"
<1>1. /\ textIndex' = IF textIndex = -1 THEN nextIndex ELSE textIndex
      /\ textIndex \in Int /\ textIndex >= -1 /\ nextIndex \in Nat
      /\ DOMAIN view.blocks = 1..nextIndex
  BY DEF OnText, IInv, TypeOK, IndexInv, Message
<1>2. textIndex' >= 0
  BY ONLY <1>1
<1>3. view'.blocks[Block(textIndex')].type = "text"
  BY <1>2 DEF IInv, IndexInv
<1>4. CASE textIndex = -1
  BY <1>1, <1>3, <1>4 DEF Block
<1>5. CASE textIndex # -1
  <2>1. textIndex >= 0 /\ textIndex' = textIndex
    BY <1>1, <1>5
  <2>2. view.blocks[Block(textIndex)].type = "text"
    BY <2>1 DEF IInv, IndexInv
  <2> QED
    BY <1>3, <2>1, <2>2 DEF Block
<1> QED
  BY <1>4, <1>5

\* Stopping the block of thinking, in a step that shows no thinking.
LEMMA ThinkingStops ==
  ASSUME Typed, AgreeInv, thinkingIndex' = ThinkingStopped, sentThinking' = sentThinking,
         view'.stray = view.stray,
         \A j \in DOMAIN view.blocks : j \in DOMAIN view'.blocks /\ view'.blocks[j].type = view.blocks[j].type,
         \A j \in DOMAIN view'.blocks : j \notin DOMAIN view.blocks => view'.blocks[j].type # "thinking",
         \A j \in DOMAIN view.blocks : ThinkingHeld(j) => ThinkingHeld(j)'
  PROVE  ThinkingInv'
<1>0. thinkingIndex \in Int /\ thinkingIndex >= -2 /\ ThinkingInv
  BY DEF Typed, AgreeInv
<1>1. CASE thinkingIndex = -1
  <2>1. thinkingIndex' = -1
    BY <1>1 DEF ThinkingStopped
  <2>2. sentThinking' = <<>> /\ view'.stray = {}
        /\ \A j \in DOMAIN view'.blocks : view'.blocks[j].type # "thinking"
    BY <1>0, <1>1 DEF ThinkingInv
  <2> QED
    BY <2>1, <2>2 DEF ThinkingInv
<1>2. CASE thinkingIndex # -1
  <2>1. thinkingIndex' = -2
    BY <1>0, <1>2 DEF ThinkingStopped
  <2>2. ASSUME view'.stray = {}
        PROVE  \E i \in DOMAIN view.blocks : ThinkingHeld(i)
    <3>1. CASE thinkingIndex = -2
      BY <1>0, <2>2, <3>1 DEF ThinkingInv
    <3>2. CASE thinkingIndex >= 0
      <4>1. Block(thinkingIndex) \in DOMAIN view.blocks
        BY <3>2 DEF Typed, Block
      <4> QED
        BY <1>0, <3>2, <4>1 DEF ThinkingInv
    <3> QED
      BY <1>0, <1>2, <3>1, <3>2
  <2>3. view'.stray = {} => \E i \in DOMAIN view'.blocks : ThinkingHeld(i)'
    BY <2>2
  <2> QED
    BY <2>1, <2>3 DEF ThinkingInv
<1> QED
  BY <1>1, <1>2

LEMMA AgreeInit == EmittersInit => AgreeInv
<1> SUFFICES ASSUME EmittersInit
             PROVE  AgreeInv
  OBVIOUS
<1> USE DEF EmittersInit, Init, Chat!Init, Responses!Init
<1>1. SaidInv
  BY DEF SaidInv
<1>2. CountInv
  BY DEF CountInv
<1>3. StoppedInv
  BY DEF StoppedInv, Callbacks!PhaseInit
<1>4. ThinkingInv
  BY DEF ThinkingInv
<1> QED
  BY <1>1, <1>2, <1>3, <1>4 DEF AgreeInv

LEMMA AgreeThinking ==
  ASSUME Typed, AgreeInv, IInv, IInv', ResponseInv', NEW d \in Chunk, Thinking(d)
  PROVE  AgreeInv'
<1>1. /\ phase \in {"idle", "open"} /\ phase' = "open"
      /\ chunks' = [chunks EXCEPT !.reasoning_content = Append(@, d)]
      /\ sentThinking' = Append(sentThinking, d) /\ sentText' = sentText
      /\ stopReason' = stopReason
      /\ thinkingIndex' = IF thinkingIndex = -1 THEN nextIndex ELSE thinkingIndex
      /\ thinkingOutputIdx' = IF thinkingOutputIdx = -1 THEN nextOutputIdx ELSE thinkingOutputIdx
      /\ nextOutputIdx' = IF thinkingOutputIdx = -1 THEN nextOutputIdx + 1 ELSE nextOutputIdx
      /\ thinkingBuffer' = Append(thinkingBuffer, d)
      /\ UNCHANGED <<textOutputIdx, textBuffer>>
  BY DEF Thinking, OnThinking, Chat!OnThinking, Responses!OnThinking, Callbacks!CallThinking
<1>2. /\ chunks'.reasoning_content = Append(chunks.reasoning_content, d)
      /\ chunks'.content = chunks.content /\ chunks'.error = chunks.error
      /\ chunks'.tool_calls = chunks.tool_calls
      /\ chunks'.finish_reason = chunks.finish_reason
  BY <1>1 DEF Typed, Chat!Message
<1>3. SaidInv'
  <2>1. view'.error = view.error /\ response'.failed = response.failed
    BY DeltasKeepErrors DEF Typed
  <2> QED
    BY <1>1, <1>2, <2>1 DEF AgreeInv, SaidInv
<1>4. StoppedInv'
  BY <1>1, <1>2 DEF AgreeInv, StoppedInv
<1>5. CountInv'
  <2>1. thinkingBuffer' # <<>>
    BY <1>1, AppendedNotEmpty DEF Typed
  <2>2. textOutputIdx' # -1 => textBuffer' # <<>>
    BY <1>1 DEF AgreeInv, CountInv
  <2>3. \A i \in 1..nextOutputIdx' : i = thinkingOutputIdx' + 1 \/ i = textOutputIdx' + 1
    BY <1>1 DEF AgreeInv, CountInv, Typed
  <2>4. chunks'.tool_calls = 0 /\ stopReason' = "end_turn"
    BY <1>1, <1>2 DEF AgreeInv, StoppedInv
  <2> QED
    BY <1>1, <2>1, <2>2, <2>3, <2>4, NoCallWhileOpen DEF CountInv
<1>6. ThinkingInv'
  <2>1. CASE thinkingIndex = -2
    <3>1. thinkingIndex' = -2
      BY <1>1, <2>1
    <3>2. "thinking" \in view'.stray
      BY <2>1, StrayThinking DEF Typed, Thinking
    <3> QED
      BY <3>1, <3>2 DEF ThinkingInv
  <2>2. CASE thinkingIndex # -2
    <3>0. PICK k : k = Block(thinkingIndex')
      OBVIOUS
    <3>1. /\ ShownIn(k)
          /\ view'.blocks[k].content =
               IF thinkingIndex = -1 THEN <<d>>
               ELSE Append(view.blocks[Block(thinkingIndex)].content, d)
      BY <2>2, <3>0, OnThinkingPreserves DEF Thinking
    <3>2. thinkingIndex' >= 0 /\ view'.blocks[k].type = "thinking"
      <4>0. /\ thinkingIndex \in Int /\ thinkingIndex >= -2 /\ nextIndex \in Nat
            /\ thinkingIndex' = IF thinkingIndex = -1 THEN nextIndex ELSE thinkingIndex
        BY <1>1 DEF Typed
      <4>1. thinkingIndex' >= 0
        BY ONLY <2>2, <4>0
      <4> QED
        BY <3>0, <4>1 DEF IInv, IndexInv
    <3>3. sentThinking' # <<>> /\ view'.blocks[k].content = sentThinking'
      <4>1. thinkingIndex = -1 => Append(sentThinking, d) = <<d>>
        BY DEF AgreeInv, ThinkingInv
      <4>2. thinkingIndex # -1 => view.blocks[Block(thinkingIndex)].content = sentThinking
        BY <2>2 DEF AgreeInv, ThinkingInv, ThinkingHeld, Typed
      <4>3. sentThinking' # <<>>
        BY <1>1, AppendedNotEmpty DEF Typed
      <4> QED
        BY <1>1, <3>1, <4>1, <4>2, <4>3
    <3>4. ASSUME NEW j \in DOMAIN view'.blocks, j # k
          PROVE  view'.blocks[j].type # "thinking"
      <4>1. j \in DOMAIN view.blocks /\ view'.blocks[j].type = view.blocks[j].type
        BY <3>1, <3>4 DEF ShownIn
      <4>2. CASE thinkingIndex = -1
        BY <4>1, <4>2 DEF AgreeInv, ThinkingInv
      <4>3. CASE thinkingIndex # -1
        <5>1. thinkingIndex >= 0 /\ k = Block(thinkingIndex)
          BY <1>1, <2>2, <3>0, <4>3, SMTT(30) DEF Typed
        <5> QED
          BY <3>4, <4>1, <5>1 DEF AgreeInv, ThinkingInv, ThinkingHeld
      <4> QED
        BY <4>2, <4>3
    <3>5. view'.stray = {}
      BY <2>2, <3>1 DEF ShownIn, AgreeInv, ThinkingInv
    <3>6. thinkingIndex' # -2 /\ thinkingIndex' # -1
      BY <1>1, <2>2 DEF Typed
    <3>7. ThinkingHeld(k)'
      BY <3>1, <3>2, <3>3, <3>4 DEF ThinkingHeld, ShownIn
    <3>8. ThinkingHeld(Block(thinkingIndex))'
      BY <3>0, <3>7 DEF ThinkingHeld
    <3> QED
      BY <3>5, <3>6, <3>8 DEF ThinkingInv
  <2> QED
    BY <2>1, <2>2
<1> QED
  BY <1>3, <1>4, <1>5, <1>6 DEF AgreeInv

LEMMA AgreeText ==
  ASSUME Typed, AgreeInv, IInv, IInv', ResponseInv', NEW d \in Chunk, Text(d)
  PROVE  AgreeInv'
<1>1. /\ phase \in {"idle", "open"} /\ phase' = "open"
      /\ chunks' = [chunks EXCEPT !.content = Append(@, d)]
      /\ sentText' = Append(sentText, d) /\ sentThinking' = sentThinking
      /\ stopReason' = stopReason
      /\ thinkingIndex' = ThinkingStopped
      /\ textOutputIdx' = IF textOutputIdx = -1 THEN nextOutputIdx ELSE textOutputIdx
      /\ nextOutputIdx' = IF textOutputIdx = -1 THEN nextOutputIdx + 1 ELSE nextOutputIdx
      /\ textBuffer' = Append(textBuffer, d)
      /\ UNCHANGED <<thinkingOutputIdx, thinkingBuffer>>
  BY DEF Text, OnText, Chat!OnText, Responses!OnText, Callbacks!CallText
<1>2. /\ chunks'.content = Append(chunks.content, d)
      /\ chunks'.reasoning_content = chunks.reasoning_content /\ chunks'.error = chunks.error
      /\ chunks'.tool_calls = chunks.tool_calls
      /\ chunks'.finish_reason = chunks.finish_reason
  BY <1>1 DEF Typed, Chat!Message
<1>3. SaidInv'
  <2>1. view'.error = view.error /\ response'.failed = response.failed
    BY DeltasKeepErrors DEF Typed
  <2> QED
    BY <1>1, <1>2, <2>1 DEF AgreeInv, SaidInv
<1>4. StoppedInv'
  BY <1>1, <1>2 DEF AgreeInv, StoppedInv
<1>5. CountInv'
  <2>1. textBuffer' # <<>>
    BY <1>1, AppendedNotEmpty DEF Typed
  <2>2. thinkingOutputIdx' # -1 => thinkingBuffer' # <<>>
    BY <1>1 DEF AgreeInv, CountInv
  <2>3. \A i \in 1..nextOutputIdx' : i = thinkingOutputIdx' + 1 \/ i = textOutputIdx' + 1
    BY <1>1, SMTT(30) DEF AgreeInv, CountInv, Typed
  <2>4. chunks'.tool_calls = 0 /\ stopReason' = "end_turn"
    BY <1>1, <1>2 DEF AgreeInv, StoppedInv
  <2> QED
    BY <1>1, <2>1, <2>2, <2>3, <2>4, NoCallWhileOpen DEF CountInv
<1>6. ThinkingInv'
  <2>0. PICK k : k = Block(textIndex')
    OBVIOUS
  <2>1. ShownIn(k)
    BY <2>0, OnTextPreserves DEF Text
  <2>2. view'.blocks[k].type = "text" /\ (k \in DOMAIN view.blocks => view.blocks[k].type = "text")
    BY <2>0, TextBlockKept DEF Text, Typed
  <2>3. /\ view'.stray = view.stray
        /\ \A j \in DOMAIN view.blocks :
             /\ j \in DOMAIN view'.blocks
             /\ view'.blocks[j].type = view.blocks[j].type
             /\ j # k => view'.blocks[j].content = view.blocks[j].content
        /\ \A j \in DOMAIN view'.blocks : j \notin DOMAIN view.blocks => view'.blocks[j].type = "text"
    BY <2>1, <2>2 DEF ShownIn
  <2>4. \A j \in DOMAIN view.blocks : ThinkingHeld(j) => j # k
    BY <2>2 DEF ThinkingHeld
  <2>5. ASSUME NEW j \in DOMAIN view.blocks, ThinkingHeld(j)
        PROVE  ThinkingHeld(j)'
    <3>1. view'.blocks[j].content = sentThinking' /\ sentThinking' # <<>>
      BY <1>1, <2>3, <2>4, <2>5 DEF ThinkingHeld
    <3>2. \A i \in DOMAIN view'.blocks : view'.blocks[i].type = "thinking" <=> i = j
      BY <2>3, <2>5 DEF ThinkingHeld
    <3> QED
      BY <3>1, <3>2 DEF ThinkingHeld
  <2>6. \A j \in DOMAIN view.blocks :
          j \in DOMAIN view'.blocks /\ view'.blocks[j].type = view.blocks[j].type
    BY <2>3
  <2>7. \A j \in DOMAIN view'.blocks :
          j \notin DOMAIN view.blocks => view'.blocks[j].type # "thinking"
    BY <2>3
  <2>8. view'.stray = view.stray
    BY <2>3
  <2> HIDE <2>3
  <2> QED
    BY <1>1, <2>5, <2>6, <2>7, <2>8, ThinkingStops
<1> QED
  BY <1>3, <1>4, <1>5, <1>6 DEF AgreeInv

LEMMA AgreeToolCalls ==
  ASSUME Typed, AgreeInv, IInv, IInv', ResponseInv, NEW n \in 1..MaxToolCalls, ToolCalls(n)
  PROVE  AgreeInv'
<1>0. n \in Nat
  BY BoundsAssumption
<1>1. /\ phase \in {"idle", "open"} /\ phase' = "tools"
      /\ chunks' = [chunks EXCEPT !.tool_calls = @ + n, !.finish_reason = "tool_calls"]
      /\ stopReason' = "tool_use" /\ nextIndex' = nextIndex + n
      /\ thinkingIndex' = ThinkingStopped
      /\ UNCHANGED <<thinkingOutputIdx, thinkingBuffer, textOutputIdx, textBuffer, nextOutputIdx,
                     sentText, sentThinking>>
  BY DEF ToolCalls, OnToolCalls, Chat!OnToolCalls, Responses!OnToolCalls, sent,
         Callbacks!CallToolCalls, Responses!emitter
<1>2. /\ chunks'.content = chunks.content /\ chunks'.error = chunks.error
      /\ chunks'.reasoning_content = chunks.reasoning_content
      /\ chunks'.tool_calls = chunks.tool_calls + n
      /\ chunks'.finish_reason = "tool_calls"
  BY <1>1 DEF Typed, Chat!Message
<1>3. SaidInv'
  <2>1. view'.error = view.error /\ response'.failed = response.failed
    BY CallsKeepErrors DEF Typed
  <2> QED
    BY <1>1, <1>2, <2>1 DEF AgreeInv, SaidInv
<1>4. StoppedInv'
  BY <1>1, <1>2 DEF StoppedInv
<1>5. chunks.tool_calls = 0
  BY <1>1 DEF AgreeInv, StoppedInv
<1>6. CallsAdded
  BY OnToolCallsPreserves DEF ToolCalls
<1>7. CountInv'
  <2>1. Len(response'.items) = nextOutputIdx' + chunks'.tool_calls
    <3>1. Len(response'.items) = Len(response.items) + n
      BY ResponsesToolCallsPreserves DEF ToolCalls
    <3>2. Len(response.items) = nextOutputIdx + 0
      BY <1>5 DEF AgreeInv, CountInv
    <3> QED
      BY <1>0, <1>1, <1>2, <1>5, <3>1, <3>2 DEF Typed
  <2>2. chunks'.tool_calls <= nextIndex'
    BY <1>0, <1>1, <1>2, <1>5 DEF Typed
  <2>3. ASSUME NEW i \in DOMAIN view'.blocks
        PROVE  view'.blocks[i].type = "tool_use" <=> i > nextIndex' - chunks'.tool_calls
    <3>0. nextIndex' - chunks'.tool_calls = nextIndex
      BY <1>0, <1>1, <1>2, <1>5 DEF Typed
    <3>1. DOMAIN view'.blocks = 1..nextIndex' /\ nextIndex' \in Nat
      BY DEF IInv, IndexInv, TypeOK, Message
    <3>2. CASE i \in DOMAIN view.blocks
      <4>1. view'.blocks[i].type = view.blocks[i].type
        BY <1>6, <3>2 DEF CallsAdded
      <4>2. view.blocks[i].type = "tool_use" <=> i > nextIndex - 0
        BY <1>5, <3>2 DEF AgreeInv, CountInv
      <4> QED
        BY <3>0, <4>1, <4>2 DEF Typed
    <3>3. CASE i \notin DOMAIN view.blocks
      <4>1. view'.blocks[i].type = "tool_use"
        BY <1>6, <3>3 DEF CallsAdded
      <4>2. i > nextIndex
        BY <3>1, <3>3 DEF Typed
      <4> QED
        BY <3>0, <4>1, <4>2
    <3> QED
      BY <3>2, <3>3
  <2> QED
    BY <1>1, <2>1, <2>2, <2>3 DEF AgreeInv, CountInv
<1>8. ThinkingInv'
  <2>1. ASSUME NEW j \in DOMAIN view.blocks, ThinkingHeld(j)
        PROVE  ThinkingHeld(j)'
    BY <1>1, <1>6, <2>1 DEF ThinkingHeld, CallsAdded
  <2> QED
    BY <1>1, <1>6, <2>1, ThinkingStops DEF CallsAdded
<1> QED
  BY <1>3, <1>4, <1>7, <1>8 DEF AgreeInv

LEMMA AgreeError ==
  ASSUME Typed, AgreeInv, IInv', ResponseInv', Error
  PROVE  AgreeInv'
<1>1. /\ phase \in {"idle", "open"} /\ phase' = "open"
      /\ chunks' = [chunks EXCEPT !.error = TRUE]
      /\ view' = [view EXCEPT !.error = TRUE]
      /\ response' = [response EXCEPT !.failed = TRUE]
      /\ UNCHANGED <<thinkingOutputIdx, thinkingBuffer, textOutputIdx, textBuffer, nextOutputIdx,
                     thinkingIndex, textIndex, nextIndex, stopReason, sentText, sentThinking>>
  BY DEF Error, OnError, Chat!OnError, Responses!OnError, sent, emitter,
         Callbacks!CallError, Responses!emitter
<1>2. /\ chunks'.content = chunks.content
      /\ chunks'.reasoning_content = chunks.reasoning_content
      /\ chunks'.tool_calls = chunks.tool_calls /\ chunks'.error
      /\ chunks'.finish_reason = chunks.finish_reason
  BY <1>1 DEF Typed, Chat!Message
<1>3. view'.error /\ view'.blocks = view.blocks /\ view'.stray = view.stray /\ response'.failed
  BY <1>1 DEF Typed, Message, Responses!Response
<1>4. SaidInv'
  BY <1>1, <1>2, <1>3 DEF AgreeInv, SaidInv
<1>5. StoppedInv'
  BY <1>1, <1>2 DEF AgreeInv, StoppedInv
<1>6. CountInv'
  <2>1. chunks'.tool_calls = 0 /\ stopReason' = "end_turn"
    BY <1>1, <1>2 DEF AgreeInv, StoppedInv
  <2> QED
    BY <1>1, <2>1, NoCallWhileOpen DEF AgreeInv, CountInv
<1>7. ThinkingInv'
  BY <1>1, <1>3 DEF AgreeInv, ThinkingInv, ThinkingHeld, Block
<1> QED
  BY <1>4, <1>5, <1>6, <1>7 DEF AgreeInv

LEMMA AgreeDone ==
  ASSUME Typed, AgreeInv, IInv, ResponseInv, Done
  PROVE  AgreeInv'
<1>1. /\ phase' = "closed"
      /\ chunks' = [chunks EXCEPT !.done = TRUE]
      /\ UNCHANGED <<thinkingOutputIdx, thinkingBuffer, textOutputIdx, textBuffer, nextOutputIdx,
                     thinkingIndex, textIndex, nextIndex, stopReason, sentText, sentThinking>>
  BY DEF Done, OnDone, Chat!OnDone, Responses!OnDone, sent, emitter,
         Callbacks!CallDone, Responses!emitter
<1>2. /\ chunks'.content = chunks.content /\ chunks'.error = chunks.error
      /\ chunks'.reasoning_content = chunks.reasoning_content
      /\ chunks'.tool_calls = chunks.tool_calls /\ chunks'.done
      /\ chunks'.finish_reason = chunks.finish_reason
  BY <1>1 DEF Typed, Chat!Message
<1>3. SaidInv'
  <2>1. view'.error = view.error /\ response'.failed = response.failed
    BY DoneKeepsErrors DEF Typed
  <2> QED
    BY <1>1, <1>2, <2>1 DEF AgreeInv, SaidInv
<1>4. StoppedInv'
  BY <1>1, <1>2 DEF AgreeInv, StoppedInv
<1>5. DOMAIN view'.blocks = DOMAIN view.blocks /\ CallsAdded
  BY OnDonePreserves DEF Done
<1>6. CountInv'
  <2>1. Len(response'.items) = Len(response.items)
    BY ResponsesDonePreserves DEF Done
  <2>2. \A i \in DOMAIN view'.blocks :
          view'.blocks[i].type = "tool_use" <=> i > nextIndex' - chunks'.tool_calls
    BY <1>1, <1>2, <1>5 DEF CallsAdded, AgreeInv, CountInv
  <2> QED
    BY <1>1, <1>2, <2>1, <2>2 DEF AgreeInv, CountInv
<1>7. ThinkingInv'
  <2>1. ASSUME NEW j \in DOMAIN view.blocks, ThinkingHeld(j)
        PROVE  ThinkingHeld(j)'
    BY <1>1, <1>5, <2>1 DEF ThinkingHeld, CallsAdded
  <2>2. thinkingIndex >= 0 => Block(thinkingIndex) \in DOMAIN view.blocks
    BY DEF Typed, Block
  <2>3. ThinkingHeld(Block(thinkingIndex)) /\ thinkingIndex >= 0 => ThinkingHeld(Block(thinkingIndex))'
    BY <1>1, <1>5, <2>2 DEF ThinkingHeld, CallsAdded, Block
  <2> QED
    BY <1>1, <1>5, <2>1, <2>3 DEF AgreeInv, ThinkingInv, CallsAdded
<1> QED
  BY <1>3, <1>4, <1>6, <1>7 DEF AgreeInv

LEMMA AgreeNothing ==
  ASSUME AgreeInv, Nothing \/ UNCHANGED allVars
  PROVE  AgreeInv'
<1>1. /\ phase' = phase \/ phase' = "aborted"
      /\ UNCHANGED <<thinkingOutputIdx, thinkingBuffer, textOutputIdx, textBuffer, nextOutputIdx,
                     thinkingIndex, textIndex, nextIndex, stopReason, sentText, sentThinking,
                     view, chunks, response>>
  BY DEF Nothing, NoCalls, Chat!NoCalls, Responses!NoCalls, Callbacks!Abort, sent, emitter,
         Responses!emitter, allVars, vars, responsesEmitter
<1>2. SaidInv' /\ CountInv'
  BY <1>1 DEF AgreeInv, SaidInv, CountInv
<1>3. StoppedInv'
  BY <1>1 DEF AgreeInv, StoppedInv
<1>4. ThinkingInv'
  BY <1>1 DEF AgreeInv, ThinkingInv, ThinkingHeld, Block
<1> QED
  BY <1>2, <1>3, <1>4 DEF AgreeInv

\* What every step of a turn keeps.
Told == IInv /\ ResponseInv /\ Chat!TypeOK /\ AgreeInv

LEMMA ToldNext ==
  ASSUME Told, [EmittersNext]_allVars
  PROVE  Told'
<1>1. IInv' /\ ResponseInv' /\ Chat!TypeOK'
  <2>1. [EmittersNext]_allVars => [Next]_vars
    BY DEF EmittersNext, Next, Thinking, Text, ToolCalls, Error, Done, Nothing, allVars
  <2> QED
    BY <2>1, NextPreserves, ResponsesNext, ChatNext DEF Told
<1>2. Typed /\ AgreeInv /\ IInv /\ ResponseInv
  BY TypedHolds DEF Told
<1>3. AgreeInv'
  BY <1>1, <1>2, AgreeThinking, AgreeText, AgreeToolCalls, AgreeError, AgreeDone, AgreeNothing
  DEF EmittersNext
<1> QED
  BY <1>1, <1>3 DEF Told

\* The clients of the three protocols are told the same of a turn, of any length: the same
\* text, and all of it in one block or item, the same number of calls, the same error, and
\* the same end; and the same thinking, until some comes after text.
THEOREM ClientsToldTheSame == EmittersSpec => []ClientsAgree
<1>1. EmittersInit => Told
  BY InitEstablishes, ResponsesInit, ChatInit, AgreeInit DEF EmittersInit, Told
<1>2. Told => ClientsAgree
  BY AgreeInvImplies DEF Told
<1> QED
  BY <1>1, <1>2, ToldNext, PTL DEF EmittersSpec

=============================================================================
