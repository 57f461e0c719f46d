------------------------- MODULE NativeStream_proofs -------------------------
(***************************************************************************)
(* Proofs about NativeStream, for streams of any length: its types, that   *)
(* both engines implement CallbackProtocol, and that they hand on all a    *)
(* stream says.                                                            *)
(***************************************************************************)
EXTENDS NativeStream, FiniteSetTheorems, TLAPS

Kinds == {"text", "thinking", "error", "done"}

CallType == [kind : Kinds, at : 0..MaxLines]

DataType == [is : Payload, at : 1..MaxLines]

\* Before the request is sent nothing was called, before the end no OnDone, and at the
\* end OnDone was the last call if there was any.
CallsInv ==
  /\ pc \in {"build", "connect"} => calls = <<>> /\ dataLines = <<>>
  /\ pc # "returned" => \A i \in DOMAIN calls : calls[i].kind # "done"
  /\ pc = "returned" /\ calls # <<>> => Last(calls).kind = "done"

IInv == TypeOK /\ CallsInv

-----------------------------------------------------------------------------

\* A call of a delta or an error keeps the callback protocol.
LEMMA ResponsesCallKind ==
  ASSUME NEW payload
  PROVE  ResponsesCall(payload) \in {"text", "thinking", "error", "none"}
  BY DEF ResponsesCall

LEMMA AnthropicCallKind ==
  ASSUME NEW name, NEW data
  PROVE  AnthropicCall(name, data) \in {"text", "thinking", "error", "none"}
  BY DEF AnthropicCall

\* What a callback other than OnDone does to the calls.
LEMMA MakeFacts ==
  ASSUME IInv, pc \in {"read", "flush"}, NEW kind \in {"text", "thinking", "error", "none"},
         NEW at \in 0..MaxLines, Make(kind, at)
  PROVE  /\ calls' \in Seq(CallType)
         /\ \A i \in DOMAIN calls' : calls'[i].kind # "done"
         /\ calls' = calls \/ (calls' # <<>> /\ Last(calls').kind \in {"text", "thinking", "error"})
<1>1. calls \in Seq(CallType)
  BY DEF IInv, TypeOK, CallType, Kinds
<1>2. CASE kind = "none"
  BY <1>1, <1>2 DEF Make, IInv, CallsInv
<1>3. CASE kind # "none"
  <2> DEFINE c == Call(kind, at)
  <2>1. c \in CallType /\ c.kind = kind
    BY <1>3 DEF Call, CallType, Kinds
  <2>2. calls' = Append(calls, c)
    BY <1>3 DEF Make
  <2>3. /\ Len(calls') = Len(calls) + 1
        /\ calls'[Len(calls')] = c
        /\ \A i \in DOMAIN calls : calls'[i] = calls[i]
        /\ calls' \in Seq(CallType)
    BY <1>1, <2>1, <2>2
  <2>4. \A i \in DOMAIN calls' : calls'[i].kind # "done"
    <3> TAKE i \in DOMAIN calls'
    <3>1. CASE i = Len(calls')
      BY <3>1, <2>1, <2>3, <1>3
    <3>2. CASE i # Len(calls')
      <4>1. i \in DOMAIN calls
        BY <3>2, <2>3, <1>1
      <4> QED
        BY <4>1, <2>3 DEF IInv, CallsInv
    <3> QED
      BY <3>1, <3>2
  <2>5. calls' # <<>> /\ Last(calls') = c
    BY <2>3, <1>1 DEF Last
  <2> QED
    BY <2>1, <2>3, <2>4, <2>5, <1>3
<1> QED
  BY <1>2, <1>3

\* What handing on an event does: no data line is left over.
LEMMA ProcessEventFacts ==
  ASSUME IInv, pc \in {"read", "flush"}, ProcessEvent
  PROVE  /\ calls' \in Seq(CallType)
         /\ \A i \in DOMAIN calls' : calls'[i].kind # "done"
         /\ calls' = calls \/ (calls' # <<>> /\ Last(calls').kind \in {"text", "thinking", "error"})
         /\ dataLines' = <<>>
<1>1. CASE dataLines = <<>>
  BY <1>1 DEF ProcessEvent, IInv, TypeOK, CallsInv, CallType, Kinds
<1>2. CASE dataLines # <<>>
  <2>1. Head(dataLines).at \in 0..MaxLines
    <3>1. dataLines \in Seq(DataType)
      BY DEF IInv, TypeOK, DataType
    <3>2. Head(dataLines) \in DataType
      BY <3>1, <1>2
    <3> QED
      BY <3>2, LinesAssumption DEF DataType
  <2>2. Make(AnthropicCall(eventName, dataLines), Head(dataLines).at) /\ dataLines' = <<>>
    BY <1>2 DEF ProcessEvent
  <2> QED
    BY <2>1, <2>2, AnthropicCallKind, MakeFacts
<1> QED
  BY <1>1, <1>2

-----------------------------------------------------------------------------
(* The invariant and the callback protocol are kept step by step. The     *)
(* phase of the turn is a function of the calls made.                      *)

LEMMA InitEstablishes == Init => IInv /\ Protocol!PhaseInit
<1> SUFFICES ASSUME Init PROVE IInv /\ Protocol!PhaseInit
  OBVIOUS
<1>1. /\ pc = "build" /\ upstreamProtocol \in {"responses", "anthropic"}
      /\ eventName = "" /\ dataLines = <<>> /\ calls = <<>> /\ read = <<>>
  BY DEF Init
<1>2. /\ <<>> \in Seq(CallType) /\ <<>> \in Seq(DataType) /\ <<>> \in Seq(Line)
      /\ Len(<<>>) = 0 /\ DOMAIN <<>> = {}
  OBVIOUS
<1>3. TypeOK
  <2>1. calls \in Seq(CallType) /\ dataLines \in Seq(DataType) /\ read \in Seq(Line)
    BY <1>1, <1>2
  <2>2. Len(read) = 0
    BY <1>1, <1>2
  <2>3. Len(read) <= MaxLines
    BY <2>2, LinesAssumption
  <2> QED
    BY <1>1, <2>1, <2>3 DEF TypeOK, CallType, Kinds, DataType
<1>4. CallsInv
  BY <1>1, <1>2 DEF CallsInv
<1>5. Protocol!PhaseInit
  BY <1>1 DEF Protocol!PhaseInit, Phase
<1> QED
  BY <1>3, <1>4, <1>5 DEF IInv

\* No OnDone: the turn stays where it is, or it is open.
LEMMA PhaseKept ==
  ASSUME IInv, pc # "returned", pc' # "returned",
         calls' = calls \/ (calls' # <<>> /\ Last(calls').kind \in {"text", "thinking", "error"})
  PROVE  [Protocol!PhaseNext]_Phase
<1>1. calls # <<>> => Last(calls).kind # "done"
  <2> SUFFICES ASSUME calls # <<>> PROVE Last(calls).kind # "done"
    OBVIOUS
  <2>1. calls \in Seq(CallType)
    BY DEF IInv, TypeOK, CallType, Kinds
  <2>2. Len(calls) \in DOMAIN calls
    BY <2>1
  <2> QED
    BY <2>2 DEF Last, IInv, CallsInv
<1>2. CASE calls' = calls
  BY <1>2 DEF Phase
<1>3. CASE calls' # <<>> /\ Last(calls').kind \in {"text", "thinking", "error"}
  <2>1. Phase' = "open"
    BY <1>3 DEF Phase
  <2>2. Phase \in {"idle", "open"}
    BY <1>1 DEF Phase
  <2> QED
    BY <2>1, <2>2 DEF Protocol!PhaseNext, Protocol!CallText
<1> QED
  BY <1>2, <1>3

\* What a line adds to the history.
LEMMA ReadLineFacts ==
  ASSUME IInv, NEW line \in Line, NEW next \in Then, ReadLine(line, next)
  PROVE  /\ pc = "read" /\ pc' \in {"read", "flush", "broken"}
         /\ read' \in Seq(Line) /\ Len(read') \in 1..MaxLines
         /\ upstreamProtocol' = upstreamProtocol
<1>1. read \in Seq(Line) /\ Len(read) < MaxLines /\ read' = Append(read, line)
  BY DEF ReadLine, IInv, TypeOK
<1>2. Len(read') = Len(read) + 1 /\ read' \in Seq(Line)
  BY <1>1
<1> QED
  BY <1>1, <1>2, LinesAssumption DEF ReadLine, Then

\* A step within the turn: it keeps the invariant and the protocol.
LEMMA WithinTurn ==
  ASSUME IInv, pc # "returned",
         pc' \in {"read", "broken", "flush", "done"},
         upstreamProtocol' = upstreamProtocol,
         eventName' \in Names \union {""},
         dataLines' \in Seq(DataType),
         read' \in Seq(Line), Len(read') <= MaxLines,
         calls' \in Seq(CallType),
         \A i \in DOMAIN calls' : calls'[i].kind # "done",
         calls' = calls \/ (calls' # <<>> /\ Last(calls').kind \in {"text", "thinking", "error"})
  PROVE  IInv' /\ [Protocol!PhaseNext]_Phase
<1>1. TypeOK'
  BY DEF IInv, TypeOK, CallType, Kinds, DataType
<1>2. CallsInv'
  BY DEF CallsInv
<1>3. [Protocol!PhaseNext]_Phase
  BY PhaseKept
<1> QED
  BY <1>1, <1>2, <1>3 DEF IInv

\* OnError and OnDone of the engine itself.
LEMMA AppendFacts ==
  ASSUME IInv, NEW kind \in {"error", "done"}, calls' = Append(calls, Call(kind, 0))
  PROVE  /\ calls' \in Seq(CallType)
         /\ calls' # <<>> /\ Last(calls') = Call(kind, 0)
         /\ (pc # "returned" /\ kind = "error") =>
              \A i \in DOMAIN calls' : calls'[i].kind # "done"
<1>1. calls \in Seq(CallType)
  BY DEF IInv, TypeOK, CallType, Kinds
<1>2. Call(kind, 0) \in CallType /\ Call(kind, 0).kind = kind
  BY LinesAssumption DEF Call, CallType, Kinds
<1>3. /\ calls' \in Seq(CallType)
      /\ Len(calls') = Len(calls) + 1
      /\ calls'[Len(calls')] = Call(kind, 0)
      /\ \A i \in DOMAIN calls : calls'[i] = calls[i]
      /\ calls' # <<>>
  BY <1>1, <1>2
<1>4. ASSUME pc # "returned", kind = "error", NEW i \in DOMAIN calls'
      PROVE  calls'[i].kind # "done"
  <2>1. CASE i = Len(calls')
    BY <2>1, <1>2, <1>3, <1>4
  <2>2. CASE i # Len(calls')
    <3>1. i \in DOMAIN calls
      BY <2>2, <1>1, <1>3
    <3> QED
      BY <3>1, <1>3, <1>4 DEF IInv, CallsInv
  <2> QED
    BY <2>1, <2>2
<1> QED
  BY <1>3, <1>4 DEF Last

LEMMA NextPreserves == IInv /\ [Next]_vars => IInv' /\ [Protocol!PhaseNext]_Phase
<1> SUFFICES ASSUME IInv, [Next]_vars PROVE IInv' /\ [Protocol!PhaseNext]_Phase
  OBVIOUS
<1>1. /\ calls \in Seq(CallType) /\ dataLines \in Seq(DataType)
      /\ read \in Seq(Line) /\ Len(read) <= MaxLines
      /\ eventName \in Names \union {""}
      /\ upstreamProtocol \in {"responses", "anthropic"}
      /\ pc # "returned" => \A i \in DOMAIN calls : calls[i].kind # "done"
  BY DEF IInv, TypeOK, CallsInv, CallType, Kinds, DataType
<1>2. CASE Build
  <2>1. calls = <<>> /\ calls' = <<>> /\ dataLines' = <<>> /\ pc = "build"
        /\ pc' \in {"connect", "returned"}
    BY <1>2 DEF Build, IInv, CallsInv
  <2>2. TypeOK'
    BY <1>2, <2>1 DEF Build, IInv, TypeOK
  <2>3. CallsInv'
    BY <1>2, <2>1 DEF Build, IInv, CallsInv
  <2>4. Phase = "idle" /\ Phase' \in {"idle", "aborted"}
    BY <2>1 DEF Phase
  <2>5. [Protocol!PhaseNext]_Phase
    BY <2>4 DEF Protocol!PhaseNext, Protocol!Abort
  <2> QED
    BY <2>2, <2>3, <2>5 DEF IInv
<1>3. CASE Connected
  BY <1>1, <1>3, WithinTurn DEF Connected
<1>4. CASE ConnectFails
  <2>1. /\ calls' \in Seq(CallType) /\ calls' # <<>> /\ Last(calls').kind = "error"
        /\ \A i \in DOMAIN calls' : calls'[i].kind # "done"
    BY <1>4, AppendFacts DEF ConnectFails, Call
  <2> QED
    BY <1>1, <1>4, <2>1, WithinTurn DEF ConnectFails
<1>5. ASSUME NEW line \in Line, NEW next \in Then, ResponsesLine(line, next)
      PROVE  IInv' /\ [Protocol!PhaseNext]_Phase
  <2>1. /\ pc = "read" /\ pc' \in {"read", "flush", "broken"}
        /\ read' \in Seq(Line) /\ Len(read') \in 1..MaxLines
        /\ upstreamProtocol' = upstreamProtocol
    BY <1>5, ReadLineFacts DEF ResponsesLine
  <2> DEFINE kind == IF line.type = "data" THEN ResponsesCall(line.is) ELSE "none"
  <2>2. kind \in {"text", "thinking", "error", "none"}
    BY ResponsesCallKind
  <2>3. Make(kind, Len(read'))
    BY <1>5 DEF ResponsesLine
  <2>4. Len(read') \in 0..MaxLines /\ Len(read') <= MaxLines
    BY <2>1, LinesAssumption
  <2> HIDE DEF kind
  <2>5. /\ calls' \in Seq(CallType)
        /\ \A i \in DOMAIN calls' : calls'[i].kind # "done"
        /\ calls' = calls
             \/ (calls' # <<>> /\ Last(calls').kind \in {"text", "thinking", "error"})
    BY <2>1, <2>2, <2>3, <2>4, MakeFacts
  <2>6. eventName' = eventName /\ dataLines' = dataLines
    BY <1>5 DEF ResponsesLine
  <2> QED
    BY <1>1, <2>1, <2>4, <2>5, <2>6, WithinTurn
<1>6. ASSUME NEW line \in Line, NEW next \in Then, AnthropicLine(line, next)
      PROVE  IInv' /\ [Protocol!PhaseNext]_Phase
  <2>1. /\ pc = "read" /\ pc' \in {"read", "flush", "broken"}
        /\ read' \in Seq(Line) /\ Len(read') \in 1..MaxLines
        /\ upstreamProtocol' = upstreamProtocol
    BY <1>6, ReadLineFacts DEF AnthropicLine
  <2>2. Len(read') <= MaxLines
    BY <2>1
  <2>3. CASE line.type = "blank" /\ ProcessEvent /\ eventName' = ""
    <3>1. dataLines' = <<>>
      BY <1>1, <2>1, <2>3, ProcessEventFacts
    <3>2. <<>> \in Seq(DataType)
      OBVIOUS
    <3>3. dataLines' \in Seq(DataType)
      BY <3>1, <3>2
    <3> QED
      BY <1>1, <2>1, <2>2, <2>3, <3>3, ProcessEventFacts, WithinTurn
  <2>4. CASE line.type = "event" /\ eventName' = line.is /\ UNCHANGED <<dataLines, calls>>
    <3>1. line.is \in Names
      BY <2>4 DEF Line
    <3> QED
      BY <1>1, <2>1, <2>2, <2>4, <3>1, WithinTurn
  <2>5. CASE /\ line.type = "data"
             /\ dataLines' = Append(dataLines, Data(line.is, Len(read')))
             /\ UNCHANGED <<eventName, calls>>
    <3>1. line.is \in Payload
      BY <2>5 DEF Line
    <3>2. Data(line.is, Len(read')) \in DataType
      BY <3>1, <2>1 DEF Data, DataType
    <3>3. dataLines \in Seq(DataType)
      BY <1>1
    <3>4. Append(dataLines, Data(line.is, Len(read'))) \in Seq(DataType)
      BY <3>2, <3>3
    <3>5. dataLines' \in Seq(DataType)
      BY <3>4, <2>5
    <3> QED
      BY <1>1, <2>1, <2>2, <2>5, <3>5, WithinTurn
  <2> QED
    BY <1>6, <2>3, <2>4, <2>5 DEF AnthropicLine
<1>7. ASSUME NEW next \in Then, NoLine(next)
      PROVE  IInv' /\ [Protocol!PhaseNext]_Phase
  BY <1>1, <1>7, WithinTurn DEF NoLine, Then
<1>8. CASE Broken
  <2>1. /\ calls' \in Seq(CallType) /\ calls' # <<>> /\ Last(calls').kind = "error"
        /\ \A i \in DOMAIN calls' : calls'[i].kind # "done"
    BY <1>8, AppendFacts DEF Broken, Call
  <2> QED
    BY <1>1, <1>8, <2>1, WithinTurn DEF Broken
<1>9. CASE Flush
  <2>1. /\ calls' \in Seq(CallType) /\ dataLines' \in Seq(DataType)
        /\ \A i \in DOMAIN calls' : calls'[i].kind # "done"
        /\ calls' = calls
             \/ (calls' # <<>> /\ Last(calls').kind \in {"text", "thinking", "error"})
    <3>1. CASE upstreamProtocol = "anthropic"
      <4>1. pc = "flush" /\ ProcessEvent
        BY <1>9, <3>1 DEF Flush
      <4> QED
        BY <4>1, ProcessEventFacts
    <3>2. CASE upstreamProtocol # "anthropic"
      <4>1. pc = "flush" /\ UNCHANGED <<dataLines, calls>>
        BY <1>9, <3>2 DEF Flush
      <4> QED
        BY <1>1, <4>1
    <3> QED
      BY <3>1, <3>2
  <2> QED
    BY <1>1, <1>9, <2>1, WithinTurn DEF Flush
<1>10. CASE Done
  <2>1. calls' \in Seq(CallType) /\ calls' # <<>> /\ Last(calls').kind = "done"
    BY <1>10, AppendFacts DEF Done, Call
  <2>2. TypeOK'
    BY <1>10, <1>1, <2>1 DEF Done, IInv, TypeOK, CallType, Kinds
  <2>3. CallsInv'
    BY <1>10, <2>1 DEF Done, CallsInv
  <2>4. Phase' = "closed"
    BY <2>1 DEF Phase
  <2>5. calls # <<>> => Last(calls).kind # "done"
    <3>1. calls \in Seq(CallType)
      BY <1>1
    <3>2. calls # <<>> => Len(calls) \in DOMAIN calls
      BY <3>1
    <3> QED
      BY <1>1, <1>10, <3>2 DEF Done, Last
  <2>6. Phase \in {"idle", "open"}
    BY <1>10, <2>5 DEF Phase, Done
  <2>7. [Protocol!PhaseNext]_Phase
    BY <2>4, <2>6 DEF Protocol!PhaseNext, Protocol!CallDone
  <2> QED
    BY <2>2, <2>3, <2>7 DEF IInv
<1>11. CASE UNCHANGED vars
  BY <1>11 DEF vars, IInv, TypeOK, CallsInv, Phase
<1> QED
  BY <1>2, <1>3, <1>4, <1>5, <1>6, <1>7, <1>8, <1>9, <1>10, <1>11 DEF Next

-----------------------------------------------------------------------------

\* The calls made agree with where the stream is: none before the request is sent, OnDone
\* only at the end, and last there (streamResponsesUpstream, streamAnthropicUpstream).
THEOREM IInvAlways == Spec => []IInv
  BY InitEstablishes, NextPreserves, PTL DEF Spec

\* The event being assembled and the calls made keep their types (streamResponsesUpstream
\* and streamAnthropicUpstream).
THEOREM TypeCorrect == Spec => []TypeOK
<1>1. IInv => TypeOK
  BY DEF IInv
<1> QED
  BY <1>1, IInvAlways, PTL

\* Both native engines implement CallbackProtocol, however long the stream and wherever
\* it ends or breaks: the emitters may rely on the order of their callbacks.
THEOREM ImplementsCallbackProtocol == Spec => KeepsCallbackProtocol
  BY InitEstablishes, NextPreserves, PTL DEF Spec, KeepsCallbackProtocol, Protocol!PhaseSpec

-----------------------------------------------------------------------------
(* Numbers in order *)

Increasing(n, d) ==
  /\ \A k \in 1..n : d[k] \in Nat
  /\ \A j, k \in 1..n : j < k => d[j] < d[k]

LEMMA Counted ==
  ASSUME NEW n \in Nat, NEW d, Increasing(n, d)
  PROVE  Cardinality({d[k] : k \in 1..n}) = n
<1> DEFINE S == {d[k] : k \in 1..n}
           f == [k \in 1..n |-> d[k]]
<1>1. f \in Injection(1..n, S)
  <2>1. f \in [1..n -> S]
    OBVIOUS
  <2>2. ASSUME NEW j \in 1..n, NEW k \in 1..n, f[j] = f[k] PROVE j = k
    BY <2>2 DEF Increasing
  <2> QED BY <2>1, <2>2, Zenon DEF Injection, IsInjective
<1>2. f \in Surjection(1..n, S)
  BY DEF Surjection
<1>3. ExistsBijection(1..n, S)
  BY <1>1, <1>2 DEF ExistsBijection, Bijection
<1> QED BY <1>3, FS_CountingElements

\* Numbers that are in order already.
LEMMA InOrderIs ==
  ASSUME NEW n \in Nat, NEW d, Increasing(n, d)
  PROVE  InOrder({d[k] : k \in 1..n}) = [k \in 1..n |-> d[k]]
<1> DEFINE S == {d[k] : k \in 1..n}
           rank(i) == Cardinality({j \in S : j < i})
<1>1. Cardinality(S) = n
  BY Counted
<1>2. ASSUME NEW k \in 1..n PROVE rank(d[k]) = k - 1
  <2>1. {j \in S : j < d[k]} = {d[m] : m \in 1..(k - 1)}
    <3>1. ASSUME NEW m \in 1..n PROVE d[m] < d[k] <=> m < k
      BY DEF Increasing
    <3> QED BY <3>1
  <2>2. k - 1 \in Nat /\ Increasing(k - 1, d)
    BY DEF Increasing
  <2> QED BY <2>1, <2>2, Counted
<1>3. ASSUME NEW k \in 1..n PROVE (CHOOSE i \in S : rank(i) = k - 1) = d[k]
  <2> DEFINE c == CHOOSE i \in S : rank(i) = k - 1
  <2>1. \E i \in S : rank(i) = k - 1
    BY <1>2
  <2> HIDE DEF S, rank
  <2>2. c \in S /\ rank(c) = k - 1
    BY <2>1
  <2> USE DEF S
  <2>3. PICK m \in 1..n : c = d[m]
    BY <2>2
  <2>4. m - 1 = k - 1
    BY <1>2, <2>2, <2>3
  <2>5. m = k
    BY <2>4
  <2> QED BY <2>3, <2>5
<1>4. InOrder(S) = [k \in 1..Cardinality(S) |-> CHOOSE i \in S : rank(i) = k - 1]
  BY DEF InOrder
<1> HIDE DEF S, rank
<1>5. InOrder(S) = [k \in 1..n |-> d[k]]
  BY <1>1, <1>3, <1>4
<1> QED BY <1>5 DEF S

LEMMA Ranks ==
  ASSUME NEW S \in SUBSET Nat, IsFiniteSet(S)
  PROVE  /\ Cardinality(S) \in Nat
         /\ \A i \in S : Cardinality({j \in S : j < i}) \in 0..(Cardinality(S) - 1)
         /\ \A i, k \in S : i < k =>
              Cardinality({j \in S : j < i}) < Cardinality({j \in S : j < k})
         /\ \A r \in 0..(Cardinality(S) - 1) : \E i \in S : Cardinality({j \in S : j < i}) = r
<1> DEFINE below(i) == {j \in S : j < i}
           T == 0..(Cardinality(S) - 1)
           rank == [i \in S |-> Cardinality(below(i))]
<1>1. Cardinality(S) \in Nat
  BY FS_CardinalityType
<1>2. ASSUME NEW i \in S PROVE IsFiniteSet(below(i)) /\ Cardinality(below(i)) \in Nat
  <2>1. below(i) \in SUBSET S
    OBVIOUS
  <2> QED BY <2>1, FS_Subset, FS_CardinalityType
<1>3. ASSUME NEW i \in S PROVE Cardinality(below(i)) \in T
  <2>1. below(i) \in SUBSET S /\ i \notin below(i)
    OBVIOUS
  <2>2. below(i) # S
    BY <2>1
  <2> HIDE DEF below
  <2>3. Cardinality(below(i)) <= Cardinality(S) /\ Cardinality(below(i)) # Cardinality(S)
    BY <2>1, <2>2, FS_Subset
  <2> QED BY <1>1, <1>2, <2>3
<1>4. ASSUME NEW i \in S, NEW k \in S, i < k
      PROVE  Cardinality(below(i)) < Cardinality(below(k))
  <2>1. below(i) \in SUBSET below(k) /\ i \in below(k) /\ i \notin below(i)
    <3>1. i \in Nat /\ k \in Nat /\ \A j \in S : j \in Nat
      OBVIOUS
    <3>2. \A j \in S : j < i => j < k
      BY <1>4, <3>1
    <3>3. ~(i < i)
      BY <3>1
    <3> QED BY <1>4, <3>2, <3>3
  <2>2. below(i) # below(k)
    BY <2>1
  <2>3. IsFiniteSet(below(k)) /\ Cardinality(below(k)) \in Nat /\ Cardinality(below(i)) \in Nat
    BY <1>2
  <2> HIDE DEF below
  <2>4. Cardinality(below(i)) <= Cardinality(below(k))
        /\ Cardinality(below(i)) # Cardinality(below(k))
    BY <2>1, <2>2, <2>3, FS_Subset
  <2> QED BY <2>3, <2>4
<1>5. ASSUME NEW r \in T PROVE \E i \in S : Cardinality(below(i)) = r
  <2>1. rank \in [S -> T]
    BY <1>3
  <2>2. ASSUME NEW i \in S, NEW k \in S, rank[i] = rank[k] PROVE i = k
    <3>1. Cardinality(below(i)) = Cardinality(below(k))
      BY <2>2
    <3>2. Cardinality(below(i)) \in Nat
      BY <1>2
    <3> HIDE DEF below
    <3>3. ~(i < k) /\ ~(k < i)
      BY <1>4, <3>1, <3>2
    <3> QED BY <3>3
  <2>3. rank \in Injection(S, T)
    <3> HIDE DEF rank, T
    <3> QED BY <2>1, <2>2, Zenon DEF Injection, IsInjective
  <2>4. IsFiniteSet(T) /\ Cardinality(T) = Cardinality(S)
    <3> DEFINE b == Cardinality(S) - 1
    <3>1. 0 \in Int /\ b \in Int /\ T = 0..b
      BY <1>1
    <3> HIDE DEF T, b
    <3>2. IsFiniteSet(T) /\ Cardinality(T) = IF 0 > b THEN 0 ELSE b - 0 + 1
      BY <3>1, FS_Interval
    <3> QED BY <1>1, <3>2 DEF b
  <2>5. rank \in Surjection(S, T)
    <3> HIDE DEF rank, T
    <3> QED BY <2>3, <2>4, FS_Injection
  <2>6. \E i \in S : rank[i] = r
    <3> HIDE DEF rank
    <3> QED BY <2>5 DEF Surjection
  <2> QED BY <2>6
<1> QED BY <1>1, <1>3, <1>4, <1>5

LEMMA InOrderIn ==
  ASSUME NEW S \in SUBSET Nat, IsFiniteSet(S), NEW k \in DOMAIN InOrder(S)
  PROVE  InOrder(S)[k] \in S
<1> DEFINE n == Cardinality(S)
           rank(i) == Cardinality({j \in S : j < i})
<1>1. n \in Nat /\ \A r \in 0..(n - 1) : \E i \in S : rank(i) = r
  BY Ranks
<1>2. k \in 1..n /\ InOrder(S)[k] = CHOOSE i \in S : rank(i) = k - 1
  BY DEF InOrder
<1> HIDE DEF rank, n
<1>3. k - 1 \in 0..(n - 1)
  BY <1>1, <1>2
<1>4. \E i \in S : rank(i) = k - 1
  BY <1>1, <1>3
<1> QED BY <1>2, <1>4

LEMMA MaxIn ==
  ASSUME NEW S \in SUBSET Nat, IsFiniteSet(S), S # {}
  PROVE  Max(S) \in S
<1> DEFINE n == Cardinality(S)
           rank(i) == Cardinality({j \in S : j < i})
<1>1. /\ n \in Nat
      /\ \A i \in S : rank(i) \in 0..(n - 1)
      /\ \A i, k \in S : i < k => rank(i) < rank(k)
      /\ \A r \in 0..(n - 1) : \E i \in S : rank(i) = r
  BY Ranks
<1> HIDE DEF rank, n
<1>2. n - 1 \in 0..(n - 1)
  <2>1. PICK i \in S : TRUE
    OBVIOUS
  <2>2. rank(i) \in 0..(n - 1)
    BY <1>1
  <2> QED BY <1>1, <2>2
<1>3. PICK m \in S : rank(m) = n - 1
  BY <1>1, <1>2
<1>4. \A y \in S : m >= y
  BY <1>1, <1>3
<1> QED BY <1>3, <1>4 DEF Max

LEMMA MaxIs ==
  ASSUME NEW S \in SUBSET Nat, NEW x \in S, \A y \in S : y <= x
  PROVE  Max(S) = x
<1>1. \A z \in S : (\A y \in S : z >= y) => z = x
  OBVIOUS
<1>2. \A y \in S : x >= y
  OBVIOUS
<1> QED BY <1>1, <1>2 DEF Max

LEMMA MinIs ==
  ASSUME NEW S \in SUBSET Nat, NEW x \in S, \A y \in S : x <= y
  PROVE  Min(S) = x
<1>1. \A z \in S : (\A y \in S : z <= y) => z = x
  OBVIOUS
<1> QED BY <1>1 DEF Min

-----------------------------------------------------------------------------
(* What an event says *)

\* The data of the lines with some numbers, in a history.
DataOf(history, lines) ==
  [k \in DOMAIN InOrder(lines) |->
     Data(history[InOrder(lines)[k]].is, InOrder(lines)[k])]

\* Data lines in order, with the numbers and the payloads they have in a history.
Assembled(data, lines, history) ==
  /\ \A j, k \in DOMAIN data : j < k => data[j].at < data[k].at
  /\ {data[k].at : k \in DOMAIN data} = lines
  /\ \A k \in DOMAIN data : data[k].is = history[data[k].at].is

LEMMA DataIs ==
  ASSUME NEW data \in Seq(DataType), NEW lines, NEW history, Assembled(data, lines, history)
  PROVE  /\ DataOf(history, lines) = data
         /\ data # <<>> => Min(lines) = Head(data).at
<1> DEFINE n == Len(data)
           d == [k \in 1..n |-> data[k].at]
<1>1. n \in Nat /\ DOMAIN data = 1..n /\ \A k \in 1..n : data[k] \in DataType
  OBVIOUS
<1>2. \A k \in 1..n : d[k] = data[k].at /\ d[k] \in Nat /\ data[k] = Data(data[k].is, data[k].at)
  BY <1>1, LinesAssumption DEF DataType, Data
<1>3. Increasing(n, d)
  BY <1>1, <1>2 DEF Increasing, Assembled
<1>4. lines = {d[k] : k \in 1..n}
  BY <1>1, <1>2 DEF Assembled
<1>5. InOrder(lines) = d
  BY <1>1, <1>3, <1>4, InOrderIs
<1>6. DataOf(history, lines) = data
  <2>1. DOMAIN d = 1..n
    OBVIOUS
  <2> DEFINE o == InOrder(lines)
  <2> HIDE DEF d, o, n
  <2>2. o = d
    BY <1>5 DEF o
  <2>3. DataOf(history, lines) = [k \in 1..n |-> Data(history[d[k]].is, d[k])]
    BY <1>5, <2>1 DEF DataOf
  <2>4. \A k \in 1..n : Data(history[d[k]].is, d[k]) = data[k]
    BY <1>1, <1>2 DEF Assembled
  <2>5. data = [k \in 1..n |-> data[k]]
    BY DEF n
  <2> QED BY <2>3, <2>4, <2>5
<1>7. ASSUME data # <<>> PROVE Min(lines) = Head(data).at
  <2>1. 1 \in 1..n /\ Head(data) = data[1]
    BY <1>7
  <2>2. \A k \in 1..n : d[1] <= d[k]
    BY <1>1, <1>2, <1>3, <2>1 DEF Increasing
  <2>3. lines \in SUBSET Nat /\ d[1] \in lines /\ \A y \in lines : d[1] <= y
    BY <1>2, <1>4, <2>1, <2>2
  <2>4. d[1] = Head(data).at
    BY <1>2, <2>1
  <2> HIDE DEF d
  <2> QED BY <2>3, <2>4, MinIs
<1> QED BY <1>6, <1>7

\* A name is the last of its event's.
NamedBy(name, lines, history) ==
  \/ lines = {} /\ name = ""
  \/ \E m \in lines : (\A i \in lines : i <= m) /\ name = history[m].is

SaysOf(history, names, lines) ==
  AnthropicCall(IF names = {} THEN "" ELSE history[Max(names)].is, DataOf(history, lines))

LEMMA SaysIs ==
  ASSUME NEW history, NEW names \in SUBSET Nat, NEW lines,
         NEW name, NamedBy(name, names, history),
         NEW data \in Seq(DataType), Assembled(data, lines, history)
  PROVE  SaysOf(history, names, lines) = AnthropicCall(name, data)
<1>1. (IF names = {} THEN "" ELSE history[Max(names)].is) = name
  <2>1. CASE names = {}
    BY <2>1 DEF NamedBy
  <2>2. CASE names # {}
    <3>1. PICK m \in names : (\A i \in names : i <= m) /\ name = history[m].is
      BY <2>2 DEF NamedBy
    <3>2. Max(names) = m
      BY <3>1, MaxIs
    <3> QED BY <2>2, <3>1, <3>2
  <2> QED BY <2>1, <2>2
<1>2. DataOf(history, lines) = data
  BY DataIs
<1> QED BY <1>1, <1>2 DEF SaysOf

LEMMA EventSaysOf ==
  ASSUME NEW n
  PROVE  /\ EventSays(n) = SaysOf(read, Of(n, "event"), Of(n, "data"))
         /\ EventSays(n)' = SaysOf(read', Of(n, "event")', Of(n, "data")')
BY DEF EventSays, SaysOf, DataOf

-----------------------------------------------------------------------------
(* What a line more changes *)

LEMMA HistoryStep ==
  ASSUME read \in Seq(Line), NEW line \in Line, read' = Append(read, line)
  PROVE  /\ read' \in Seq(Line) /\ Len(read') = Len(read) + 1
         /\ read'[Len(read) + 1] = line
         /\ \A i \in 1..Len(read) : read'[i] = read[i]
         /\ \A n \in 1..(Len(read) + 1) : First(n)' = First(n)
         /\ (First(Len(read) + 1))' =
              IF line.type = "blank" THEN Len(read) + 2 ELSE First(Len(read) + 1)
<1> DEFINE l == Len(read)
<1>1. /\ read' \in Seq(Line) /\ Len(read') = l + 1 /\ l \in Nat
      /\ read'[l + 1] = line
      /\ \A i \in 1..l : read'[i] = read[i]
  OBVIOUS
<1>2. ASSUME NEW n \in 1..(l + 1) PROVE First(n)' = First(n)
  <2>1. {i \in 1..(n - 1) : read'[i].type = "blank"} = {i \in 1..(n - 1) : read[i].type = "blank"}
    BY <1>1
  <2> QED BY <2>1 DEF First
<1>3. PICK m : m = l + 1
  OBVIOUS
<1>4. (First(Len(read) + 1))' = First(m + 1)'
  <2>1. Len(read') = m
    BY <1>1, <1>3
  <2> QED BY <2>1 DEF First
<1>5. CASE line.type = "blank"
  <2> DEFINE blanks == {i \in 1..((m + 1) - 1) : read'[i].type = "blank"}
  <2>1. m \in blanks /\ blanks \in SUBSET Nat /\ \A i \in blanks : i <= m
    BY <1>1, <1>3, <1>5
  <2> HIDE DEF blanks
  <2>2. Max(blanks) = m
    BY <2>1, MaxIs
  <2>3. First(m + 1)' = m + 1
    BY <2>1, <2>2 DEF First, blanks
  <2> QED BY <1>1, <1>2, <1>3, <1>4, <1>5, <2>3
<1>6. CASE line.type # "blank"
  <2>1. {i \in 1..((m + 1) - 1) : read'[i].type = "blank"} = {i \in 1..(m - 1) : read[i].type = "blank"}
    BY <1>1, <1>3, <1>6
  <2>2. First(m + 1)' = First(m)
    BY <2>1 DEF First
  <2> QED BY <1>1, <1>2, <1>3, <1>4, <1>6, <2>2
<1> QED BY <1>5, <1>6

\* An event begins at one of the lines read, or at the next.
FirstInv == \A n \in 1..(Len(read) + 1) : First(n) \in 1..n

\* The lines of a type in the event that is being read.
OpenLines(type) == {i \in First(Len(read) + 1)..Len(read) : read[i].type = type}

LEMMA FirstInvStep ==
  ASSUME read \in Seq(Line), NEW line \in Line, read' = Append(read, line), FirstInv
  PROVE  FirstInv'
<1>1. Len(read) \in Nat /\ Len(read') = Len(read) + 1
  OBVIOUS
<1>2. ASSUME NEW n \in 1..(Len(read) + 2) PROVE First(n)' \in 1..n
  <2>1. CASE n \in 1..(Len(read) + 1)
    BY <2>1, HistoryStep DEF FirstInv
  <2>2. CASE n = Len(read) + 2
    <3>1. (First(Len(read) + 1))' \in 1..(Len(read) + 2)
      <4>1. First(Len(read) + 1) \in 1..(Len(read) + 1)
        BY <1>1 DEF FirstInv
      <4> QED BY <1>1, <4>1, HistoryStep
    <3>2. (First(Len(read) + 1))' = First(n)'
      <4>1. Len(read') + 1 = n
        BY <1>1, <2>2
      <4> QED BY <4>1 DEF First
    <3> QED BY <2>2, <3>1, <3>2
  <2> QED BY <1>1, <2>1, <2>2
<1> QED BY <1>1, <1>2 DEF FirstInv

\* What was said stays said.
LEMMA SaidStays ==
  ASSUME read \in Seq(Line), NEW line \in Line, read' = Append(read, line), FirstInv
  PROVE  \A n \in 1..Len(read) :
           /\ \A type : Of(n, type)' = Of(n, type)
           /\ EventSays(n)' = EventSays(n)
<1> SUFFICES ASSUME NEW n \in 1..Len(read)
             PROVE  /\ \A type : Of(n, type)' = Of(n, type)
                    /\ EventSays(n)' = EventSays(n)
  OBVIOUS
<1>1. First(n)' = First(n) /\ First(n) \in 1..n /\ \A i \in 1..Len(read) : read'[i] = read[i]
  BY HistoryStep DEF FirstInv
<1>2. ASSUME NEW type
      PROVE  /\ Of(n, type)' = Of(n, type)
             /\ Of(n, type) \subseteq 1..Len(read)
  BY <1>1 DEF Of
<1>3. ASSUME NEW S \in SUBSET (1..Len(read))
      PROVE  S \in SUBSET Nat /\ IsFiniteSet(S)
  <2>1. Len(read) \in Int /\ 1 \in Int
    OBVIOUS
  <2>2. IsFiniteSet(1..Len(read))
    BY <2>1, FS_Interval
  <2>3. 1..Len(read) \subseteq Nat
    OBVIOUS
  <2> QED BY <1>3, <2>2, <2>3, FS_Subset
<1> DEFINE names == Of(n, "event")
           lines == Of(n, "data")
<1>4. /\ names \in SUBSET (1..Len(read)) /\ names \in SUBSET Nat /\ IsFiniteSet(names)
      /\ lines \in SUBSET (1..Len(read)) /\ lines \in SUBSET Nat /\ IsFiniteSet(lines)
  <2>1. names \in SUBSET (1..Len(read)) /\ lines \in SUBSET (1..Len(read))
    BY <1>2
  <2> HIDE DEF names, lines
  <2> QED BY <1>3, <2>1
<1>5. DataOf(read', lines) = DataOf(read, lines)
  <2> HIDE DEF lines
  <2>1. ASSUME NEW k \in DOMAIN InOrder(lines)
        PROVE  read'[InOrder(lines)[k]] = read[InOrder(lines)[k]]
    <3>1. InOrder(lines)[k] \in lines
      BY <1>4, InOrderIn
    <3> QED BY <1>1, <1>4, <3>1
  <2> QED BY <2>1 DEF DataOf
<1>6. names # {} => read'[Max(names)] = read[Max(names)]
  <2> HIDE DEF names
  <2> QED BY <1>1, <1>4, MaxIn
<1>7. SaysOf(read', names, lines) = SaysOf(read, names, lines)
  <2> HIDE DEF names, lines
  <2> QED BY <1>5, <1>6 DEF SaysOf
<1>8. EventSays(n)' = EventSays(n)
  BY <1>2, <1>7, EventSaysOf
<1> QED BY <1>2, <1>8

\* The calls for the events that end with some of the lines read, and with the next one.
LEMMA SaidGrows ==
  ASSUME read \in Seq(Line), NEW line \in Line, read' = Append(read, line), FirstInv,
         NEW E \in SUBSET (1..Len(read)), NEW m, m = Len(read) + 1
  PROVE  /\ SaidUpTo(E)' = SaidUpTo(E)
         /\ SaidUpTo(E \union {m})' =
              SaidUpTo(E) \union
                (IF EventSays(m)' = "none" THEN {}
                 ELSE {Call(EventSays(m)', Min(Of(m, "data")'))})
<1>1. \A n \in E : EventSays(n)' = EventSays(n) /\ Of(n, "data")' = Of(n, "data")
  BY SaidStays
<1>2. SaidUpTo(E)' = SaidUpTo(E)
  BY <1>1 DEF SaidUpTo
<1>3. SaidUpTo(E \union {m})' =
        {Call(EventSays(n)', Min(Of(n, "data")')) :
           n \in {k \in E \union {m} : EventSays(k)' # "none"}}
  BY DEF SaidUpTo
<1>4. SaidUpTo(E) = {Call(EventSays(n)', Min(Of(n, "data")')) :
                       n \in {k \in E : EventSays(k)' # "none"}}
  BY <1>1 DEF SaidUpTo
<1>5. CASE EventSays(m)' = "none"
  <2>1. {k \in E \union {m} : EventSays(k)' # "none"} = {k \in E : EventSays(k)' # "none"}
    BY <1>5
  <2> QED BY <1>2, <1>3, <1>4, <1>5, <2>1
<1>6. CASE EventSays(m)' # "none"
  <2>1. {k \in E \union {m} : EventSays(k)' # "none"} =
          {k \in E : EventSays(k)' # "none"} \union {m}
    BY <1>6
  <2> QED BY <1>2, <1>3, <1>4, <1>6, <2>1, ZenonT(30)
<1> QED BY <1>5, <1>6

-----------------------------------------------------------------------------
(* What is handed on *)

\* The calls for deltas and errors of the stream, which have a line.
Handed == {calls[i] : i \in {j \in DOMAIN calls : calls[j].at # 0}}

OrderInv ==
  \A i, j \in DOMAIN calls :
    i < j /\ calls[i].at # 0 /\ calls[j].at # 0 => calls[i].at < calls[j].at

\* One call more.
LEMMA CallAdded ==
  ASSUME calls \in Seq(CallType), NEW c \in CallType, calls' = Append(calls, c),
         OrderInv, c.at # 0 => \A i \in DOMAIN calls : calls[i].at < c.at
  PROVE  /\ OrderInv'
         /\ Handed' = Handed \union (IF c.at = 0 THEN {} ELSE {c})
         /\ \A i \in DOMAIN calls' : calls'[i].at = c.at \/ \E j \in DOMAIN calls : calls'[i] = calls[j]
<1>1. /\ DOMAIN calls = 1..Len(calls) /\ Len(calls) \in Nat
      /\ DOMAIN calls' = 1..(Len(calls) + 1)
      /\ \A i \in DOMAIN calls : calls'[i] = calls[i]
      /\ calls'[Len(calls) + 1] = c
  OBVIOUS
<1>2. OrderInv'
  BY <1>1 DEF OrderInv
<1>3. Handed' = Handed \union (IF c.at = 0 THEN {} ELSE {c})
  <2>1. \A x : x \in Handed' <=> \E i \in 1..(Len(calls) + 1) : x = calls'[i] /\ calls'[i].at # 0
    BY <1>1 DEF Handed
  <2>2. \A x : x \in Handed <=> \E i \in 1..Len(calls) : x = calls[i] /\ calls[i].at # 0
    BY <1>1 DEF Handed
  <2>3. \A i \in 1..(Len(calls) + 1) : i \in 1..Len(calls) \/ i = Len(calls) + 1
    BY <1>1
  <2>4. Len(calls) + 1 \in 1..(Len(calls) + 1) /\ 1..Len(calls) \subseteq 1..(Len(calls) + 1)
    BY <1>1
  <2>5. \A x : x \in Handed' <=> x \in Handed \/ (x = c /\ c.at # 0)
    BY <1>1, <2>1, <2>2, <2>3, <2>4
  <2> QED BY <2>5
<1>4. \A i \in DOMAIN calls' : calls'[i].at = c.at \/ \E j \in DOMAIN calls : calls'[i] = calls[j]
  BY <1>1
<1> QED BY <1>2, <1>3, <1>4

-----------------------------------------------------------------------------
(* The invariant of EverythingHandedOn *)

\* An Anthropic event may be open.
Open == upstreamProtocol = "anthropic" /\ pc \notin {"done", "returned"}

Blanks == {n \in DOMAIN read : read[n].type = "blank"}

StartInv == pc \in {"build", "connect"} => read = <<>>

\* What is kept of the event that is being read: its last name, and its data in order.
AssemblyInv ==
  Open =>
    /\ NamedBy(eventName, OpenLines("event"), read)
    /\ Assembled(dataLines, OpenLines("data"), read)

\* What was handed on so far: at the end all that was said, and before that, of an
\* Anthropic stream, what the events said that have ended.
SaidSoFar == IF Open THEN SaidUpTo(Blanks) ELSE Said

HandedInv ==
  /\ OrderInv
  /\ Handed = SaidSoFar
  /\ \A i \in DOMAIN calls :
       /\ calls[i].at <= Len(read)
       /\ Open => calls[i].at < First(Len(read) + 1)

StreamInv ==
  /\ StartInv
  /\ FirstInv
  /\ AssemblyInv
  /\ HandedInv

LEMMA OpenStep ==
  ASSUME read \in Seq(Line), NEW line \in Line, read' = Append(read, line), FirstInv,
         NEW type, NEW m, m = Len(read) + 1
  PROVE  /\ OpenLines(type)' = IF line.type = "blank" THEN {}
                               ELSE OpenLines(type) \union
                                      (IF line.type = type THEN {Len(read) + 1} ELSE {})
         /\ OpenLines(type) \subseteq 1..Len(read)
         /\ type # line.type => Of(m, type)' = OpenLines(type)
<1> PICK l : l = Len(read)
  OBVIOUS
<1> PICK f : f = First(l + 1)
  OBVIOUS
<1>1. /\ l \in Nat /\ Len(read') = l + 1 /\ read'[l + 1] = line
      /\ \A i \in 1..l : read'[i] = read[i]
      /\ First(l + 1)' = f /\ f \in 1..(l + 1)
      /\ (First(Len(read) + 1))' = IF line.type = "blank" THEN l + 2 ELSE f
  BY HistoryStep DEF FirstInv
<1>2. OpenLines(type)' =
        {i \in (IF line.type = "blank" THEN l + 2 ELSE f)..(l + 1) : read'[i].type = type}
  BY <1>1 DEF OpenLines
<1>3. OpenLines(type) = {i \in f..l : read[i].type = type}
  BY DEF OpenLines
<1>4. OpenLines(type) \subseteq 1..l
  BY <1>1, <1>3
<1>5. line.type = "blank" => OpenLines(type)' = {}
  <2>1. (l + 2)..(l + 1) = {}
    BY <1>1
  <2> QED BY <1>2, <2>1
<1>6. ASSUME line.type # "blank"
      PROVE  OpenLines(type)' = OpenLines(type) \union (IF line.type = type THEN {l + 1} ELSE {})
  <2>1. \A i \in f..(l + 1) : i \in f..l \/ i = l + 1
    BY <1>1
  <2>2. l + 1 \in f..(l + 1) /\ f..l \subseteq f..(l + 1) /\ f..l \subseteq 1..l
    BY <1>1
  <2>3. {i \in f..(l + 1) : read'[i].type = type} =
          {i \in f..l : read[i].type = type} \union (IF line.type = type THEN {l + 1} ELSE {})
    BY <1>1, <2>1, <2>2
  <2> QED BY <1>2, <1>3, <1>6, <2>3
<1>7. ASSUME type # line.type PROVE Of(l + 1, type)' = OpenLines(type)
  <2>1. Of(l + 1, type)' = {i \in f..(l + 1) : read'[i].type = type}
    BY <1>1 DEF Of
  <2>2. \A i \in f..(l + 1) : i \in f..l \/ i = l + 1
    BY <1>1
  <2>3. f..l \subseteq f..(l + 1) /\ f..l \subseteq 1..l
    BY <1>1
  <2> QED BY <1>1, <1>3, <1>7, <2>1, <2>2, <2>3
<1>8. m = l + 1 /\ l = Len(read)
  BY <1>1
<1> QED BY <1>4, <1>5, <1>6, <1>7, <1>8

\* Where the next event begins, seen from the last line.
LEMMA LastLine ==
  ASSUME read \in Seq(Line), Len(read) > 0, FirstInv
  PROVE  IF read[Len(read)].type = "blank"
         THEN First(Len(read) + 1) = Len(read) + 1
         ELSE /\ First(Len(read) + 1) = First(Len(read))
              /\ \A type : Of(Len(read), type) = OpenLines(type)
<1> PICK l : l = Len(read)
  OBVIOUS
<1>1. l \in Nat /\ l > 0
  OBVIOUS
<1>2. CASE read[l].type = "blank"
  <2> DEFINE blanks == {i \in 1..((l + 1) - 1) : read[i].type = "blank"}
  <2>1. l \in blanks /\ blanks \in SUBSET Nat /\ \A i \in blanks : i <= l
    BY <1>1, <1>2
  <2> HIDE DEF blanks
  <2>2. Max(blanks) = l
    BY <2>1, MaxIs
  <2>3. First(l + 1) = l + 1
    BY <2>1, <2>2 DEF First, blanks
  <2> QED BY <1>2, <2>3
<1>3. CASE read[l].type # "blank"
  <2>1. {i \in 1..((l + 1) - 1) : read[i].type = "blank"} = {i \in 1..(l - 1) : read[i].type = "blank"}
    BY <1>1, <1>3
  <2>2. First(l + 1) = First(l)
    BY <2>1 DEF First
  <2> QED BY <1>3, <2>2 DEF Of, OpenLines
<1> QED BY <1>2, <1>3

LEMMA NothingSaid ==
  \A name, data : data = <<>> => AnthropicCall(name, data) = "none"
<1> SUFFICES ASSUME NEW name, NEW data, data = <<>> PROVE AnthropicCall(name, data) = "none"
  OBVIOUS
<1>1. data = <<>> \/ Unmarshal(data) = "no JSON"
  OBVIOUS
<1> QED BY <1>1, SMT DEF AnthropicCall

\* An event that ends is handed on, if it says something.
LEMMA ProcessHands ==
  ASSUME read \in Seq(Line), calls \in Seq(CallType), dataLines \in Seq(DataType),
         FirstInv, AssemblyInv, HandedInv, Open, ProcessEvent,
         NEW what, what = AnthropicCall(eventName, dataLines)
  PROVE  /\ OrderInv'
         /\ Handed' = Handed \union
                        (IF what = "none" THEN {} ELSE {Call(what, Min(OpenLines("data")))})
         /\ \A i \in DOMAIN calls' : calls'[i].at <= Len(read)
         /\ dataLines' = <<>>
         /\ what # "none" => dataLines # <<>>
<1>1. dataLines' = <<>> /\ (dataLines = <<>> => what = "none")
  <2> QED BY NothingSaid DEF ProcessEvent
<1>2. what \in {"text", "thinking", "error", "none"}
  BY DEF AnthropicCall
<1>3. CASE calls' = calls /\ what = "none"
  BY <1>1, <1>3 DEF HandedInv, OrderInv, Handed
<1>4. CASE what # "none"
  <2> PICK at : at = Head(dataLines).at
    OBVIOUS
  <2>1. dataLines # <<>> /\ calls' = Append(calls, Call(what, at))
    BY <1>1, <1>4 DEF ProcessEvent, Make
  <2>2. Min(OpenLines("data")) = at
    BY <2>1, DataIs DEF AssemblyInv
  <2>3. at \in OpenLines("data")
    <3>1. 1 \in DOMAIN dataLines /\ Head(dataLines) = dataLines[1]
      BY <2>1
    <3> QED BY <3>1 DEF AssemblyInv, Assembled
  <2>4. First(Len(read) + 1) \in 1..(Len(read) + 1) /\ Len(read) \in Nat
    BY DEF FirstInv
  <2>5. at \in First(Len(read) + 1)..Len(read)
    BY <2>3 DEF OpenLines
  <2>6. at \in 1..MaxLines
    <3>1. Head(dataLines) \in DataType
      BY <2>1
    <3> QED BY <3>1 DEF DataType
  <2>7. Call(what, at) \in CallType /\ Call(what, at).at = at /\ at # 0
    BY <1>2, <1>4, <2>6, LinesAssumption DEF Call, CallType, Kinds
  <2>8. \A i \in DOMAIN calls : calls[i].at \in Nat /\ calls[i].at < at /\ calls[i].at <= Len(read)
    <3>1. \A i \in DOMAIN calls : calls[i] \in CallType
      OBVIOUS
    <3>2. \A i \in DOMAIN calls : calls[i].at \in Nat
      BY <3>1, LinesAssumption DEF CallType
    <3> QED BY <2>4, <2>5, <3>2 DEF HandedInv
  <2>9. /\ OrderInv'
        /\ Handed' = Handed \union {Call(what, at)}
        /\ \A i \in DOMAIN calls' : calls'[i].at = at \/ \E j \in DOMAIN calls : calls'[i] = calls[j]
    BY <2>1, <2>7, <2>8, CallAdded DEF HandedInv
  <2>10. \A i \in DOMAIN calls' : calls'[i].at <= Len(read)
    BY <2>4, <2>5, <2>8, <2>9
  <2> QED BY <1>1, <1>4, <2>1, <2>2, <2>9, <2>10
<1>5. what = "none" => calls' = calls
  BY DEF ProcessEvent, Make
<1> QED BY <1>3, <1>4, <1>5

LEMMA Typed ==
  /\ TypeOK => /\ calls \in Seq(CallType) /\ dataLines \in Seq(DataType)
               /\ read \in Seq(Line) /\ upstreamProtocol \in {"responses", "anthropic"}
  /\ TypeOK' => calls' \in Seq(CallType) /\ dataLines' \in Seq(DataType) /\ read' \in Seq(Line)
BY DEF TypeOK, CallType, Kinds, DataType

\* No line more: nothing more was said.
LEMMA SameHistory ==
  ASSUME read' = read
  PROVE  /\ \A n : First(n)' = First(n)
         /\ (First(Len(read) + 1))' = First(Len(read) + 1)
         /\ FirstInv' <=> FirstInv
         /\ \A n : \A type : Of(n, type)' = Of(n, type)
         /\ \A type : OpenLines(type)' = OpenLines(type)
         /\ \A n : EventSays(n)' = EventSays(n)
         /\ \A E : SaidUpTo(E)' = SaidUpTo(E)
         /\ Blanks' = Blanks
         /\ upstreamProtocol' = upstreamProtocol => Said' = Said
<1>1. \A n : First(n)' = First(n)
  BY DEF First
<1>2. (First(Len(read) + 1))' = First(Len(read) + 1)
  BY DEF First
<1>3. \A n : \A type : Of(n, type)' = Of(n, type)
  BY <1>1 DEF Of
<1>4. \A type : OpenLines(type)' = OpenLines(type)
  BY <1>2 DEF OpenLines
<1>5. \A n : EventSays(n)' = EventSays(n)
  <2> SUFFICES ASSUME NEW n PROVE EventSays(n)' = EventSays(n)
    OBVIOUS
  <2>1. Of(n, "event")' = Of(n, "event") /\ Of(n, "data")' = Of(n, "data")
    BY <1>3
  <2>2. /\ EventSays(n) = SaysOf(read, Of(n, "event"), Of(n, "data"))
        /\ EventSays(n)' = SaysOf(read', Of(n, "event")', Of(n, "data")')
    BY EventSaysOf
  <2> QED BY <2>1, <2>2
<1>6. \A E : SaidUpTo(E)' = SaidUpTo(E)
  BY <1>3, <1>5 DEF SaidUpTo
<1>7. Blanks' = Blanks
  BY DEF Blanks
<1>8. ASSUME upstreamProtocol' = upstreamProtocol PROVE Said' = Said
  <2> DEFINE ends == {n \in DOMAIN read : read[n].type = "blank" \/ n = Len(read)}
  <2>1. PICK E : E = ends
    OBVIOUS
  <2>2. ends' = E /\ SaidUpTo(E)' = SaidUpTo(E)
    BY <1>6, <2>1
  <2>3. SaidUpTo(ends)' = SaidUpTo(ends)
    BY <1>3, <1>5 DEF SaidUpTo
  <2> QED BY <1>8, <2>3 DEF Said
<1>9. FirstInv' <=> FirstInv
  BY <1>1 DEF FirstInv
<1> QED BY <1>1, <1>2, <1>3, <1>4, <1>5, <1>6, <1>7, <1>8, <1>9

\* A step that reads nothing and hands nothing on, where the event that is open
\* does not end.
LEMMA QuietStep ==
  ASSUME TypeOK, TypeOK', StreamInv, StartInv',
         read' = read, upstreamProtocol' = upstreamProtocol,
         eventName' = eventName, dataLines' = dataLines,
         calls' = calls \/ \E kind : calls' = Append(calls, Call(kind, 0)),
         Open' = Open \/ (read = <<>> /\ ~Open')
  PROVE  StreamInv'
<1>1. Open' => Open
  OBVIOUS
<1>2. AssemblyInv'
  BY <1>1, SameHistory DEF StreamInv, AssemblyInv
<1>3. SaidSoFar' = SaidSoFar
  <2>1. CASE Open' = Open
    BY <2>1, SameHistory DEF SaidSoFar
  <2>2. CASE read = <<>>
    <3>1. Blanks = {} /\ DOMAIN read = {}
      BY <2>2 DEF Blanks
    <3>2. Said = {} /\ SaidUpTo(Blanks) = {}
      BY <3>1 DEF Said, SaidUpTo
    <3> QED BY <3>2, SameHistory DEF SaidSoFar
  <2> QED BY <2>1, <2>2
<1>4. /\ OrderInv' /\ Handed' = Handed
      /\ \A i \in DOMAIN calls' : calls'[i].at = 0 \/ \E j \in DOMAIN calls : calls'[i] = calls[j]
  <2>1. CASE calls' = calls
    BY <2>1 DEF StreamInv, HandedInv, OrderInv, Handed
  <2>2. CASE \E kind : calls' = Append(calls, Call(kind, 0))
    <3>1. PICK kind : calls' = Append(calls, Call(kind, 0))
      BY <2>2
    <3>2. calls \in Seq(CallType) /\ calls' \in Seq(CallType)
      BY Typed
    <3>3. Len(calls') \in DOMAIN calls' /\ calls'[Len(calls')] = Call(kind, 0)
      BY <3>1, <3>2
    <3>4. Call(kind, 0) \in CallType /\ Call(kind, 0).at = 0
      BY <3>2, <3>3 DEF Call
    <3>5. OrderInv
      BY DEF StreamInv, HandedInv
    <3> QED BY <3>1, <3>2, <3>4, <3>5, CallAdded
  <2> QED BY <2>1, <2>2
<1>5. \A i \in DOMAIN calls' :
        calls'[i].at <= Len(read) /\ (Open => calls'[i].at < First(Len(read) + 1))
  <2>1. Len(read) \in Nat /\ First(Len(read) + 1) \in 1..(Len(read) + 1)
    BY Typed DEF StreamInv, FirstInv
  <2>2. \A i \in DOMAIN calls :
          calls[i].at <= Len(read) /\ (Open => calls[i].at < First(Len(read) + 1))
    BY DEF StreamInv, HandedInv
  <2> QED BY <1>4, <2>1, <2>2
<1>6. HandedInv'
  BY <1>1, <1>3, <1>4, <1>5, SameHistory DEF StreamInv, HandedInv
<1> QED BY <1>2, <1>6, SameHistory DEF StreamInv

\* A Responses event is the line that was read.
LEMMA ResponsesLineStep ==
  ASSUME TypeOK, TypeOK', StreamInv, NEW line \in Line, NEW next \in Then,
         ResponsesLine(line, next)
  PROVE  StreamInv'
<1> PICK m : m = Len(read) + 1
  OBVIOUS
<1> DEFINE heard == line.type = "data" /\ line.is \in {"text", "thinking", "error"}
           c == Call(line.is, m)
<1>1. /\ read \in Seq(Line) /\ calls \in Seq(CallType) /\ calls' \in Seq(CallType)
      /\ read' = Append(read, line) /\ pc' \in Then
      /\ upstreamProtocol = "responses" /\ upstreamProtocol' = "responses"
      /\ FirstInv /\ OrderInv
  BY Typed DEF ResponsesLine, ReadLine, StreamInv, HandedInv
<1>2. /\ DOMAIN read = 1..Len(read) /\ DOMAIN read' = 1..m /\ Len(read) \in Nat
      /\ Len(read') = m /\ read'[m] = line /\ \A i \in 1..Len(read) : read'[i] = read[i]
  BY <1>1
<1>3. ~Open /\ ~Open'
  BY <1>1 DEF Open
<1>4. Said' = Said \union (IF heard THEN {c} ELSE {})
  <2> DEFINE H(r) == {n \in DOMAIN r : r[n].type = "data" /\ r[n].is \in {"text", "thinking", "error"}}
  <2>1. H(read') = H(read) \union (IF heard THEN {m} ELSE {})
    BY <1>2
  <2>2. Said = {Call(read[n].is, n) : n \in H(read)}
        /\ Said' = {Call(read'[n].is, n) : n \in H(read')}
    BY <1>1 DEF Said
  <2>3. \A n \in H(read) : read'[n] = read[n]
    BY <1>2
  <2> HIDE DEF H
  <2>4. CASE heard
    <3>1. H(read') = H(read) \union {m}
      BY <2>1, <2>4
    <3> QED BY <1>2, <2>2, <2>3, <2>4, <3>1
  <2>5. CASE ~heard
    <3>1. H(read') = H(read)
      BY <2>1, <2>5
    <3> QED BY <2>2, <2>3, <2>5, <3>1
  <2> QED BY <2>4, <2>5
<1>5. IF heard THEN calls' = Append(calls, c) ELSE calls' = calls
  BY <1>2 DEF ResponsesLine, Make, ResponsesCall
<1>6. \A i \in DOMAIN calls : calls[i].at <= Len(read) /\ calls[i].at \in Nat
  <2>1. \A i \in DOMAIN calls : calls[i] \in CallType
    BY <1>1
  <2> QED BY <2>1, LinesAssumption DEF StreamInv, HandedInv, CallType
<1>7. /\ OrderInv' /\ Handed' = Handed \union (IF heard THEN {c} ELSE {})
      /\ \A i \in DOMAIN calls' : calls'[i].at <= m
  <2>1. CASE heard
    <3>1. calls' = Append(calls, c)
      BY <1>5, <2>1
    <3>2. Len(calls') \in DOMAIN calls' /\ calls'[Len(calls')] = c
      BY <1>1, <3>1
    <3>3. c \in CallType /\ c.at = m /\ m # 0
      BY <1>1, <1>2, <3>2 DEF Call
    <3>4. \A i \in DOMAIN calls : calls[i].at < c.at
      BY <1>2, <1>6, <3>3
    <3>5. /\ OrderInv' /\ Handed' = Handed \union {c}
          /\ \A i \in DOMAIN calls' : calls'[i].at = m \/ \E j \in DOMAIN calls : calls'[i] = calls[j]
      <4> HIDE DEF c
      <4> QED BY <1>1, <3>1, <3>3, <3>4, CallAdded
    <3> QED BY <1>2, <1>6, <2>1, <3>5
  <2>2. CASE ~heard
    <3>1. calls' = calls
      BY <1>5, <2>2
    <3> QED BY <1>1, <1>2, <1>6, <2>2, <3>1 DEF OrderInv, Handed
  <2> QED BY <2>1, <2>2
<1>8. HandedInv'
  <2>1. SaidSoFar = Said /\ SaidSoFar' = Said'
    BY <1>3 DEF SaidSoFar
  <2>2. Handed = Said
    BY <2>1 DEF StreamInv, HandedInv
  <2> HIDE DEF c, heard
  <2> QED BY <1>2, <1>3, <1>4, <1>7, <2>1, <2>2 DEF HandedInv
<1>9. StartInv' /\ AssemblyInv'
  BY <1>1, <1>3 DEF StartInv, AssemblyInv, Then
<1>10. FirstInv'
  BY <1>1, FirstInvStep
<1> QED BY <1>8, <1>9, <1>10 DEF StreamInv

-----------------------------------------------------------------------------
(* The lines of an Anthropic stream *)

\* What is kept of an event is the same in a history with a line more.
LEMMA AssemblyKept ==
  ASSUME read \in Seq(Line), NEW line \in Line, read' = Append(read, line),
         NEW names \in SUBSET (1..Len(read)), NEW lines \in SUBSET (1..Len(read)),
         NEW name, NamedBy(name, names, read), NEW data, Assembled(data, lines, read)
  PROVE  NamedBy(name, names, read') /\ Assembled(data, lines, read')
<1>1. \A i \in 1..Len(read) : read'[i] = read[i]
  OBVIOUS
<1>2. NamedBy(name, names, read')
  BY <1>1 DEF NamedBy
<1>3. \A k \in DOMAIN data : data[k].at \in lines
  BY DEF Assembled
<1>4. Assembled(data, lines, read')
  BY <1>1, <1>3 DEF Assembled
<1> QED BY <1>2, <1>4

LEMMA SaidWith ==
  ASSUME NEW E, NEW m
  PROVE  SaidUpTo(E \union {m}) =
           SaidUpTo(E) \union
             (IF EventSays(m) = "none" THEN {} ELSE {Call(EventSays(m), Min(Of(m, "data")))})
<1>1. CASE EventSays(m) = "none"
  <2>1. {k \in E \union {m} : EventSays(k) # "none"} = {k \in E : EventSays(k) # "none"}
    BY <1>1
  <2> QED BY <1>1, <2>1 DEF SaidUpTo
<1>2. CASE EventSays(m) # "none"
  <2>1. {k \in E \union {m} : EventSays(k) # "none"} =
          {k \in E : EventSays(k) # "none"} \union {m}
    BY <1>2
  <2> QED BY <1>2, <2>1 DEF SaidUpTo
<1> QED BY <1>1, <1>2

\* A line of an Anthropic stream, whatever it is.
LEMMA AnthropicLineFacts ==
  ASSUME TypeOK, TypeOK', StreamInv, NEW line \in Line, NEW next \in Then,
         AnthropicLine(line, next)
  PROVE  /\ read \in Seq(Line) /\ calls \in Seq(CallType) /\ dataLines \in Seq(DataType)
         /\ calls' \in Seq(CallType) /\ dataLines' \in Seq(DataType)
         /\ read' = Append(read, line) /\ Open /\ Open' /\ StartInv' /\ FirstInv'
         /\ Len(read) \in Nat /\ Len(read') = Len(read) + 1
         /\ Blanks \in SUBSET (1..Len(read))
         /\ \A m : m = Len(read) + 1 =>
              Blanks' = Blanks \union (IF line.type = "blank" THEN {m} ELSE {})
         /\ NamedBy(eventName, OpenLines("event"), read')
         /\ Assembled(dataLines, OpenLines("data"), read')
<1>1. /\ read \in Seq(Line) /\ calls \in Seq(CallType) /\ dataLines \in Seq(DataType)
      /\ calls' \in Seq(CallType) /\ dataLines' \in Seq(DataType)
  BY Typed
<1>2. /\ read' = Append(read, line) /\ upstreamProtocol = "anthropic" /\ pc = "read"
      /\ pc' \in Then /\ upstreamProtocol' = "anthropic"
  BY DEF AnthropicLine, ReadLine
<1>3. Open /\ Open' /\ StartInv'
  BY <1>2 DEF Open, StartInv, Then
<1>4. FirstInv'
  BY <1>1, <1>2, FirstInvStep DEF StreamInv
<1>5. /\ Len(read) \in Nat /\ Len(read') = Len(read) + 1
      /\ DOMAIN read = 1..Len(read) /\ DOMAIN read' = 1..(Len(read) + 1)
      /\ read'[Len(read) + 1] = line /\ \A i \in 1..Len(read) : read'[i] = read[i]
  BY <1>1, <1>2
<1>6. Blanks \in SUBSET (1..Len(read))
  BY <1>5 DEF Blanks
<1>7. \A m : m = Len(read) + 1 =>
        Blanks' = Blanks \union (IF line.type = "blank" THEN {m} ELSE {})
  BY <1>5 DEF Blanks
<1>8. OpenLines("event") \in SUBSET (1..Len(read)) /\ OpenLines("data") \in SUBSET (1..Len(read))
  <2>1. First(Len(read) + 1) \in 1..(Len(read) + 1)
    BY <1>5 DEF StreamInv, FirstInv
  <2> QED BY <1>5, <2>1 DEF OpenLines
<1>9. NamedBy(eventName, OpenLines("event"), read') /\ Assembled(dataLines, OpenLines("data"), read')
  <2>1. NamedBy(eventName, OpenLines("event"), read) /\ Assembled(dataLines, OpenLines("data"), read)
    BY <1>3 DEF StreamInv, AssemblyInv
  <2> QED BY <1>1, <1>2, <1>8, <2>1, AssemblyKept
<1> QED BY <1>1, <1>2, <1>3, <1>4, <1>5, <1>6, <1>7, <1>9

\* A blank line ends the event.
LEMMA AnthropicBlankStep ==
  ASSUME TypeOK, TypeOK', StreamInv, NEW line \in Line, NEW next \in Then,
         AnthropicLine(line, next), line.type = "blank"
  PROVE  StreamInv'
<1> PICK m : m = Len(read) + 1
  OBVIOUS
<1> PICK what : what = AnthropicCall(eventName, dataLines)
  OBVIOUS
<1> PICK data : data = OpenLines("data")
  OBVIOUS
<1>1. /\ read \in Seq(Line) /\ calls \in Seq(CallType) /\ dataLines \in Seq(DataType)
      /\ read' = Append(read, line) /\ Open /\ Open' /\ StartInv' /\ FirstInv'
      /\ Len(read) \in Nat /\ Len(read') = Len(read) + 1
      /\ Blanks \in SUBSET (1..Len(read)) /\ Blanks' = Blanks \union {m}
      /\ NamedBy(eventName, OpenLines("event"), read')
      /\ Assembled(dataLines, OpenLines("data"), read')
  BY AnthropicLineFacts
<1>2. ProcessEvent /\ eventName' = ""
  BY DEF AnthropicLine
<1>3. FirstInv /\ AssemblyInv /\ HandedInv
  BY DEF StreamInv
<1>4. /\ OrderInv'
      /\ Handed' = Handed \union (IF what = "none" THEN {} ELSE {Call(what, Min(data))})
      /\ \A i \in DOMAIN calls' : calls'[i].at <= Len(read)
      /\ dataLines' = <<>>
  BY <1>1, <1>2, <1>3, ProcessHands
<1>5. \A type : /\ OpenLines(type)' = {}
                /\ OpenLines(type) \in SUBSET Nat
                /\ type # "blank" => Of(m, type)' = OpenLines(type)
  <2> SUFFICES ASSUME NEW type
               PROVE  /\ OpenLines(type)' = {}
                      /\ OpenLines(type) \in SUBSET Nat
                      /\ type # "blank" => Of(m, type)' = OpenLines(type)
    OBVIOUS
  <2>1. /\ OpenLines(type)' = {} /\ OpenLines(type) \subseteq 1..Len(read)
        /\ type # line.type => Of(m, type)' = OpenLines(type)
    BY <1>1, <1>3, OpenStep
  <2> QED BY <1>1, <2>1
<1>6. EventSays(m)' = what /\ Of(m, "data")' = data
  <2>1. Of(m, "event")' = OpenLines("event") /\ Of(m, "data")' = OpenLines("data")
    BY <1>5
  <2>2. EventSays(m)' = SaysOf(read', OpenLines("event"), OpenLines("data"))
    BY <2>1, EventSaysOf
  <2>3. SaysOf(read', OpenLines("event"), OpenLines("data")) = what
    BY <1>1, <1>5, SaysIs
  <2> QED BY <2>1, <2>2, <2>3
<1>7. Handed' = SaidSoFar'
  <2>1. PICK E \in SUBSET (1..Len(read)) : E = Blanks
    BY <1>1
  <2>2. Handed = SaidUpTo(E)
    BY <1>1, <1>3, <2>1 DEF HandedInv, SaidSoFar
  <2>3. SaidUpTo(E \union {m})' =
          SaidUpTo(E) \union
            (IF EventSays(m)' = "none" THEN {} ELSE {Call(EventSays(m)', Min(Of(m, "data")'))})
    BY <1>1, <1>3, SaidGrows
  <2>4. SaidUpTo(E \union {m})' = Handed'
    BY <1>4, <1>6, <2>2, <2>3
  <2>5. SaidSoFar' = SaidUpTo(E \union {m})'
    BY <1>1, <2>1 DEF SaidSoFar, SaidUpTo
  <2> QED BY <2>4, <2>5
<1>8. HandedInv'
  <2>1. (First(Len(read) + 1))' = Len(read) + 2
    BY <1>1, HistoryStep
  <2>2. \A i \in DOMAIN calls' : calls'[i].at \in Nat
    <3>1. calls' \in Seq(CallType)
      BY Typed
    <3>2. \A i \in DOMAIN calls' : calls'[i] \in CallType
      BY <3>1
    <3> QED BY <3>2, LinesAssumption DEF CallType
  <2> QED BY <1>1, <1>4, <1>7, <2>1, <2>2 DEF HandedInv
<1>9. AssemblyInv'
  <2>1. NamedBy(eventName', OpenLines("event")', read')
    BY <1>2, <1>5 DEF NamedBy
  <2>2. Assembled(dataLines', OpenLines("data")', read')
    <3>1. DOMAIN <<>> = {}
      OBVIOUS
    <3>2. DOMAIN dataLines' = {}
      BY <1>4, <3>1
    <3> QED BY <1>5, <3>2 DEF Assembled
  <2> QED BY <2>1, <2>2 DEF AssemblyInv
<1> QED BY <1>1, <1>8, <1>9 DEF StreamInv

\* What a line within an event leaves as it is.
LEMMA AnthropicLineKeeps ==
  ASSUME TypeOK, TypeOK', StreamInv, NEW line \in Line, NEW next \in Then,
         AnthropicLine(line, next), line.type # "blank", calls' = calls
  PROVE  HandedInv'
<1>1. /\ read \in Seq(Line) /\ read' = Append(read, line) /\ Open /\ Open'
      /\ calls \in Seq(CallType)
      /\ Len(read) \in Nat /\ Len(read') = Len(read) + 1
      /\ Blanks \in SUBSET (1..Len(read)) /\ Blanks' = Blanks
  BY AnthropicLineFacts
<1>2. FirstInv /\ HandedInv
  BY DEF StreamInv
<1>3. SaidSoFar' = SaidSoFar
  <2>1. PICK E \in SUBSET (1..Len(read)) : E = Blanks
    BY <1>1
  <2>2. PICK m : m = Len(read) + 1
    OBVIOUS
  <2>3. SaidUpTo(E)' = SaidUpTo(E)
    BY <1>1, <1>2, <2>2, SaidGrows
  <2>4. SaidSoFar' = SaidUpTo(E)' /\ SaidSoFar = SaidUpTo(E)
    BY <1>1, <2>1 DEF SaidSoFar, SaidUpTo
  <2> QED BY <2>3, <2>4
<1>4. (First(Len(read) + 1))' = First(Len(read) + 1)
  BY <1>1, HistoryStep
<1>5. OrderInv' /\ Handed' = Handed
  BY <1>2 DEF HandedInv, OrderInv, Handed
<1>6. \A i \in DOMAIN calls : calls[i].at \in Nat
  <2>1. \A i \in DOMAIN calls : calls[i] \in CallType
    BY <1>1
  <2> QED BY <2>1, LinesAssumption DEF CallType
<1> QED BY <1>1, <1>2, <1>3, <1>4, <1>5, <1>6 DEF HandedInv

\* The last name of an event is its name.
LEMMA AnthropicEventStep ==
  ASSUME TypeOK, TypeOK', StreamInv, NEW line \in Line, NEW next \in Then,
         AnthropicLine(line, next), line.type = "event"
  PROVE  StreamInv'
<1> PICK m : m = Len(read) + 1
  OBVIOUS
<1>1. /\ read \in Seq(Line) /\ read' = Append(read, line) /\ StartInv' /\ FirstInv'
      /\ Len(read) \in Nat /\ Len(read') = Len(read) + 1
      /\ Assembled(dataLines, OpenLines("data"), read')
  BY AnthropicLineFacts
<1>2. eventName' = line.is /\ dataLines' = dataLines /\ calls' = calls
  BY DEF AnthropicLine
<1>3. HandedInv'
  BY <1>2, AnthropicLineKeeps
<1>4. /\ OpenLines("event")' = OpenLines("event") \union {m}
      /\ OpenLines("data")' = OpenLines("data")
      /\ OpenLines("event") \subseteq 1..Len(read)
  <2>1. FirstInv
    BY DEF StreamInv
  <2>2. /\ OpenLines("event")' = OpenLines("event") \union {Len(read) + 1}
        /\ OpenLines("event") \subseteq 1..Len(read)
    BY <1>1, <2>1, OpenStep
  <2>3. OpenLines("data")' = OpenLines("data")
    BY <1>1, <2>1, OpenStep
  <2> QED BY <2>2, <2>3
<1>5. read'[m] = line /\ \A i \in OpenLines("event") \union {m} : i <= m
  BY <1>1, <1>4
<1>6. AssemblyInv'
  <2>1. NamedBy(eventName', OpenLines("event")', read')
    BY <1>2, <1>4, <1>5 DEF NamedBy
  <2>2. Assembled(dataLines', OpenLines("data")', read')
    BY <1>1, <1>2, <1>4
  <2> QED BY <2>1, <2>2 DEF AssemblyInv
<1> QED BY <1>1, <1>3, <1>6 DEF StreamInv

\* A data line is added to those of its event.
LEMMA AnthropicDataStep ==
  ASSUME TypeOK, TypeOK', StreamInv, NEW line \in Line, NEW next \in Then,
         AnthropicLine(line, next), line.type = "data"
  PROVE  StreamInv'
<1> PICK m : m = Len(read) + 1
  OBVIOUS
<1>1. /\ read \in Seq(Line) /\ read' = Append(read, line) /\ StartInv' /\ FirstInv'
      /\ dataLines \in Seq(DataType)
      /\ Len(read) \in Nat /\ Len(read') = Len(read) + 1
      /\ NamedBy(eventName, OpenLines("event"), read')
      /\ Assembled(dataLines, OpenLines("data"), read')
  BY AnthropicLineFacts
<1>2. /\ dataLines' = Append(dataLines, Data(line.is, m))
      /\ eventName' = eventName /\ calls' = calls
  BY <1>1 DEF AnthropicLine
<1>3. HandedInv'
  BY <1>2, AnthropicLineKeeps
<1>4. /\ OpenLines("event")' = OpenLines("event")
      /\ OpenLines("data")' = OpenLines("data") \union {m}
      /\ OpenLines("data") \subseteq 1..Len(read)
  <2>1. FirstInv
    BY DEF StreamInv
  <2>2. /\ OpenLines("data")' = OpenLines("data") \union {Len(read) + 1}
        /\ OpenLines("data") \subseteq 1..Len(read)
    BY <1>1, <2>1, OpenStep
  <2>3. OpenLines("event")' = OpenLines("event")
    BY <1>1, <2>1, OpenStep
  <2> QED BY <2>2, <2>3
<1>5. AssemblyInv'
  <2> DEFINE k == Len(dataLines) + 1
             lines == OpenLines("data")
  <2>1. /\ DOMAIN dataLines = 1..Len(dataLines) /\ Len(dataLines) \in Nat
        /\ DOMAIN dataLines' = 1..k
        /\ dataLines'[k].at = m /\ dataLines'[k].is = line.is
        /\ \A j \in 1..Len(dataLines) : dataLines'[j] = dataLines[j]
    BY <1>1, <1>2 DEF Data
  <2>2. /\ \A i, j \in DOMAIN dataLines : i < j => dataLines[i].at < dataLines[j].at
        /\ {dataLines[j].at : j \in DOMAIN dataLines} = lines
        /\ \A j \in DOMAIN dataLines : dataLines[j].is = read'[dataLines[j].at].is
    BY <1>1 DEF Assembled
  <2>3. \A j \in DOMAIN dataLines : dataLines[j].at \in 1..Len(read)
    BY <1>4, <2>2
  <2>4. read'[m] = line
    BY <1>1
  <2> HIDE DEF lines
  <2>5. \A i, j \in DOMAIN dataLines' : i < j => dataLines'[i].at < dataLines'[j].at
    BY <1>1, <2>1, <2>2, <2>3
  <2>6. {dataLines'[j].at : j \in DOMAIN dataLines'} = lines \union {m}
    <3>1. \A x : x \in lines <=> \E j \in 1..Len(dataLines) : x = dataLines[j].at
      BY <2>1, <2>2
    <3>2. \A j \in 1..k : j \in 1..Len(dataLines) \/ j = k
      BY <2>1
    <3>3. k \in 1..k /\ 1..Len(dataLines) \subseteq 1..k
      BY <2>1
    <3> HIDE DEF k
    <3>4. \A x : (\E j \in 1..k : x = dataLines'[j].at) <=> x \in lines \union {m}
      BY <2>1, <3>1, <3>2, <3>3
    <3> QED BY <2>1, <3>4
  <2>7. \A j \in DOMAIN dataLines' : dataLines'[j].is = read'[dataLines'[j].at].is
    BY <2>1, <2>2, <2>4
  <2>8. Assembled(dataLines', OpenLines("data")', read')
    BY <1>4, <2>5, <2>6, <2>7 DEF Assembled, lines
  <2> QED BY <1>1, <1>2, <1>4, <2>8 DEF AssemblyInv
<1> QED BY <1>1, <1>3, <1>5 DEF StreamInv

\* The end of an Anthropic stream ends the event that is open.
LEMMA AnthropicFlushStep ==
  ASSUME TypeOK, TypeOK', StreamInv, Flush, upstreamProtocol = "anthropic"
  PROVE  StreamInv'
<1> PICK what : what = AnthropicCall(eventName, dataLines)
  OBVIOUS
<1> PICK data : data = OpenLines("data")
  OBVIOUS
<1> PICK l : l = Len(read)
  OBVIOUS
<1>1. /\ read \in Seq(Line) /\ calls \in Seq(CallType) /\ dataLines \in Seq(DataType)
      /\ calls' \in Seq(CallType)
  BY Typed
<1>2. /\ read' = read /\ upstreamProtocol' = "anthropic" /\ pc = "flush" /\ pc' = "done"
      /\ ProcessEvent
  BY DEF Flush
<1>3. Open /\ ~Open' /\ StartInv' /\ AssemblyInv' /\ FirstInv'
  <2>1. FirstInv'
    BY <1>2, SameHistory DEF StreamInv
  <2> QED BY <1>2, <2>1 DEF Open, StartInv, AssemblyInv
<1>4. /\ FirstInv /\ AssemblyInv /\ HandedInv
      /\ NamedBy(eventName, OpenLines("event"), read) /\ Assembled(dataLines, data, read)
  BY <1>3 DEF StreamInv, AssemblyInv
<1>5. /\ OrderInv'
      /\ Handed' = Handed \union (IF what = "none" THEN {} ELSE {Call(what, Min(data))})
      /\ \A i \in DOMAIN calls' : calls'[i].at <= Len(read)
      /\ what # "none" => dataLines # <<>>
  BY <1>1, <1>2, <1>3, <1>4, ProcessHands
<1>6. Handed = SaidUpTo(Blanks)
  BY <1>3, <1>4 DEF HandedInv, SaidSoFar
<1>7. DOMAIN read = 1..l /\ l \in Nat
  BY <1>1
<1>8. data = {} => what = "none"
  <2>1. ASSUME dataLines # <<>> PROVE data # {}
    <3>1. 1 \in DOMAIN dataLines
      BY <1>1, <2>1
    <3> QED BY <1>4, <3>1 DEF Assembled
  <2> QED BY <1>5, <2>1
<1>9. CASE l = 0 \/ read[l].type = "blank"
  <2>1. data = {}
    <3>1. CASE l = 0
      BY <1>4, <1>7, <3>1 DEF OpenLines, FirstInv
    <3>2. CASE l # 0 /\ read[l].type = "blank"
      <4>1. First(Len(read) + 1) = l + 1
        BY <1>1, <1>4, <1>7, <3>2, LastLine
      <4>2. (l + 1)..l = {}
        BY <1>7
      <4> QED BY <4>1, <4>2 DEF OpenLines
    <3> QED BY <1>9, <3>1, <3>2
  <2>2. {n \in DOMAIN read : read[n].type = "blank" \/ n = Len(read)} = Blanks
    BY <1>7, <1>9 DEF Blanks
  <2>3. Said = SaidUpTo(Blanks)
    BY <2>2 DEF Said
  <2>4. Handed' = Said
    BY <1>5, <1>6, <1>8, <2>1, <2>3
  <2> QED BY <1>2, <1>3, <1>5, <2>4, SameHistory DEF StreamInv, HandedInv, SaidSoFar
<1>10. CASE l # 0 /\ read[l].type # "blank"
  <2>1. \A type : Of(l, type) = OpenLines(type)
    BY <1>1, <1>4, <1>7, <1>10, LastLine
  <2>2. OpenLines("event") \in SUBSET Nat
    <3>1. First(Len(read) + 1) \in 1..(Len(read) + 1)
      BY <1>4, <1>7 DEF FirstInv
    <3> QED BY <1>7, <3>1 DEF OpenLines
  <2>3. EventSays(l) = what
    <3>1. EventSays(l) = SaysOf(read, OpenLines("event"), OpenLines("data"))
      BY <2>1, EventSaysOf
    <3> QED BY <1>1, <1>4, <2>2, <3>1, SaysIs
  <2>4. {n \in DOMAIN read : read[n].type = "blank" \/ n = Len(read)} = Blanks \union {l}
    BY <1>7, <1>10 DEF Blanks
  <2>5. Said = SaidUpTo(Blanks \union {l})
    BY <2>4 DEF Said
  <2>6. SaidUpTo(Blanks \union {l}) =
          SaidUpTo(Blanks) \union (IF what = "none" THEN {} ELSE {Call(what, Min(data))})
    BY <2>1, <2>3, SaidWith
  <2>7. Handed' = Said
    BY <1>5, <1>6, <2>5, <2>6
  <2> QED BY <1>2, <1>3, <1>5, <2>7, SameHistory DEF StreamInv, HandedInv, SaidSoFar
<1> QED BY <1>9, <1>10

\* Every step keeps it.
LEMMA StreamInvKept == TypeOK /\ TypeOK' /\ StreamInv /\ [Next]_vars => StreamInv'
<1> SUFFICES ASSUME TypeOK, TypeOK', StreamInv, [Next]_vars PROVE StreamInv'
  OBVIOUS
<1>1. CASE Build
  BY <1>1, QuietStep DEF Build, Open, StreamInv, StartInv
<1>2. CASE Connected
  BY <1>2, QuietStep DEF Connected, Open, StartInv
<1>3. CASE ConnectFails
  BY <1>3, QuietStep DEF ConnectFails, Open, StreamInv, StartInv
<1>4. ASSUME NEW line \in Line, NEW next \in Then, ResponsesLine(line, next)
      PROVE  StreamInv'
  BY <1>4, ResponsesLineStep
<1>5. ASSUME NEW line \in Line, NEW next \in Then, AnthropicLine(line, next)
      PROVE  StreamInv'
  <2>1. line.type \in {"blank", "event", "data"}
    BY DEF Line
  <2> QED BY <1>5, <2>1, AnthropicBlankStep, AnthropicEventStep, AnthropicDataStep
<1>6. ASSUME NEW next \in Then, NoLine(next) PROVE StreamInv'
  BY <1>6, QuietStep DEF NoLine, Then, Open, StartInv
<1>7. CASE Broken
  BY <1>7, QuietStep DEF Broken, Open, StartInv
<1>8. CASE Flush
  <2>1. CASE upstreamProtocol = "anthropic"
    BY <1>8, <2>1, AnthropicFlushStep
  <2>2. CASE upstreamProtocol # "anthropic"
    BY <1>8, <2>2, QuietStep DEF Flush, Open, StartInv
  <2> QED BY <2>1, <2>2
<1>9. CASE Done
  BY <1>9, QuietStep DEF Done, Open, StartInv
<1>10. CASE UNCHANGED vars
  BY <1>10, QuietStep DEF vars, Open, StreamInv, StartInv
<1> QED BY <1>1, <1>2, <1>3, <1>4, <1>5, <1>6, <1>7, <1>8, <1>9, <1>10 DEF Next

LEMMA StreamInvInit == Init => StreamInv
<1> SUFFICES ASSUME Init PROVE StreamInv
  OBVIOUS
<1>1. read = <<>> /\ calls = <<>> /\ dataLines = <<>> /\ eventName = "" /\ pc = "build"
  BY DEF Init
<1>2. Len(read) = 0 /\ DOMAIN read = {} /\ DOMAIN calls = {} /\ DOMAIN dataLines = {}
  <2>1. Len(<<>>) = 0 /\ DOMAIN <<>> = {}
    OBVIOUS
  <2> QED BY <1>1, <2>1
<1>3. First(1) = 1
  <2>1. 1..(1 - 1) = {}
    OBVIOUS
  <2> QED BY <2>1 DEF First
<1>4. FirstInv
  <2>1. 1..(Len(read) + 1) = {1}
    BY <1>2
  <2> QED BY <1>3, <2>1 DEF FirstInv
<1>5. \A type : OpenLines(type) = {}
  <2>1. First(Len(read) + 1)..Len(read) = {}
    BY <1>2, <1>3
  <2> QED BY <2>1 DEF OpenLines
<1>6. AssemblyInv
  BY <1>1, <1>2, <1>5 DEF AssemblyInv, NamedBy, Assembled
<1>7. Said = {} /\ SaidUpTo(Blanks) = {} /\ Handed = {}
  BY <1>2 DEF Said, SaidUpTo, Blanks, Handed
<1>8. HandedInv
  BY <1>2, <1>7 DEF HandedInv, OrderInv, SaidSoFar
<1> QED BY <1>1, <1>4, <1>6, <1>8 DEF StreamInv, StartInv

LEMMA StreamInvImplies == TypeOK /\ StreamInv => EverythingHandedOn
<1> SUFFICES ASSUME TypeOK, StreamInv PROVE EverythingHandedOn
  OBVIOUS
<1> DEFINE handed == {i \in DOMAIN calls : calls[i].at # 0}
<1>1. \A i, j \in handed : i < j => calls[i].at < calls[j].at
  BY DEF StreamInv, HandedInv, OrderInv
<1>2. ASSUME pc = "returned" PROVE {calls[i] : i \in handed} = Said
  BY <1>2 DEF StreamInv, HandedInv, Handed, SaidSoFar, Open
<1> QED BY <1>1, <1>2 DEF EverythingHandedOn

-----------------------------------------------------------------------------

\* When an engine returns, every delta and error of the stream has been handed on exactly
\* once and in order, however the lines came and wherever the stream ended or broke
\* (processEvent, and the loops of streamResponsesUpstream and streamAnthropicUpstream).
THEOREM AllHandedOn == Spec => []EverythingHandedOn
<1>1. Init => TypeOK /\ StreamInv
  BY InitEstablishes, StreamInvInit DEF IInv
<1>2. TypeOK /\ TypeOK' /\ StreamInv /\ [Next]_vars => StreamInv'
  BY StreamInvKept
<1> QED
  BY <1>1, <1>2, TypeCorrect, StreamInvImplies, PTL DEF Spec

=============================================================================
