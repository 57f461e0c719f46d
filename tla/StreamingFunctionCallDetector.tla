-------------------- MODULE StreamingFunctionCallDetector --------------------
(***************************************************************************)
(* StreamingFunctionCallDetector (parser.go): it looks for the trigger of  *)
(* a soft tool call in a text that arrives in chunks cut anywhere, passes  *)
(* the text before it on, and collects the text from it.  A trigger inside *)
(* <think> ... </think> is text.  A tail that may still grow into a tag or *)
(* the trigger is held back until the next chunk.                          *)
(*                                                                         *)
(* Text is a sequence of characters here because where a chunk is cut is   *)
(* what the component is about; the tags, the trigger and the fences are   *)
(* parameters, so that a check can take short ones.                        *)
(*                                                                         *)
(* Definitions ending in _Bug are the plausible slips the properties are   *)
(* tested against; nothing here uses them.                                 *)
(***************************************************************************)
EXTENDS Integers, Sequences, FiniteSets

CONSTANTS
  Char,        \* characters of the text
  ThinkOpen,   \* "<think>"
  ThinkClose,  \* "</think>"
  Trigger,     \* the signal that announces a tool call
  Fences,      \* the Markdown fences that may stand right before it
  MaxFed,      \* bound: characters of a turn
  MaxChunk     \* bound: characters of a chunk

ASSUME ControlAssumption ==
  /\ {ThinkOpen, ThinkClose, Trigger} \union Fences \subseteq Seq(Char) \ {<<>>}
  /\ MaxFed \in Nat /\ MaxChunk \in Nat

\* No tag and no signal is the beginning of another; each begins with a character that
\* is in no fence and inside none of them ("<", in "<think>", "</think>" and
\* "<Function_..._Start>"), and a fence begins with one that is inside none of them.
ControlsApart ==
  LET tags == {ThinkOpen, ThinkClose, Trigger} IN
  /\ ThinkOpen # ThinkClose /\ Trigger \notin {ThinkOpen, ThinkClose}
  /\ \A c, d \in tags : Len(c) <= Len(d) /\ SubSeq(d, 1, Len(c)) = c => c = d
  /\ \A c, d \in tags : \A k \in 2..Len(c) : c[k] # d[1]
  /\ \A c \in tags, f \in Fences : \A k \in 2..Len(c) : c[k] # f[1]
  /\ \A c \in tags, f \in Fences : \A k \in 1..Len(f) : f[k] # c[1]

ASSUME ApartAssumption == ControlsApart

VARIABLES
  contentBuffer,  \* detecting: the tail held back; tool_parsing: the tool text
  state,
  thinkDepth,
  fed,            \* every character received, in order
  yielded,        \* every character passed on as text, in order
  dropped         \* the fence removed in front of the trigger

detectorVars == <<contentBuffer, state, thinkDepth, fed, yielded, dropped>>

-----------------------------------------------------------------------------

Rest(b, i) == SubSeq(b, i + 1, Len(b))

\* strings.HasPrefix
HasPrefix(b, s) == Len(s) <= Len(b) /\ SubSeq(b, 1, Len(s)) = s

Candidates_Bug == {ThinkOpen, ThinkClose, Trigger}   \* fences are not held

Candidates ==
  {ThinkOpen, ThinkClose, Trigger} \union {f \o Trigger : f \in Fences}

\* The number of characters toolTriggerOffset skips, if it finds the trigger:
\* the set is empty or has one element.
ToolTriggerOffset(b) ==
  IF HasPrefix(b, Trigger) THEN {0}
  ELSE {Len(f) : f \in {g \in Fences : HasPrefix(b, g \o Trigger)}}

\* Everything that starts like a candidate is held.
ShouldHoldForPossibleControlPrefix_Bug(b) ==
  \E c \in Candidates : b # <<>> /\ Head(b) = Head(c)

ShouldHoldForPossibleControlPrefix(b) ==
  /\ b # <<>>
  /\ \E c \in Candidates : Len(b) < Len(c) /\ HasPrefix(c, b)

\* The loop of ProcessChunk over a buffer b that starts at depth d0: where it
\* stops, the depth there, and the offsets of the trigger if it stopped at one.
\* What it yields is b up to there.
Scan(b, d0) ==
  LET loop[s \in (0..Len(b)) \X Nat] ==
        LET i    == s[1]
            d    == s[2]
            rest == Rest(b, i)
        IN
        IF rest = <<>> THEN [at |-> i, depth |-> d, offset |-> {}]
        ELSE IF HasPrefix(rest, ThinkOpen) THEN loop[<<i + Len(ThinkOpen), d + 1>>]
        ELSE IF HasPrefix(rest, ThinkClose)
             THEN loop[<<i + Len(ThinkClose), IF d > 0 THEN d - 1 ELSE d>>]
        ELSE IF d = 0 /\ ToolTriggerOffset(rest) # {}
             THEN [at |-> i, depth |-> d, offset |-> ToolTriggerOffset(rest)]
        ELSE IF ShouldHoldForPossibleControlPrefix(rest)
             THEN [at |-> i, depth |-> d, offset |-> {}]
        ELSE loop[<<i + 1, d>>]
  IN  loop[<<0, d0>>]

-----------------------------------------------------------------------------
DetectorInit ==
  /\ contentBuffer = <<>> /\ state = "detecting" /\ thinkDepth = 0
  /\ fed = <<>> /\ yielded = <<>> /\ dropped = <<>>

NoTrigger(buffer, stop) ==
  /\ stop.offset = {}
  /\ contentBuffer' = Rest(buffer, stop.at)
  /\ UNCHANGED <<state, dropped>>

TriggerFound(buffer, stop) ==
  \E offset \in stop.offset :
    /\ state' = "tool_parsing"
    /\ contentBuffer' = Rest(buffer, stop.at + offset)
    /\ dropped' = SubSeq(buffer, stop.at + 1, stop.at + offset)

ProcessChunk(delta) ==
  LET buffer == contentBuffer \o delta
      stop   == Scan(buffer, thinkDepth)
  IN
  /\ fed' = fed \o delta
  /\ \/ /\ state = "tool_parsing"
        /\ contentBuffer' = buffer
        /\ UNCHANGED <<state, thinkDepth, yielded, dropped>>
     \/ /\ state = "detecting"
        /\ thinkDepth' = stop.depth
        /\ yielded' = yielded \o SubSeq(buffer, 1, stop.at)
        /\ NoTrigger(buffer, stop) \/ TriggerFound(buffer, stop)

\* What streamChatCompletion calls instead once the trigger was found.
AppendToBuffer(delta) ==
  /\ state = "tool_parsing"
  /\ contentBuffer' = contentBuffer \o delta
  /\ fed' = fed \o delta
  /\ UNCHANGED <<state, thinkDepth, yielded, dropped>>

Chunks == UNION {[1..n -> Char] : n \in 1..MaxChunk}

DetectorNext ==
  \E delta \in Chunks :
    /\ Len(fed) + Len(delta) <= MaxFed
    /\ ProcessChunk(delta) \/ AppendToBuffer(delta)

DetectorSpec == DetectorInit /\ [][DetectorNext]_detectorVars

-----------------------------------------------------------------------------
(* A reference that looks at a whole text at once.                         *)

\* The tag s stands in t right after i characters.
StandsAt(t, i, s) == HasPrefix(Rest(t, i), s)

\* How often the tag s stands in t between the positions j and i.
Count(t, s, j, i) ==
  Cardinality({k \in j..(i - Len(s)) : StandsAt(t, k, s)})

\* How many <think> are open after i characters; a </think> too many is ignored.
DepthAt(t, i) ==
  LET Net(j) == Count(t, ThinkOpen, j, i) - Count(t, ThinkClose, j, i)
  IN  CHOOSE n \in 0..Len(t) :
        /\ \E j \in 0..i : Net(j) = n
        /\ \A j \in 0..i : Net(j) <= n

\* Where the trigger, or a fence and the trigger, stands outside thinking.
TriggersIn(t) ==
  {i \in 0..Len(t) : /\ ToolTriggerOffset(Rest(t, i)) # {}
                     /\ DepthAt(t, i) = 0}

-----------------------------------------------------------------------------
(* Properties *)

DetectorTypeOK ==
  /\ contentBuffer \in Seq(Char)
  /\ state \in {"detecting", "tool_parsing"}
  /\ thinkDepth \in Nat
  /\ fed \in Seq(Char) /\ yielded \in Seq(Char)
  /\ dropped \in Fences \union {<<>>}

\* How the text is cut does not matter: the detector fires as soon as the text so
\* far has a trigger outside thinking, and then exactly the text before the first
\* one was passed on.  Every character is passed on, held or collected once and in
\* order, but for the fence in front of a trigger.
ChunkingIrrelevant ==
  LET found == TriggersIn(fed) IN
  /\ DetectorTypeOK
  /\ yielded \o dropped \o contentBuffer = fed
  /\ state = "tool_parsing" <=> found # {}
  /\ found = {} => dropped = <<>>
  /\ found # {} =>
       /\ Len(yielded) \in found
       /\ \A i \in found : Len(yielded) <= i

\* While no trigger was found only the beginning of a tag or of a trigger is held
\* back: text is never delayed longer than it is ambiguous.
HeldOnlyWhileAmbiguous ==
  state = "detecting" =>
    \E c \in Candidates :
      Len(contentBuffer) < Len(c) /\ HasPrefix(c, contentBuffer)

=============================================================================
