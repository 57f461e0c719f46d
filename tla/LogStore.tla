------------------------------ MODULE LogStore ------------------------------
(***************************************************************************)
(* Reading the log while it is written (logging/store.go): List and Raw,   *)
(* which read the end of the file backwards in chunks, and follow, which   *)
(* polls its size and sends what was added as entries to a subscriber.     *)
(*                                                                         *)
(* Readers flush the writer under its mutex, and then look at the          *)
(* directory without it: a rotation, a write that overflows the buffer or  *)
(* a stop of the program can come between any two of their calls.          *)
(***************************************************************************)
EXTENDS BufferedFileWriter, FiniteSets

CONSTANTS
  ChunkSize,  \* cells that tailLogLines reads at a time
  Limit       \* the lines it is asked for

\* A record has a text in front of its line end: slog writes its time, level and message.
ASSUME ReaderAssumption ==
  /\ ChunkSize \in Nat \ {0} /\ Limit \in Nat \ {0}
  /\ 1 \notin RecordSize

VARIABLES
  follower,  \* follow: off, waiting, stat, read, sending, cancelled
  offset, size, carry,
  lines,     \* those still to be sent
  sent,      \* entries the subscriber got
  since,     \* history: the offset that follow began with
  quiet      \* history: the file has been the same since then

follow == <<follower, offset, size, carry, lines, sent, since, quiet>>
logVars == <<writer, follow>>

LogInit ==
  /\ InitWriter
  /\ follower = "off" /\ offset = 0 /\ size = 0 /\ carry = <<>>
  /\ lines = <<>> /\ sent = <<>> /\ since = 0 /\ quiet = TRUE

-----------------------------------------------------------------------------
(* Lines                                                                   *)

Ends(s) == {i \in 1 .. Len(s) : s[i].eol}

\* strings.Split at the ends of lines: the whole lines of s, with their ends, but without
\* those that are blank; and what follows the last of them.
Split(s) ==
  LET split[i \in 0 .. Len(s)] ==
        IF i = 0 THEN [lines |-> <<>>, rest |-> <<>>]
        ELSE LET before == split[i - 1] IN
             IF ~s[i].eol THEN [before EXCEPT !.rest = Append(@, s[i])]
             ELSE IF before.rest = <<>> THEN before
             ELSE [lines |-> Append(before.lines, Append(before.rest, s[i])), rest |-> <<>>]
  IN split[Len(s)]

Lines(s) == Split(s).lines
Rest(s)  == Split(s).rest

SplitLines(s)   == IF Rest(s) = <<>> THEN Lines(s) ELSE Append(Lines(s), Rest(s))
LastLines(s, n) == SubSeq(s, Max({1, Len(s) - n + 1}), Len(s))

End(s, n) == LastLines(s, n)

\* One line end less will do.
EnoughRead_Bug(s, n) == Cardinality(Ends(s)) >= n

\* Where tailLogLines stops to read backwards.
EnoughRead(s, n) == Cardinality(Ends(s)) > n

TailLogLines(s, n) ==
  LET chunks == 0 .. (Len(s) + ChunkSize - 1) \div ChunkSize
      enough == {c \in chunks : c * ChunkSize >= Len(s) \/ EnoughRead(End(s, c * ChunkSize), n)}
  IN LastLines(SplitLines(End(s, Min(enough) * ChunkSize)), n)

-----------------------------------------------------------------------------
(* List, Raw                                                               *)

\* What a reader does first; a closed writer flushes nothing.
FlushFirst ==
  /\ mutex = "free" /\ closing # "down"
  /\ IF closing = "closed" THEN UNCHANGED writer ELSE Flush

\* List and Raw flush and then read, at a moment of their own.  Reading changes nothing;
\* what it returns, in whatever state, is Listing.  A file that is not there has no lines.
List == FlushFirst /\ UNCHANGED follow

Listing == TailLogLines(Content(0), Limit)

-----------------------------------------------------------------------------
(* Subscribe, follow                                                       *)

Subscribe ==
  /\ follower = "off" /\ closing # "down"
  /\ follower' = "waiting"
  /\ offset' = Len(Content(0)) /\ since' = Len(Content(0)) /\ quiet' = (disk[0] # None)
  /\ UNCHANGED <<writer, size, carry, lines, sent>>

\* The tick is left to flushLoop.
TickFollow_Bug ==
  /\ follower = "waiting"
  /\ follower' = "stat"
  /\ UNCHANGED <<writer, offset, size, carry, lines, sent, since, quiet>>

TickFollow ==
  /\ follower = "waiting"
  /\ FlushFirst
  /\ follower' = "stat"
  /\ UNCHANGED <<offset, size, carry, lines, sent, since, quiet>>

\* A file that is shorter than before is a new one.
Stat ==
  LET now    == Len(Content(0))
      before == IF now < offset THEN 0 ELSE offset
  IN
  /\ follower = "stat"
  /\ size' = now /\ offset' = before
  /\ carry' = IF now < offset THEN <<>> ELSE carry
  /\ follower' = IF now = before THEN "waiting" ELSE "read"
  /\ UNCHANGED <<writer, lines, sent, since, quiet>>

\* What is left of a line is not kept for the next tick.
ReadRange_Bug ==
  LET combined == carry \o SubSeq(Content(0), offset + 1, Min({size, Len(Content(0))})) IN
  /\ follower = "read"
  /\ offset' = size
  /\ carry' = <<>> /\ lines' = SplitLines(combined)
  /\ follower' = "sending"
  /\ UNCHANGED <<writer, size, sent, since, quiet>>

\* A file that cannot be opened is tried again at the next tick.
ReadRange ==
  LET combined == carry \o SubSeq(Content(0), offset + 1, Min({size, Len(Content(0))})) IN
  /\ follower = "read"
  /\ \/ /\ disk[0] # None
        /\ offset' = size
        /\ carry' = Rest(combined)
        /\ lines' = Lines(combined)
        /\ follower' = "sending"
     \/ /\ disk[0] = None
        /\ follower' = "waiting"
        /\ UNCHANGED <<offset, carry, lines>>
  /\ UNCHANGED <<writer, size, sent, since, quiet>>

\* One entry, when the subscriber takes it.
Send ==
  /\ follower = "sending"
  /\ IF lines = <<>>
     THEN follower' = "waiting" /\ UNCHANGED <<lines, sent>>
     ELSE /\ sent' = Append(sent, Head(lines))
          /\ lines' = Tail(lines)
          /\ UNCHANGED follower
  /\ UNCHANGED <<writer, offset, size, carry, since, quiet>>

Cancel ==
  /\ follower \in {"waiting", "sending"}
  /\ follower' = "cancelled"
  /\ UNCHANGED <<writer, offset, size, carry, lines, sent, since, quiet>>

-----------------------------------------------------------------------------

\* The file is another one once its name is gone for a moment.
Aside ==
  /\ quiet' = (quiet /\ disk'[0] # None)
  /\ UNCHANGED <<follower, offset, size, carry, lines, sent, since>>

Rotating == Rotate /\ Aside
Writing  == Operate /\ Aside

\* Readers end with the program.
Halt ==
  /\ Stop
  /\ follower' = "cancelled"
  /\ UNCHANGED <<offset, size, carry, lines, sent, since, quiet>>

Reading == List \/ Subscribe \/ TickFollow \/ Stat \/ ReadRange \/ Send \/ Cancel

LogNext == Writing \/ Rotating \/ Halt \/ Reading

\* follow and its subscriber go on, and so does a rotation that has begun; nobody has to
\* write, flush, list or close.
Fairness ==
  /\ WF_logVars(TickFollow) /\ WF_logVars(Stat) /\ WF_logVars(ReadRange) /\ WF_logVars(Send)
  /\ WF_logVars(Rotating)

LogSpec == LogInit /\ [][LogNext]_logVars /\ Fairness

-----------------------------------------------------------------------------
(* Properties                                                              *)

LogTypeOK ==
  /\ WriterTypeOK
  /\ follower \in {"off", "waiting", "stat", "read", "sending", "cancelled"}
  /\ offset \in Nat /\ size \in Nat /\ since \in Nat
  /\ carry \in Seq(Cell)
  /\ lines \in Seq(Seq(Cell)) /\ sent \in Seq(Seq(Cell))
  /\ quiet \in BOOLEAN

\* List returns whole records, the last ones of the file and in their order, however the
\* chunks fall and whatever is written, flushed or renamed meanwhile; only the last may
\* lack its end, which the bufio.Writer has not written yet.  (A stop of the program can
\* tear a record, and the next one is then on the same line.)
ListsWholeRecords ==
  LET listing == Listing IN
  faults = 0 =>
    /\ Len(listing) <= Limit
    /\ \A k \in 1 .. Len(listing) :
         /\ listing[k][1].at = 1
         /\ k < Len(listing) =>
              /\ Last(listing[k]).eol
              /\ listing[k + 1][1].rec = listing[k][1].rec + 1
    /\ Content(0) # <<>> => Last(listing) = Last(SplitLines(Content(0)))

\* What a subscriber was sent, is to be sent and is carried over is, line by line, what
\* was added to the file since it subscribed, nothing twice and nothing left out, as long
\* as the file is not rotated.  (Blank is the end of a line whose rest was there before.)
FollowsFile ==
  LET added == SubSeq(Content(0), since + 1, offset)
      seen  == FlattenSeq(sent \o lines) \o carry
  IN /\ LogTypeOK
     /\ quiet /\ follower # "off" =>
          \/ seen = added
          \/ added # <<>> /\ added[1].eol /\ seen = Tail(added)

\* A record follow has still to come to.
Ahead(r) ==
  /\ follower \notin {"off", "cancelled"}
  /\ LET log == Content(0) \o buffer
     IN \E i \in offset + 1 .. Len(log) : i > since + 1 /\ log[i].eol /\ log[i].rec = r

Sent(r) == \E k \in 1 .. Len(sent) : Last(sent[k]).rec = r

\* A record that was written reaches the subscriber, though nobody but follow flushes the
\* buffer, unless the file is rotated, a write to it or its rotation fails, or the
\* subscriber leaves.
Followed ==
  \A r \in 1 .. MaxRecords :
    Ahead(r) ~> Sent(r) \/ ~quiet \/ cut \/ torn \/ follower = "cancelled"

=============================================================================
