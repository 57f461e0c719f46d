-------------------------- MODULE BufferedFileWriter --------------------------
(***************************************************************************)
(* The log file (logging/writer.go): a buffer in front of a file that is   *)
(* rotated by size, one mutex around both, a goroutine that flushes, and   *)
(* Close.  The buffer is a bufio.Writer, which writes to the file by       *)
(* itself when it is full, and does nothing any more once a write of its   *)
(* failed.  A write to the file may fail wherever there is one, and may    *)
(* have written any part of what it was given.                             *)
(*                                                                         *)
(* A log record is a sequence of cells, the last of which is the end of    *)
(* the line; sizes are numbers of cells.  A rotation is several calls to   *)
(* the file system.  Each is a step of its own, because others read the    *)
(* directory without the mutex, and may fail.                              *)
(*                                                                         *)
(* Definitions ending in _Bug are the plausible slips the properties are   *)
(* tested against; nothing here uses them.                                 *)
(***************************************************************************)
EXTENDS Naturals, Sequences, SequencesExt

CONSTANTS
  RecordSize,  \* the sizes of records
  BufferSize,  \* of the bufio.Writer
  MaxSize,     \* of the file, above which it is rotated
  MaxBackups,
  MaxRecords,  \* bound on the records that are written
  MaxFaults,   \* bound on failed calls and crashes
  None

Cell == [rec : 1 .. MaxRecords, at : Nat, eol : BOOLEAN]

\* With a limit of 0 the program does not rotate, and these are about one that does.
ASSUME WriterAssumption ==
  /\ RecordSize \subseteq Nat \ {0}
  /\ {BufferSize, MaxSize, MaxBackups} \subseteq Nat \ {0}
  /\ {MaxRecords, MaxFaults} \subseteq Nat
  /\ None \notin Seq(Cell)

VARIABLES
  disk,         \* disk[0] is the log file, disk[i] its i-th backup
  open,         \* the file handle is open
  buffer,
  sticky,       \* the bufio.Writer has failed, and fails from now on
  currentSize,
  mutex,        \* what the holder does next, or "free"
  shift,        \* the backup that is renamed next
  incoming,     \* the record that waits for the end of a rotation
  closing,      \* Close: no, signalled, drained, closed; down: the program is not running
  written,      \* records that Write was called with
  taken,        \* history: the cells the buffer took, but for those a crash took from it: the
                \*   records Write returned no error for, and the front of one it failed for
  faults, cut,  \* history: calls that failed and crashes; whether one was in a rotation
  torn,         \* history: a write to the open file failed since the program was started
  spilled       \* history: the bufio.Writer wrote to this file by itself

file    == <<disk, open, buffer, sticky, currentSize>>
writerHistory == <<taken, faults, cut, torn, spilled>>
writer  == <<file, mutex, shift, incoming, closing, written, writerHistory>>

Backup == 0 .. MaxBackups

Record(r, n) == [i \in 1 .. n |-> [rec |-> r, at |-> i, eol |-> i = n]]

Content(i) == IF disk[i] = None THEN <<>> ELSE disk[i]

\* A restart finds an empty file, or makes one.
InitWriter ==
  /\ disk = [i \in Backup |-> IF i = 0 THEN <<>> ELSE None]
  /\ open = TRUE /\ buffer = <<>> /\ sticky = FALSE /\ currentSize = 0
  /\ mutex = "free" /\ shift = 0 /\ incoming = <<>>
  /\ closing = "no" /\ written = 0
  /\ taken = <<>> /\ faults = 0 /\ cut = FALSE /\ torn = FALSE /\ spilled = FALSE

-----------------------------------------------------------------------------
(* Writes to the file                                                      *)

\* How much of s the file takes: nothing when it is closed or the bufio.Writer has failed
\* before, and else all of it, or less when the call fails.
Takes(s) ==
  IF ~open \/ sticky THEN {0}
  ELSE IF faults < MaxFaults THEN 0 .. Len(s) ELSE {Len(s)}

\* The first n cells of s are written, and the rest is an error that stays.
Wrote(s, n) ==
  /\ disk' = IF n = 0 THEN disk ELSE [disk EXCEPT ![0] = Content(0) \o SubSeq(s, 1, n)]
  /\ sticky' = (sticky \/ n < Len(s))
  /\ IF open /\ ~sticky /\ n < Len(s)
     THEN faults' = faults + 1 /\ torn' = TRUE
     ELSE UNCHANGED <<faults, torn>>

\* bufio.Writer.Flush: what was not written stays in the buffer.
FlushBuffer ==
  \E n \in Takes(buffer) :
    /\ Wrote(buffer, n)
    /\ buffer' = SubSeq(buffer, n + 1, Len(buffer))

-----------------------------------------------------------------------------
(* Write                                                                   *)

\* What bufio.Writer.Write writes to the file of what is in the buffer and p: the buffer
\* whenever it is full, and p as it is when the buffer is empty and p does not fit.
Spills(b, p) ==
  LET all == Len(b) + Len(p) IN
  IF all <= BufferSize THEN 0
  ELSE IF b = <<>> \/ all > 2 * BufferSize THEN all
  ELSE BufferSize

\* What it took of p when the file took only n cells: p fills up the buffer first.
TakenOf(b, p, n) ==
  SubSeq(p, 1, (IF b = <<>> \/ n > BufferSize THEN n ELSE BufferSize) - Len(b))

Put(p) ==
  \/ /\ ~sticky
     /\ LET out == SubSeq(buffer \o p, 1, Spills(buffer, p)) IN
        \E n \in Takes(out) :
          LET front == IF n = Len(out) THEN p ELSE TakenOf(buffer, p, n)
              log   == buffer \o front
          IN /\ Wrote(out, n)
             /\ buffer' = SubSeq(log, n + 1, Len(log))
             /\ taken' = taken \o front
             /\ spilled' = (spilled \/ n > 0)
     /\ UNCHANGED <<open, currentSize>>
  \/ /\ sticky
     /\ UNCHANGED <<file, taken, faults, torn, spilled>>

\* Rotates only when the file alone is too large.
RotationDue_Bug(n) == currentSize + n > MaxSize /\ currentSize > 0

\* rotateIfNeededLocked
RotationDue(n) ==
  /\ currentSize + Len(buffer) + n > MaxSize
  /\ currentSize > 0 \/ buffer # <<>>

\* Rotates without writing out the buffer.
BeginRotation_Bug(p) ==
  /\ open
  /\ currentSize' = currentSize + Len(buffer)
  /\ buffer' = <<>> /\ open' = FALSE
  /\ mutex' = "remove" /\ incoming' = p
  /\ UNCHANGED <<disk, sticky, taken, faults, torn, spilled>>

\* The flush and the close of the file, unless the flush fails or the file was closed by a
\* rotation that failed.  (An error of the close itself is RotationFails at this point.)
BeginRotation(p) ==
  /\ FlushBuffer
  /\ currentSize' = IF sticky' THEN currentSize ELSE currentSize + Len(buffer)
  /\ IF sticky' \/ ~open
     THEN UNCHANGED <<open, mutex, incoming>>
     ELSE open' = FALSE /\ mutex' = "remove" /\ incoming' = p
  /\ UNCHANGED <<taken, spilled>>

Write(n) ==
  LET p == Record(written + 1, n) IN
  /\ mutex = "free" /\ closing \notin {"closed", "down"}
  /\ written < MaxRecords
  /\ written' = written + 1
  /\ IF RotationDue(n) THEN BeginRotation(p) ELSE Put(p) /\ UNCHANGED <<mutex, incoming>>
  /\ UNCHANGED <<shift, closing, cut>>

Renaming == mutex \in {"remove", "rename", "create"}

\* rotateLocked returns an error, with the file closed.
RotationFails ==
  /\ Renaming
  /\ faults < MaxFaults
  /\ faults' = faults + 1 /\ cut' = TRUE
  /\ mutex' = "free" /\ incoming' = <<>>
  /\ UNCHANGED <<file, shift, closing, written, taken, torn, spilled>>

RemoveOldest ==
  /\ mutex = "remove"
  /\ disk' = [disk EXCEPT ![MaxBackups] = None]
  /\ mutex' = "rename" /\ shift' = MaxBackups - 1
  /\ UNCHANGED <<open, buffer, sticky, currentSize, incoming, closing, written, writerHistory>>

\* A backup that does not exist is passed over; the last to be renamed is the file.
Rename ==
  /\ mutex = "rename"
  /\ disk' = IF disk[shift] = None THEN disk
             ELSE [disk EXCEPT ![shift + 1] = disk[shift], ![shift] = None]
  /\ mutex' = IF shift = 0 THEN "create" ELSE "rename"
  /\ shift' = IF shift = 0 THEN 0 ELSE shift - 1
  /\ UNCHANGED <<open, buffer, sticky, currentSize, incoming, closing, written, writerHistory>>

\* The new file.
Create ==
  /\ mutex = "create"
  /\ disk' = [disk EXCEPT ![0] = <<>>]
  /\ open' = TRUE /\ sticky' = FALSE
  /\ currentSize' = 0 /\ spilled' = FALSE
  /\ mutex' = "put"
  /\ UNCHANGED <<buffer, shift, incoming, closing, written, taken, faults, cut, torn>>

\* Write goes on with the record the rotation was for.
FinishWrite ==
  /\ mutex = "put"
  /\ Put(incoming)
  /\ mutex' = "free" /\ incoming' = <<>>
  /\ UNCHANGED <<shift, closing, written, cut>>

-----------------------------------------------------------------------------
(* Flush, Close, and the program                                           *)

\* By flushLoop, at its tick, and by whoever reads the log; what failed is not counted.
Flush ==
  /\ mutex = "free" /\ closing \notin {"closed", "down"}
  /\ FlushBuffer
  /\ currentSize' = IF sticky' THEN currentSize ELSE currentSize + Len(buffer)
  /\ UNCHANGED <<open, mutex, shift, incoming, closing, written, taken, cut, spilled>>

BeginClose ==
  /\ closing = "no"
  /\ closing' = "signalled"
  /\ UNCHANGED <<file, mutex, shift, incoming, written, writerHistory>>

\* flushLoop ends; it never holds the mutex when it does.
Drain ==
  /\ closing = "signalled"
  /\ closing' = "drained"
  /\ UNCHANGED <<file, mutex, shift, incoming, written, writerHistory>>

\* The file is closed whether the flush fails or not.
FinishClose ==
  /\ closing = "drained" /\ mutex = "free"
  /\ closing' = "closed"
  /\ FlushBuffer
  /\ open' = FALSE
  /\ UNCHANGED <<currentSize, mutex, shift, incoming, written, taken, cut, spilled>>

\* The program ends: after Close, or at any time, and then what is in the buffer is lost.
Stop ==
  /\ closing # "down"
  /\ \/ closing = "closed" /\ UNCHANGED <<faults, cut>>
     \/ /\ closing # "closed" /\ faults < MaxFaults
        /\ faults' = faults + 1 /\ cut' = (cut \/ Renaming)
  /\ closing' = "down"
  /\ open' = FALSE /\ buffer' = <<>> /\ sticky' = FALSE /\ torn' = FALSE
  /\ taken' = SubSeq(taken, 1, Len(taken) - Len(buffer))
  /\ mutex' = "free" /\ shift' = 0 /\ incoming' = <<>>
  /\ UNCHANGED <<disk, currentSize, written, spilled>>

\* NewBufferedFileWriterWithOptions: the file is opened to append, and its size taken.
Start ==
  /\ closing = "down"
  /\ closing' = "no"
  /\ disk' = [disk EXCEPT ![0] = Content(0)]
  /\ open' = TRUE /\ currentSize' = Len(Content(0))
  /\ UNCHANGED <<buffer, sticky, mutex, shift, incoming, written, writerHistory>>

Rotate == RemoveOldest \/ Rename \/ Create \/ FinishWrite

\* Everything else, but for Stop.
Operate ==
  \/ \E n \in RecordSize : Write(n)
  \/ RotationFails
  \/ Flush \/ BeginClose \/ Drain \/ FinishClose \/ Start

-----------------------------------------------------------------------------
(* Properties                                                              *)

WriterTypeOK ==
  /\ disk \in [Backup -> Seq(Cell) \union {None}]
  /\ open \in BOOLEAN /\ sticky \in BOOLEAN
  /\ buffer \in Seq(Cell) /\ Len(buffer) <= BufferSize
  /\ currentSize \in Nat
  /\ mutex \in {"free", "remove", "rename", "create", "put"} /\ shift \in 0 .. MaxBackups - 1
  /\ incoming \in Seq(Cell)
  /\ closing \in {"no", "signalled", "drained", "closed", "down"}
  /\ written \in 0 .. MaxRecords
  /\ taken \in Seq(Cell)
  /\ faults \in 0 .. MaxFaults /\ cut \in BOOLEAN /\ torn \in BOOLEAN /\ spilled \in BOOLEAN

\* What is in the backups, from the oldest to the newest, the file and the buffer.
Files == [i \in 1 .. MaxBackups + 1 |-> Content(MaxBackups + 1 - i)]
Kept  == FlattenSeq(Files) \o buffer

\* The files and the buffer hold the newest of what the buffer took, in order, without a
\* gap or a repetition, at every step of a rotation and wherever a write fails, a rotation
\* fails or the program stops.  Unless a rotation was cut short, nothing of it is gone
\* while a backup is unused, and nothing is left in the buffer when Close is done, whatever
\* was written meanwhile, but for what a write that failed has left.
KeepsNewest ==
  /\ IsSuffix(Kept, taken)
  /\ ~cut /\ ~Renaming /\ Kept # taken => \A i \in Backup : disk[i] # None
  /\ ~cut /\ ~torn /\ closing = "closed" => buffer = <<>>

\* The log file, with what is still to be written to it, is no longer than MaxSize, but
\* for a record that is longer by itself.
LogFitsMaxSize ==
  LET log == Content(0) \o buffer IN
  Len(log) <= MaxSize \/ \A c \in ToSet(log) : c.rec = log[1].rec

\* It is so as long as the bufio.Writer has not written to the file by itself: currentSize
\* counts what Flush and rotateLocked find in the buffer, and never what left it before.
FlushedLogFits == ~spilled => LogFitsMaxSize

=============================================================================
