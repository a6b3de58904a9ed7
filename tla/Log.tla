-------------------------------- MODULE Log --------------------------------
(***************************************************************************)
(* The guard's log file: RotatingWriter (logrot.go) under DedupWriter      *)
(* (dedup.go), the start-up rotation and clean-up of main.go, and other    *)
(* commands of the program that log to the same file meanwhile (Windows,   *)
(* where nobody can rename a file the guard has open).                     *)
(*                                                                         *)
(* A file is a sequence of bytes; a byte is the number of the line it      *)
(* belongs to, or Zero where a file was extended.                          *)
(***************************************************************************)
EXTENDS Integers, SequencesExt

CONSTANTS
  MaxSize, MaxBackups,  \* -log-max-size in bytes, -log-max-backups
  Lens,                 \* lengths a log line may have
  Faults,               \* what may fail: "rename" of the log, "shift" of a backup,
                        \* "open" after a rotation, "write"
  MaxLines              \* bound: lines logged in a run

ASSUME LogAssumption ==
  /\ MaxSize \in Nat /\ MaxBackups \in Nat /\ MaxLines \in Nat
  /\ Lens \subseteq Nat \ {0}
  /\ Faults \subseteq {"rename", "shift", "open", "write"}

VARIABLES
  fs,         \* the files: log, the backups old[1], old[2], ..., whether
              \* RotatingWriter.file is open and, as history, which of "rename" and
              \* "shift" have failed
  onlineBuf,  \* lengths of the lines in DedupWriter.onlineBuf
  lines,      \* lines logged so far
  kept        \* history: the lines the log should hold, runs of online lines collapsed

vars == <<fs, onlineBuf, lines, kept>>

Absent == <<-1>>
Zero == 0
Top == IF MaxBackups = 0 THEN 1 ELSE MaxBackups  \* the highest backup ever written

FileType == {Absent} \cup Seq(Nat)
Files == [log : FileType, old : [1..Top -> FileType], open : BOOLEAN,
          failed : SUBSET {"rename", "shift"}]
TypeOK ==
  /\ fs \in Files
  /\ onlineBuf \in Seq(Lens) /\ Len(onlineBuf) <= 2
  /\ lines \in 0..MaxLines
  /\ kept \in Seq([id : 1..MaxLines, on : BOOLEAN, len : Lens])

Init ==
  /\ fs = [log |-> <<>>, old |-> [i \in 1..Top |-> Absent], open |-> TRUE, failed |-> {}]
  /\ onlineBuf = <<>> /\ lines = 0 /\ kept = <<>>

----------------------------------------------------------------------------
(* RotatingWriter *)

MayFail(call) == IF call \in Faults THEN BOOLEAN ELSE {TRUE}

Numbered(f, i) == IF i = 0 THEN f.log ELSE f.old[i]
Fault(i) == IF i = 0 THEN "rename" ELSE "shift"

\* The files that may stay where they are: those another process holds open do.
Stuck(f, held) ==
  {stuck \in SUBSET {i \in 0..MaxBackups : Numbered(f, i) # Absent} :
     held \subseteq stuck /\ \A i \in stuck \ held : Fault(i) \in Faults}

\* rotateBatch: file i gets number i + 1, the oldest is removed and every error is
\* ignored.  A file that is stuck stays, unless the one below replaces it.  Without
\* backups the log replaces path.1.
Rotated_CopyOnFailure(f, stuck) ==
  [f EXCEPT
    !.old = [i \in 1..Top |->
               IF Numbered(f, i - 1) # Absent THEN Numbered(f, i - 1)
               ELSE IF i \in stuck \/ i > MaxBackups THEN f.old[i]
               ELSE Absent],
    !.log = IF 0 \in stuck THEN f.log ELSE Absent,
    !.failed = f.failed \cup {Fault(i) : i \in stuck}]
Rotated(f, stuck) ==
  [f EXCEPT
    !.old = [i \in 1..Top |->
               IF i - 1 \notin stuck /\ Numbered(f, i - 1) # Absent THEN Numbered(f, i - 1)
               ELSE IF i \in stuck \/ i > MaxBackups THEN f.old[i]
               ELSE Absent],
    !.log = IF 0 \in stuck THEN f.log ELSE Absent,
    !.failed = f.failed \cup {Fault(i) : i \in stuck}]

Opened(f) == [f EXCEPT !.open = TRUE, !.log = IF f.log = Absent THEN <<>> ELSE f.log]

\* CurrentSize, 0 when the handle is closed.
CurrentSize(f) == IF f.open THEN Len(f.log) ELSE 0

\* A failing write leaves some part of the line.
Appended(f, line) ==
  IF ~f.open THEN {f}
  ELSE {[f EXCEPT !.log = f.log \o SubSeq(line, 1, k)] :
          k \in IF "write" \in Faults THEN 0..Len(line) ELSE {Len(line)}}

MustRotate_SizeOnly(f, line) == f.open /\ Len(f.log) > MaxSize
MustRotate(f, line) == f.open /\ Len(f.log) + Len(line) > MaxSize

\* RotatingWriter.Write: the file systems it may leave.
Write(f, line, held) ==
  IF ~MustRotate(f, line) THEN Appended(f, line)
  ELSE UNION {LET g == Rotated(f, stuck)
              IN  IF opened THEN Appended(Opened(g), line) ELSE {[g EXCEPT !.open = FALSE]} :
                stuck \in Stuck(f, held), opened \in MayFail("open")}

\* TruncateTo works on the path: the result, or nothing when there is no file.
Truncated(f, size) ==
  IF f.log = Absent THEN {}
  ELSE {[f EXCEPT !.log = [j \in 1..size |-> IF j <= Len(f.log) THEN f.log[j] ELSE Zero]]}

\* RotateIfNeeded.
RotatedIfNeeded(f, held) ==
  IF f.log = Absent \/ Len(f.log) < MaxSize THEN {f}
  ELSE {Rotated(f, stuck) : stuck \in Stuck(f, held)}

\* CleanupOldLogs stops at the first backup missing.  Those before it are removed, or
\* are too young, each by its own time, or cannot be: any of them may go.
Reached(f) == {i \in 1..Top : \A j \in 1..i : f.old[j] # Absent}
Cleaned(f, removed) ==
  [f EXCEPT !.old = [i \in 1..Top |-> IF i \in removed \cap Reached(f) THEN Absent ELSE f.old[i]]]

----------------------------------------------------------------------------
(* DedupWriter *)

Line(len) == [j \in 1..len |-> lines + 1]

\* What the log should hold after one more line: the third of three online lines
\* takes the place of the second.
Keep(on, len) ==
  LET n == Len(kept)
      entry == [id |-> lines + 1, on |-> on, len |-> len]
  IN  IF on /\ n >= 2 /\ kept[n].on /\ kept[n - 1].on
      THEN [kept EXCEPT ![n] = entry]
      ELSE Append(kept, entry)

Logged(on, len) ==
  /\ lines < MaxLines /\ lines' = lines + 1
  /\ kept' = Keep(on, len)

LogOther_NoReset(len) ==
  /\ Logged(FALSE, len)
  /\ fs' \in Write(fs, Line(len), {})
  /\ UNCHANGED onlineBuf
LogOther(len) ==
  /\ Logged(FALSE, len)
  /\ onlineBuf' = <<>>
  /\ fs' \in Write(fs, Line(len), {})

\* The first and second online line of a run.
LogOnline_ThreeBuffered(len) ==
  /\ Logged(TRUE, len) /\ Len(onlineBuf) <= 2
  /\ onlineBuf' = Append(onlineBuf, len)
  /\ fs' \in Write(fs, Line(len), {})
LogOnline(len) ==
  /\ Logged(TRUE, len) /\ Len(onlineBuf) < 2
  /\ onlineBuf' = Append(onlineBuf, len)
  /\ fs' \in Write(fs, Line(len), {})

\* The third: the second is cut off the file, and the new line takes its place.
TargetSize_First == CurrentSize(fs) - onlineBuf[1]
TargetSize == CurrentSize(fs) - onlineBuf[2]

LogOnlineAgain(len) ==
  /\ Logged(TRUE, len) /\ Len(onlineBuf) = 2
  /\ LET size == IF TargetSize < 0 THEN 0 ELSE TargetSize
         cut == Truncated(fs, size)
     IN  IF cut = {} THEN UNCHANGED <<fs, onlineBuf>>
         ELSE /\ onlineBuf' = <<onlineBuf[1], len>>
              /\ fs' \in UNION {Write(f, Line(len), {}) : f \in cut}

----------------------------------------------------------------------------
(* Other processes *)

\* The guard ends and is started again.  Its first line is never an online one.
Restart(len, removed) ==
  /\ Logged(FALSE, len)
  /\ onlineBuf' = <<>>
  /\ \E f \in RotatedIfNeeded(fs, {}) :
       fs' \in Write(Opened(Cleaned(f, removed)), Line(len), {})

\* Another command of the program: the same start-up and one line, while the
\* guard has the log open.
Command(len, removed) ==
  /\ fs.open
  /\ Logged(FALSE, len)
  /\ \E f \in RotatedIfNeeded(fs, {0}) :
       fs' \in Write(Cleaned(f, removed), Line(len), {0})
  /\ UNCHANGED onlineBuf

Full == lines = MaxLines /\ UNCHANGED vars

Next ==
  \/ \E len \in Lens : LogOther(len) \/ LogOnline(len) \/ LogOnlineAgain(len)
  \/ \E len \in Lens, removed \in SUBSET (1..Top) : Restart(len, removed)
  \/ Full

Spec == Init /\ [][Next]_vars

\* The guard shares its log with other commands.
SharedNext == Next \/ \E len \in Lens, removed \in SUBSET (1..Top) : Command(len, removed)
SharedSpec == Init /\ [][SharedNext]_vars

----------------------------------------------------------------------------
(* Properties *)

\* The log with its k newest backups, oldest byte first.
Present(file) == IF file = Absent THEN <<>> ELSE file
Newest(k) == FlattenSeq([i \in 1..k |-> Present(fs.old[k + 1 - i])]) \o Present(fs.log)
Stream == Newest(Top)

Promised ==
  FlattenSeq([n \in 1..Len(kept) |-> [j \in 1..kept[n].len |-> kept[n].id]])

\* The log alone always reads as the tail of what was logged, with runs of online
\* lines collapsed to the first and the latest, and so do the log and its backups up
\* to the first one missing as long as no backup was stuck in a rotation: truncation,
\* rotation, clean-up and restarts never cut, reorder or repeat a line that is still
\* there, and the latest line is (dedup.go, logrot.go).
File(i) == IF i = 0 THEN Present(fs.log) ELSE Present(fs.old[i])
OlderFilesFirst ==
  \A i, j \in 0..Top : i < j =>
    \A m \in DOMAIN File(i), n \in DOMAIN File(j) : File(j)[n] < File(i)[m]
CollapsedTail ==
  /\ \A k \in 0..(IF "shift" \in fs.failed THEN 0 ELSE Top) :
       (\A i \in 1..k : fs.old[i] # Absent) => IsSuffix(Newest(k), Promised)
  /\ OlderFilesFirst
  /\ kept # <<>> => Len(Present(fs.log)) >= Last(kept).len

\* The files are the volumes of a Journal, whatever is stuck in a rotation and whatever
\* the clean-up removes: no line is ever cut, put into an older volume or taken back,
\* but for the second of two online lines (dedup.go, logrot.go).
Volumes == {File(i) : i \in 1..Top} \ {<<>>}
Diary == INSTANCE Journal
  WITH current <- File(0), closed <- Volumes, online <- onlineBuf, told <- lines
KeepsJournal == Diary!Spec

\* Whichever calls fail and whoever else logs, what the files still hold is in the
\* order it was logged: no line is found behind a later one, in its file or in a newer
\* one, or in two files, and no truncation ever extends a file (TruncateTo, Write).
FilesInOrder ==
  /\ \A i \in 0..Top : \A m, n \in DOMAIN File(i) :
       Zero < File(i)[m] /\ (m < n => File(i)[m] <= File(i)[n])
  /\ OlderFilesFirst

\* The log never outgrows -log-max-size, unless one line alone does or the log
\* could not be renamed.
SizeBound ==
  \/ "rename" \in fs.failed
  \/ Len(Present(fs.log)) <= MaxSize
  \/ \A i, j \in 1..Len(fs.log) : fs.log[i] = fs.log[j]

\* README.md:273: deduplication does not touch lines other than online ones.  A step
\* that rotates nothing takes no byte of theirs.
BytesOf(id, stream) == Len(SelectSeq(stream, LAMBDA b : b = id))
=============================================================================
