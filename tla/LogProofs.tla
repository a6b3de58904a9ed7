----------------------------- MODULE LogProofs -----------------------------
(***************************************************************************)
(* Proofs about Log.tla, for every limit on size and backups and every set *)
(* of line lengths.  While the log can be renamed it keeps to its size     *)
(* limit; whatever fails, the lines stay in order; when only renames and   *)
(* removals fail, the log and, until a backup is stuck, its backups read   *)
(* as the tail of what was logged, and the files are the volumes of a      *)
(* Journal.  All arguments go through the file systems that RotatingWriter *)
(* makes of a good one: each of its operations leaves a good one again.    *)
(***************************************************************************)
EXTENDS Log, DataLemmas, SequenceTheorems, TLAPS

AllEqual(s) == \A i, j \in 1..Len(s) : s[i] = s[j]

\* The size limit of one file system, and what it rests on: the handle that is open
\* is that of an existing log.
Small(f) == "rename" \in f.failed \/ Len(Present(f.log)) <= MaxSize \/ AllEqual(f.log)
Good(f) == f \in Files /\ (f.open => f.log # Absent) /\ Small(f)

-----------------------------------------------------------------------------
\* A file that is absent is no text.
LEMMA AbsentIsNoText == Absent \notin Seq(Nat) /\ Len(Present(Absent)) = 0
<1>1. Absent[1] \notin Nat /\ Len(Absent) = 1
  BY DEF Absent
<1>2. Absent \notin Seq(Nat)
  BY <1>1, ElementOfSeq
<1> QED
  BY <1>2, EmptySeq DEF Present

\* The backup numbers.
LEMMA TopIsNat == Top \in Nat \ {0} /\ MaxSize \in Nat
  BY LogAssumption DEF Top

\* A line is a text whose bytes all belong to it.
LEMMA LineFacts ==
  ASSUME lines \in Nat, NEW len \in Lens
  PROVE  Line(len) \in Seq(Nat) /\ Len(Line(len)) = len /\ AllEqual(Line(len))
<1>1. len \in Nat
  BY LogAssumption
<1>2. Line(len) \in [1..len -> Nat]
  BY <1>1 DEF Line
<1>3. Line(len) \in Seq(Nat)
  BY <1>1, <1>2, SeqDef
<1>4. Len(Line(len)) = len
  BY <1>1, <1>2, <1>3, LenProperties
<1> QED
  BY <1>1, <1>3, <1>4 DEF AllEqual, Line

\* A part of a line is one, too.
LEMMA PartOfLine ==
  ASSUME NEW line \in Seq(Nat), AllEqual(line), NEW k \in 0..Len(line)
  PROVE  /\ SubSeq(line, 1, k) \in Seq(Nat)
         /\ Len(SubSeq(line, 1, k)) = k
         /\ AllEqual(SubSeq(line, 1, k))
<1>1. Len(line) \in Nat
  BY LenProperties
<1>2. /\ SubSeq(line, 1, k) \in Seq(Nat)
      /\ Len(SubSeq(line, 1, k)) = k
      /\ \A i \in 1..k : SubSeq(line, 1, k)[i] = line[i]
  BY <1>1
<1> QED
  BY <1>1, <1>2 DEF AllEqual

\* rotateBatch: each backup is the file one below, or stays, or goes; the log is away
\* unless it is stuck, and what is stuck is remembered.
LEMMA RotatedGood ==
  ASSUME NEW f \in Files, NEW held, NEW stuck \in Stuck(f, held)
  PROVE  /\ Rotated(f, stuck) \in Files
         /\ Rotated(f, stuck).log = IF 0 \in stuck THEN f.log ELSE Absent
         /\ \A i \in 1..Top :
              Rotated(f, stuck).old[i] =
                IF i - 1 \notin stuck /\ Numbered(f, i - 1) # Absent THEN Numbered(f, i - 1)
                ELSE IF i \in stuck \/ i > MaxBackups THEN f.old[i]
                ELSE Absent
         /\ "rename" \in Rotated(f, stuck).failed <=> "rename" \in f.failed \/ 0 \in stuck
         /\ "shift" \in Rotated(f, stuck).failed <=> "shift" \in f.failed \/ stuck \ {0} # {}
         /\ Rotated(f, stuck).open = f.open
<1> DEFINE g == Rotated(f, stuck)
           old == [i \in 1..Top |->
                     IF i - 1 \notin stuck /\ Numbered(f, i - 1) # Absent THEN Numbered(f, i - 1)
                     ELSE IF i \in stuck \/ i > MaxBackups THEN f.old[i]
                     ELSE Absent]
           log == IF 0 \in stuck THEN f.log ELSE Absent
           failed == f.failed \cup {Fault(i) : i \in stuck}
<1>1. g = [f EXCEPT !.old = old, !.log = log, !.failed = failed]
  BY DEF Rotated
<1>2. \A i \in 1..Top : i - 1 # 0 => i - 1 \in 1..Top
  BY TopIsNat
<1>3. f.old \in [1..Top -> FileType] /\ f.log \in FileType /\ Absent \in FileType
      /\ f.failed \in SUBSET {"rename", "shift"}
  BY DEF Files, FileType
<1>4. old \in [1..Top -> FileType]
  <2>1. ASSUME NEW i \in 1..Top PROVE old[i] \in FileType
    <3>1. Numbered(f, i - 1) \in FileType
      BY <1>2, <1>3 DEF Numbered
    <3> QED
      BY <1>3, <3>1
  <2> QED
    BY <2>1
<1>5. failed \in SUBSET {"rename", "shift"}
  BY <1>3 DEF Fault
<1>6. "rename" \in failed <=> "rename" \in f.failed \/ 0 \in stuck
  <2>1. \A i : Fault(i) = "rename" <=> i = 0
    BY DEF Fault
  <2> QED
    BY <2>1
<1>7. "shift" \in failed <=> "shift" \in f.failed \/ stuck \ {0} # {}
  <2>1. \A i : Fault(i) = "shift" <=> i # 0
    BY DEF Fault
  <2> QED
    BY <2>1
<1>8. /\ g.old = old /\ g.log = log /\ g.failed = failed /\ g.open = f.open
      /\ g \in Files
  <2>1. log \in FileType
    BY <1>3
  <2> HIDE DEF old, log, failed
  <2> QED
    BY <1>1, <1>3, <1>4, <1>5, <2>1 DEF Files
<1> HIDE DEF g, failed
<1> QED
  BY <1>6, <1>7, <1>8 DEF g

\* Opening the log creates it, and the handle is on it.
LEMMA OpenedGood ==
  ASSUME NEW f \in Files, Small(f)
  PROVE  /\ Good(Opened(f))
         /\ f.log = Absent => Opened(f).log = <<>>
         /\ Opened(f).failed = f.failed
<1>1. <<>> \in Seq(Nat) /\ Len(<<>>) = 0
  BY EmptySeq
<1>2. <<>> # Absent
  BY <1>1, AbsentIsNoText
<1>3. Opened(f) \in Files /\ Opened(f).log # Absent
  BY <1>1, <1>2 DEF Opened, Files, FileType
<1>4. Small(Opened(f))
  BY <1>1, <1>2, TopIsNat DEF Small, Opened, Files, Present
<1> QED
  BY <1>3, <1>4 DEF Good, Opened, Files

\* A line, or what a failing write leaves of it, is added to a log that is empty,
\* has room for it, or could not be renamed.
LEMMA AppendedGood ==
  ASSUME NEW f, Good(f),
         NEW line \in Seq(Nat), AllEqual(line),
         f.open => \/ "rename" \in f.failed
                   \/ f.log = <<>>
                   \/ Len(f.log) + Len(line) <= MaxSize,
         NEW g \in Appended(f, line)
  PROVE  Good(g)
<1>1. CASE ~f.open
  BY <1>1 DEF Appended
<1>2. CASE f.open
  <2>1. f \in Files /\ f.log # Absent /\ f.log \in Seq(Nat)
    BY <1>2 DEF Good, Files, FileType
  <2>2. PICK k \in 0..Len(line) : g = [f EXCEPT !.log = f.log \o SubSeq(line, 1, k)]
    <3>1. Len(line) \in 0..Len(line)
      BY LenProperties
    <3> QED
      BY <1>2, <3>1 DEF Appended
  <2> DEFINE part == SubSeq(line, 1, k)
             log == f.log \o part
  <2>3. part \in Seq(Nat) /\ Len(part) = k /\ AllEqual(part)
    BY PartOfLine
  <2>4. log \in Seq(Nat) /\ Len(log) = Len(f.log) + k
    <3> HIDE DEF part
    <3> QED
      BY <2>1, <2>3, ConcatProperties
  <2>5. log # Absent
    BY <2>4, AbsentIsNoText
  <2> HIDE DEF part, log
  <2>6. g = [f EXCEPT !.log = log] /\ g.log = log /\ g.failed = f.failed
        /\ g.old = f.old /\ g \in Files
    BY <2>1, <2>2, <2>4 DEF Files, FileType, log, part
  <2>7. Small(g)
    <3>1. CASE "rename" \in f.failed
      BY <3>1, <2>6 DEF Small
    <3>2. CASE f.log = <<>>
      <4>1. log = part
        BY <3>2, <2>3, ConcatEmptySeq DEF log
      <4> QED
        BY <4>1, <2>3, <2>6 DEF Small
    <3>3. CASE Len(f.log) + Len(line) <= MaxSize
      <4>1. Len(f.log) \in Nat /\ Len(line) \in Nat /\ MaxSize \in Nat
        BY <2>1, LenProperties, TopIsNat
      <4>2. Len(log) <= MaxSize
        BY <3>3, <2>4, <4>1
      <4> QED
        BY <4>2, <2>5, <2>6 DEF Small, Present
    <3> QED
      BY <1>2, <3>1, <3>2, <3>3
  <2> QED
    BY <2>5, <2>6, <2>7 DEF Good
<1> QED
  BY <1>1, <1>2

\* RotatingWriter.Write, with whichever of its calls failing.
LEMMA WriteGood ==
  ASSUME NEW f, Good(f),
         NEW line \in Seq(Nat), AllEqual(line),
         NEW held,
         NEW g \in Write(f, line, held)
  PROVE  Good(g)
<1>0. f \in Files
  BY DEF Good
<1>1. CASE ~MustRotate(f, line)
  <2>1. f.open => Len(f.log) + Len(line) <= MaxSize
    <3> SUFFICES ASSUME f.open PROVE Len(f.log) + Len(line) <= MaxSize
      OBVIOUS
    <3>1. f.log \in Seq(Nat)
      BY DEF Good, Files, FileType
    <3>2. Len(f.log) \in Nat /\ Len(line) \in Nat /\ MaxSize \in Nat
      BY <3>1, LenProperties, TopIsNat
    <3> QED
      BY <1>1, <3>2 DEF MustRotate
  <2>2. g \in Appended(f, line)
    BY <1>1 DEF Write
  <2> QED
    BY <2>1, <2>2, AppendedGood
<1>2. CASE MustRotate(f, line)
  <2>1. f.log # Absent
    BY <1>2 DEF MustRotate, Good
  <2> DEFINE Left(stuck, o) ==
               LET h == Rotated(f, stuck)
               IN  IF o THEN Appended(Opened(h), line) ELSE {[h EXCEPT !.open = FALSE]}
  <2>2. PICK stuck \in Stuck(f, held), o \in BOOLEAN : g \in Left(stuck, o)
    <3>1. MayFail("open") \subseteq BOOLEAN
      BY DEF MayFail
    <3>2. g \in UNION {Left(stuck, o) : stuck \in Stuck(f, held), o \in MayFail("open")}
      BY <1>2 DEF Write
    <3> HIDE DEF Left
    <3> QED
      BY <3>1, <3>2
  <2> DEFINE h == Rotated(f, stuck)
  <2>3. /\ h \in Files
        /\ h.log = IF 0 \in stuck THEN f.log ELSE Absent
        /\ "rename" \in h.failed <=> "rename" \in f.failed \/ 0 \in stuck
    BY <1>0, <2>1, RotatedGood
  <2> HIDE DEF h
  <2>4. Small(h)
    BY <2>3, AbsentIsNoText, TopIsNat DEF Small
  <2>5. CASE o
    <3>1. Good(Opened(h)) /\ ("rename" \in Opened(h).failed \/ Opened(h).log = <<>>)
      BY <2>3, <2>4, OpenedGood
    <3>2. g \in Appended(Opened(h), line)
      BY <2>2, <2>5 DEF h
    <3> QED
      BY <3>1, <3>2, AppendedGood
  <2>6. CASE ~o
    <3>1. g = [h EXCEPT !.open = FALSE]
      BY <2>2, <2>6 DEF h
    <3>2. g \in Files /\ g.log = h.log /\ g.old = h.old /\ g.failed = h.failed /\ ~g.open
      BY <3>1, <2>3 DEF Files
    <3> QED
      BY <3>2, <2>3, <2>4 DEF Good, Small
  <2> QED
    BY <2>5, <2>6
<1> QED
  BY <1>1, <1>2

\* What a writer that works on the path leaves of the log: its start.
LEMMA TruncatedGood ==
  ASSUME NEW f, Good(f), NEW size \in Nat,
         size = 0 \/ (f.open /\ size <= Len(f.log)),
         NEW g \in Truncated(f, size)
  PROVE  Good(g)
<1> DEFINE cut == [j \in 1..size |-> IF j <= Len(f.log) THEN f.log[j] ELSE Zero]
<1>1. f \in Files /\ f.log # Absent /\ f.log \in Seq(Nat)
  BY DEF Truncated, Good, Files, FileType
<1>2. Len(f.log) \in Nat /\ size <= Len(f.log)
  BY <1>1, LenProperties
<1>3. \A j \in 1..size : cut[j] = f.log[j] /\ cut[j] \in Nat
  BY <1>1, <1>2, ElementOfSeq
<1>4. cut \in [1..size -> Nat]
  BY <1>3
<1>5. cut \in Seq(Nat)
  BY <1>4, SeqDef
<1>6. Len(cut) = size
  BY <1>4, <1>5, LenProperties
<1>7. g = [f EXCEPT !.log = cut]
  BY <1>1 DEF Truncated
<1> HIDE DEF cut
<1>8. g \in Files /\ g.log = cut /\ g.failed = f.failed /\ g.old = f.old /\ g.open = f.open
  BY <1>1, <1>5, <1>7 DEF Files, FileType
<1>9. cut # Absent
  BY <1>5, AbsentIsNoText
<1>10. Small(g)
  <2>1. CASE Len(f.log) <= MaxSize
    <3>1. Len(cut) <= MaxSize
      BY <2>1, <1>2, <1>6, TopIsNat
    <3> QED
      BY <3>1, <1>8, <1>9 DEF Small, Present
  <2>2. CASE AllEqual(f.log)
    BY <2>2, <1>2, <1>3, <1>6, <1>8 DEF Small, AllEqual
  <2>3. CASE "rename" \in f.failed
    BY <2>3, <1>8 DEF Small
  <2> QED
    BY <2>1, <2>2, <2>3, <1>1 DEF Good, Small, Present
<1> QED
  BY <1>8, <1>9, <1>10 DEF Good

\* The rotation at a start.
LEMMA RotatedIfNeededGood ==
  ASSUME NEW f, Good(f), NEW held, NEW g \in RotatedIfNeeded(f, held)
  PROVE  g \in Files /\ Small(g)
<1>1. CASE f.log = Absent \/ Len(f.log) < MaxSize
  BY <1>1 DEF RotatedIfNeeded, Good
<1>2. CASE f.log # Absent /\ ~(Len(f.log) < MaxSize)
  <2>1. PICK stuck \in Stuck(f, held) : g = Rotated(f, stuck)
    BY <1>2 DEF RotatedIfNeeded
  <2>2. /\ g \in Files
        /\ g.log = IF 0 \in stuck THEN f.log ELSE Absent
        /\ "rename" \in g.failed <=> "rename" \in f.failed \/ 0 \in stuck
    BY <1>2, <2>1, RotatedGood DEF Good
  <2> QED
    BY <2>2, AbsentIsNoText, TopIsNat DEF Small
<1> QED
  BY <1>1, <1>2

\* The clean-up removes some backups, and nothing else.
LEMMA CleanedGood ==
  ASSUME NEW f \in Files, Small(f), NEW removed \in SUBSET (1..Top)
  PROVE  Cleaned(f, removed) \in Files /\ Small(Cleaned(f, removed))
<1> DEFINE g == Cleaned(f, removed)
           old == [i \in 1..Top |-> IF i \in removed \cap Reached(f) THEN Absent ELSE f.old[i]]
<1>1. g = [f EXCEPT !.old = old]
  BY DEF Cleaned
<1>2. old \in [1..Top -> FileType]
  BY DEF Files, FileType
<1>3. g \in Files /\ g.log = f.log /\ g.failed = f.failed
  <2> HIDE DEF old
  <2> QED
    BY <1>1, <1>2 DEF Files
<1> QED
  BY <1>3 DEF Small

\* Another command's start: it cannot rename the log that the guard has open.
LEMMA CommandGood ==
  ASSUME NEW f, Good(f), f.open, NEW g \in RotatedIfNeeded(f, {0}),
         NEW removed \in SUBSET (1..Top)
  PROVE  Good(Cleaned(g, removed))
<1>1. g \in Files /\ Small(g)
  BY RotatedIfNeededGood
<1>2. g.log = f.log /\ f.log # Absent
  <2>1. g = f \/ \E stuck \in Stuck(f, {0}) : g = Rotated(f, stuck)
    BY DEF RotatedIfNeeded
  <2>2. \A stuck \in Stuck(f, {0}) : 0 \in stuck
    BY DEF Stuck
  <2>3. f \in Files /\ f.log # Absent
    BY DEF Good
  <2> QED
    BY <2>1, <2>2, <2>3, RotatedGood
<1>3. Cleaned(g, removed).log = g.log
  BY <1>1 DEF Cleaned, Files
<1> QED
  BY <1>1, <1>2, <1>3, CleanedGood DEF Good

-----------------------------------------------------------------------------
\* The inductive invariant: the files are good, and the rest is well typed.
IInv == TypeOK /\ Good(fs)

\* One guard's steps and other commands' keep it, whatever calls fail.
THEOREM Invariance == SharedSpec => []IInv
<1>1. Init => IInv
  <2> SUFFICES ASSUME Init PROVE IInv
    OBVIOUS
  <2>1. <<>> \in Seq(Nat) /\ Len(<<>>) = 0 /\ <<>> # Absent
    BY EmptySeq, AbsentIsNoText
  <2>2. fs \in Files
    BY <2>1 DEF Init, Files, FileType
  <2>3. Small(fs) /\ (fs.open => fs.log # Absent)
    BY <2>1, TopIsNat DEF Init, Small, Present
  <2>5. onlineBuf \in Seq(Lens) /\ Len(onlineBuf) <= 2 /\ lines \in 0..MaxLines
    BY LogAssumption, EmptySeq DEF Init
  <2>6. kept \in Seq([id : 1..MaxLines, on : BOOLEAN, len : Lens])
    BY EmptySeq DEF Init
  <2> QED
    BY <2>2, <2>3, <2>5, <2>6 DEF IInv, TypeOK, Good
<1>2. IInv /\ [SharedNext]_vars => IInv'
  <2> SUFFICES ASSUME IInv, [SharedNext]_vars PROVE IInv'
    OBVIOUS
  <2>0. /\ fs \in Files /\ onlineBuf \in Seq(Lens) /\ Len(onlineBuf) <= 2
        /\ lines \in Nat /\ MaxLines \in Nat /\ Good(fs) /\ Lens \subseteq Nat \ {0}
        /\ lines \in 0..MaxLines
        /\ kept \in Seq([id : 1..MaxLines, on : BOOLEAN, len : Lens])
    BY LogAssumption DEF IInv, TypeOK
  <2>1. ASSUME NEW on \in BOOLEAN, NEW len \in Lens, Logged(on, len)
        PROVE  /\ lines' \in 0..MaxLines
               /\ kept' \in Seq([id : 1..MaxLines, on : BOOLEAN, len : Lens])
    <3> DEFINE Entry == [id : 1..MaxLines, on : BOOLEAN, len : Lens]
               entry == [id |-> lines + 1, on |-> on, len |-> len]
    <3>1. lines' = lines + 1 /\ lines < MaxLines
      BY <2>1 DEF Logged
    <3>2. entry \in Entry
      BY <2>0, <3>1
    <3>3. \/ kept' = Append(kept, entry)
          \/ kept' = [kept EXCEPT ![Len(kept)] = entry] /\ Len(kept) >= 2
      BY <2>1 DEF Logged, Keep
    <3> HIDE DEF Entry, entry
    <3>4. kept \in Seq(Entry) /\ Len(kept) \in Nat
      BY <2>0, LenProperties DEF Entry
    <3>5. kept' \in Seq(Entry)
      <4>1. CASE kept' = Append(kept, entry)
        BY <4>1, <3>2, <3>4, AppendProperties
      <4>2. CASE kept' = [kept EXCEPT ![Len(kept)] = entry] /\ Len(kept) >= 2
        <5>1. Len(kept) \in 1..Len(kept)
          BY <3>4, <4>2
        <5> QED
          BY <4>2, <5>1, <3>2, <3>4, ExceptSeq
      <4> QED
        BY <3>3, <4>1, <4>2
    <3> QED
      BY <2>0, <3>1, <3>5 DEF Entry
  <2>3. ASSUME NEW len \in Lens
        PROVE  Line(len) \in Seq(Nat) /\ AllEqual(Line(len))
    BY <2>0, LineFacts
  <2>4. ASSUME NEW len \in Lens, LogOther(len) PROVE IInv'
    <3>1. fs' \in Write(fs, Line(len), {}) /\ Logged(FALSE, len) /\ onlineBuf' = <<>>
      BY <2>4 DEF LogOther
    <3>2. Good(fs')
      BY <3>1, <2>0, <2>3, WriteGood
    <3>3. onlineBuf' \in Seq(Lens) /\ Len(onlineBuf') <= 2
      BY <3>1, EmptySeq
    <3> QED
      BY <3>1, <3>2, <3>3, <2>1 DEF IInv, TypeOK, Good, Small
  <2>5. ASSUME NEW len \in Lens, LogOnline(len) PROVE IInv'
    <3>1. /\ fs' \in Write(fs, Line(len), {}) /\ Logged(TRUE, len)
          /\ onlineBuf' = Append(onlineBuf, len) /\ Len(onlineBuf) < 2
      BY <2>5 DEF LogOnline
    <3>2. Good(fs')
      BY <3>1, <2>0, <2>3, WriteGood
    <3>3. onlineBuf' \in Seq(Lens) /\ Len(onlineBuf') <= 2
      BY <3>1, <2>0, AppendProperties, LenProperties
    <3> QED
      BY <3>1, <3>2, <3>3, <2>1 DEF IInv, TypeOK, Good, Small
  <2>6. ASSUME NEW len \in Lens, LogOnlineAgain(len) PROVE IInv'
    <3> DEFINE size == IF TargetSize < 0 THEN 0 ELSE TargetSize
               cut == Truncated(fs, size)
    <3>1. Logged(TRUE, len) /\ Len(onlineBuf) = 2
      BY <2>6 DEF LogOnlineAgain
    <3>2. onlineBuf[1] \in Lens /\ onlineBuf[2] \in Lens /\ onlineBuf[2] \in Nat
      <4>1. 1 \in 1..Len(onlineBuf) /\ 2 \in 1..Len(onlineBuf)
        BY <3>1
      <4> QED
        BY <2>0, <4>1, ElementOfSeq
    <3>3. size \in Nat /\ (size = 0 \/ (fs.open /\ size <= Len(fs.log)))
      <4>1. CASE ~fs.open
        BY <4>1, <3>2 DEF TargetSize, CurrentSize
      <4>2. CASE fs.open
        <5>1. Len(fs.log) \in Nat
          BY <4>2, <2>0, LenProperties DEF Good, Files, FileType
        <5> QED
          BY <4>2, <5>1, <3>2 DEF TargetSize, CurrentSize
      <4> QED
        BY <4>1, <4>2
    <3>4. \/ UNCHANGED <<fs, onlineBuf>>
          \/ /\ onlineBuf' = <<onlineBuf[1], len>>
             /\ fs' \in UNION {Write(f, Line(len), {}) : f \in cut}
      BY <2>6 DEF LogOnlineAgain
    <3> HIDE DEF size
    <3>5. CASE UNCHANGED <<fs, onlineBuf>>
      BY <3>1, <3>5, <2>0, <2>1 DEF IInv, TypeOK, Good, Small
    <3>6. CASE /\ onlineBuf' = <<onlineBuf[1], len>>
               /\ fs' \in UNION {Write(f, Line(len), {}) : f \in cut}
      <4>1. PICK f \in cut : fs' \in Write(f, Line(len), {})
        BY <3>6
      <4>2. Good(f)
        BY <2>0, <3>3, TruncatedGood
      <4>3. Good(fs')
        BY <4>1, <4>2, <2>3, WriteGood
      <4>4. onlineBuf' \in Seq(Lens) /\ Len(onlineBuf') <= 2
        BY <3>2, <3>6
      <4> QED
        BY <3>1, <4>3, <4>4, <2>1 DEF IInv, TypeOK, Good, Small
    <3> QED
      BY <3>4, <3>5, <3>6
  <2>7. ASSUME NEW len \in Lens, NEW removed \in SUBSET (1..Top), Restart(len, removed) PROVE IInv'
    <3>1. Logged(FALSE, len) /\ onlineBuf' = <<>>
      BY <2>7 DEF Restart
    <3>2. PICK f \in RotatedIfNeeded(fs, {}) :
            fs' \in Write(Opened(Cleaned(f, removed)), Line(len), {})
      BY <2>7 DEF Restart
    <3>3. f \in Files /\ Small(f)
      BY <2>0, RotatedIfNeededGood
    <3>4. Good(Opened(Cleaned(f, removed)))
      BY <3>3, CleanedGood, OpenedGood
    <3>5. Good(fs')
      BY <3>2, <3>4, <2>3, WriteGood
    <3>6. onlineBuf' \in Seq(Lens) /\ Len(onlineBuf') <= 2
      BY <3>1, EmptySeq
    <3> QED
      BY <3>1, <3>5, <3>6, <2>1 DEF IInv, TypeOK, Good, Small
  <2>8. ASSUME NEW len \in Lens, NEW removed \in SUBSET (1..Top), Command(len, removed) PROVE IInv'
    <3>1. fs.open /\ Logged(FALSE, len) /\ onlineBuf' = onlineBuf
      BY <2>8 DEF Command
    <3>2. PICK f \in RotatedIfNeeded(fs, {0}) :
            fs' \in Write(Cleaned(f, removed), Line(len), {0})
      BY <2>8 DEF Command
    <3>5. Good(Cleaned(f, removed))
      BY <2>0, <3>1, CommandGood
    <3>6. Good(fs')
      BY <3>2, <3>5, <2>3, WriteGood
    <3> QED
      BY <2>0, <3>1, <3>6, <2>1 DEF IInv, TypeOK, Good, Small
  <2>9. CASE UNCHANGED vars
    BY <2>9, <2>0 DEF vars, IInv, TypeOK, Good, Small
  <2> QED
    BY <2>4, <2>5, <2>6, <2>7, <2>8, <2>9 DEF SharedNext, Next, Full
<1> QED
  BY <1>1, <1>2, PTL DEF SharedSpec

\* What holds of a guard among other commands holds of one by itself.
LEMMA SpecIsShared == Spec => SharedSpec
<1>1. [Next]_vars => [SharedNext]_vars
  BY DEF SharedNext
<1> QED
  BY <1>1, PTL DEF Spec, SharedSpec

\* The files and the buffer keep their types, the buffer its two entries.
THEOREM TypeCorrect == SharedSpec => []TypeOK
<1>1. IInv => TypeOK
  BY DEF IInv
<1> QED
  BY <1>1, Invariance, PTL

\* The log never outgrows its limit, unless one line alone does or it could not be
\* renamed (RotatingWriter.Write).
THEOREM LogStaysSmall == SharedSpec => []SizeBound
<1>1. IInv => SizeBound
  BY DEF IInv, Good, Small, AllEqual, SizeBound
<1> QED
  BY <1>1, Invariance, PTL

-----------------------------------------------------------------------------
(* What the log and its backups read as, when only renames and removals fail. *)

\* The texts of the k newest backups, the oldest of them first, and what they
\* read as together with the log: one of some texts, for every k without a gap, and
\* for the log alone once a backup was stuck.
Older(f, k) == [i \in 1..k |-> Present(f.old[k + 1 - i])]
Read(f, k) == FlattenSeq(Older(f, k)) \o Present(f.log)
Whole(f, k) ==
  (k # 0 => "shift" \notin f.failed) /\ \A i \in 1..k : f.old[i] # Absent
Reads(f, texts) == \A k \in 0..Top : Whole(f, k) => Read(f, k) \in texts
With(texts, line) == {s \o line : s \in texts}
Tails(p) == {s \in Seq(Nat) : IsSuffix(s, p)}

\* The newer a file the greater its bytes, and none belongs to a line after n.
Bytes(s) == {s[i] : i \in 1..Len(s)}
TextOf(f, i) == IF i = 0 THEN Present(f.log) ELSE Present(f.old[i])
BytesIn(f, i) == IF i = 0 THEN Bytes(Present(f.log)) ELSE Bytes(Present(f.old[i]))
Before(B, C) == \A b \in B, c \in C : b < c
Ordered(f, n) ==
  /\ \A i, j \in 0..Top : i < j => Before(BytesIn(f, j), BytesIn(f, i))
  /\ \A i \in 0..Top : \A b \in BytesIn(f, i) : b <= n

\* Joining texts.
LEMMA Joined ==
  ASSUME NEW s \in Seq(Nat), NEW t \in Seq(Nat)
  PROVE  /\ s \o t \in Seq(Nat) /\ Len(s \o t) = Len(s) + Len(t)
         /\ \A i \in 1..(Len(s) + Len(t)) :
              (s \o t)[i] = IF i <= Len(s) THEN s[i] ELSE t[i - Len(s)]
BY ConcatProperties

\* What is in a file, if anything, is a text of at least no bytes.
LEMMA PresentIsText ==
  ASSUME NEW x \in FileType
  PROVE  Present(x) \in Seq(Nat) /\ (x # Absent => Present(x) = x) /\ (x = Absent => Present(x) = <<>>)
BY EmptySeq DEF Present, FileType

\* Any number of backups and the log read as a text.
LEMMA ReadIsText ==
  ASSUME NEW f \in Files, NEW k \in 0..Top
  PROVE  /\ Older(f, k) \in Seq(Seq(Nat)) /\ Len(Older(f, k)) = k
         /\ FlattenSeq(Older(f, k)) \in Seq(Nat)
         /\ Read(f, k) \in Seq(Nat)
<1>0. k \in Nat /\ \A i \in 1..k : k + 1 - i \in 1..Top
  BY TopIsNat
<1>1. \A i \in 1..k : Present(f.old[k + 1 - i]) \in Seq(Nat)
  BY <1>0, PresentIsText DEF Files
<1>2. Older(f, k) \in [1..k -> Seq(Nat)]
  BY <1>1 DEF Older
<1>3. Older(f, k) \in Seq(Seq(Nat))
  BY <1>0, <1>2, SeqDef
<1>4. Len(Older(f, k)) = k
  BY <1>0, <1>2, <1>3, LenProperties
<1>5. FlattenSeq(Older(f, k)) \in Seq(Nat)
  BY <1>3, FlattenType
<1>6. Present(f.log) \in Seq(Nat)
  BY PresentIsText DEF Files
<1> QED
  BY <1>3, <1>4, <1>5, <1>6, ConcatProperties DEF Read

\* The log alone reads as itself.
LEMMA ReadLog ==
  ASSUME NEW f \in Files
  PROVE  Read(f, 0) = Present(f.log)
<1>1. Older(f, 0) \in Seq(Seq(Nat)) /\ Len(Older(f, 0)) = 0
  BY ReadIsText, TopIsNat
<1>2. Older(f, 0) = <<>>
  BY <1>1, EmptySeq
<1>3. FlattenSeq(Older(f, 0)) = <<>>
  BY <1>1, <1>2, FlattenNone
<1>4. Present(f.log) \in Seq(Nat)
  BY PresentIsText DEF Files
<1> QED
  BY <1>3, <1>4, ConcatEmptySeq DEF Read

\* Files of the same texts read the same.
LEMMA ReadsAlike ==
  ASSUME NEW f, NEW g, NEW k \in Nat, Present(g.log) = Present(f.log),
         \A i \in 1..k : Present(g.old[i]) = Present(f.old[i])
  PROVE  Read(g, k) = Read(f, k)
<1>1. \A i \in 1..k : k + 1 - i \in 1..k
  OBVIOUS
<1>2. Older(g, k) = Older(f, k)
  BY <1>1 DEF Older
<1> QED
  BY <1>2 DEF Read

\* After a rotation a backup more reads as what one fewer did before it.
LEMMA ReadRotated ==
  ASSUME NEW f \in Files, f.log # Absent, NEW g \in Files, g.log = Absent, g.old[1] = f.log,
         NEW k \in 1..Top, \A i \in 2..k : g.old[i] = f.old[i - 1]
  PROVE  Read(g, k) = Read(f, k - 1)
<1> DEFINE s == Older(f, k - 1)
           t == Older(g, k)
<1>0. k \in Nat /\ k - 1 \in 0..Top /\ k \in 0..Top /\ k \in 1..k
  BY TopIsNat
<1>1. /\ s \in Seq(Seq(Nat)) /\ Len(s) = k - 1 /\ t \in Seq(Seq(Nat)) /\ Len(t) = k
      /\ FlattenSeq(t) \in Seq(Nat)
  BY <1>0, ReadIsText
<1>2. ASSUME NEW i \in 1..(k - 1) PROVE s[i] = t[i]
  <2>1. k + 1 - i \in 2..k /\ (k + 1 - i) - 1 = (k - 1) + 1 - i /\ i \in 1..k
    BY <1>0
  <2>2. g.old[k + 1 - i] = f.old[(k - 1) + 1 - i]
    BY <2>1
  <2> QED
    BY <2>1, <2>2 DEF Older
<1>3. t[k] = f.log
  <2>1. k + 1 - k = 1
    BY <1>0
  <2> QED
    BY <1>0, <2>1 DEF Older, Present
<1> HIDE DEF s, t
<1>4. FlattenSeq(t) = FlattenSeq(s) \o f.log
  <2>1. Len(t) = Len(s) + 1 /\ \A i \in 1..Len(s) : s[i] = t[i]
    BY <1>0, <1>1, <1>2
  <2>2. FlattenSeq(t) = FlattenSeq(s) \o t[Len(t)]
    BY <1>1, <2>1, FlattenMore
  <2> QED
    BY <1>1, <1>3, <2>2
<1>5. FlattenSeq(t) \o <<>> = FlattenSeq(t)
  BY <1>1, ConcatEmptySeq
<1> QED
  BY <1>4, <1>5 DEF Read, Present, s, t

\* Every text ends with no text, and with itself.
LEMMA EmptySuffix ==
  ASSUME NEW p \in Seq(Nat)
  PROVE  IsSuffix(<<>>, p) /\ IsSuffix(p, p)
<1>1. <<>> \in Seq(Nat) /\ p = p \o <<>> /\ p = <<>> \o p
  BY EmptySeq, ConcatEmptySeq
<1> QED
  BY <1>1, SuffixIsJoin

\* The tails of a text, with a line, are tails of the text with that line.
LEMMA TailsGrow ==
  ASSUME NEW p \in Seq(Nat), NEW line \in Seq(Nat)
  PROVE  <<>> \in Tails(p) /\ With(Tails(p), line) \subseteq Tails(p \o line)
<1>1. <<>> \in Tails(p)
  BY EmptySeq, EmptySuffix DEF Tails
<1>2. ASSUME NEW s \in Seq(Nat), IsSuffix(s, p) PROVE s \o line \in Tails(p \o line)
  <2>1. PICK q \in Seq(Nat) : p = q \o s
    BY <1>2, SuffixIsJoin
  <2>2. (q \o s) \o line = q \o (s \o line)
    BY Regrouped
  <2>3. s \o line \in Seq(Nat) /\ p \o line \in Seq(Nat)
    BY ConcatProperties
  <2>4. IsSuffix(s \o line, p \o line)
    BY <2>1, <2>2, <2>3, SuffixIsJoin
  <2> QED
    BY <2>3, <2>4 DEF Tails
<1> QED
  BY <1>1, <1>2 DEF With, Tails

\* The texts of the files, and their bytes.
LEMMA TextFacts ==
  ASSUME NEW f \in Files, NEW i \in 0..Top
  PROVE  TextOf(f, i) \in Seq(Nat) /\ BytesIn(f, i) = Bytes(TextOf(f, i))
<1>1. f.log \in FileType /\ (i # 0 => f.old[i] \in FileType)
  BY TopIsNat DEF Files
<1> QED
  BY <1>1, PresentIsText DEF TextOf, BytesIn

\* A rotation leaves a text where it is, moves it one up, or drops it.
LEMMA RotatedTexts ==
  ASSUME NEW f \in Files, NEW held, NEW stuck \in Stuck(f, held), NEW i \in 0..Top
  PROVE  \/ TextOf(Rotated(f, stuck), i) = <<>>
         \/ /\ i \in stuck \/ i > MaxBackups
            /\ TextOf(Rotated(f, stuck), i) = TextOf(f, i)
         \/ /\ i # 0 /\ i - 1 \in 0..Top /\ i - 1 \notin stuck
            /\ TextOf(Rotated(f, stuck), i) = TextOf(f, i - 1)
<1> DEFINE g == Rotated(f, stuck)
<1>1. /\ g.log = IF 0 \in stuck THEN f.log ELSE Absent
      /\ \A j \in 1..Top :
           g.old[j] = IF j - 1 \notin stuck /\ Numbered(f, j - 1) # Absent THEN Numbered(f, j - 1)
                      ELSE IF j \in stuck \/ j > MaxBackups THEN f.old[j]
                      ELSE Absent
  BY RotatedGood
<1> HIDE DEF g
<1>2. Present(Absent) = <<>>
  BY DEF Present
<1>3. CASE i = 0
  BY <1>1, <1>2, <1>3 DEF TextOf, g
<1>4. CASE i # 0
  <2>1. i \in 1..Top /\ i - 1 \in 0..Top
    BY <1>4, TopIsNat
  <2>2. TextOf(g, i) = Present(g.old[i]) /\ TextOf(f, i) = Present(f.old[i])
        /\ TextOf(f, i - 1) = Present(Numbered(f, i - 1))
    BY <1>4 DEF TextOf, Numbered
  <2> QED
    BY <1>1, <1>2, <1>4, <2>1, <2>2 DEF g
<1> QED
  BY <1>3, <1>4

\* A rotation, whichever renames fail, leaves what is left in order.
LEMMA RotatedReads ==
  ASSUME NEW f \in Files, f.log # Absent, NEW held, NEW stuck \in Stuck(f, held),
         NEW texts, <<>> \in texts, Reads(f, texts)
  PROVE  Reads(Rotated(f, stuck), texts)
<1> DEFINE g == Rotated(f, stuck)
<1>1. /\ g \in Files /\ g.log = IF 0 \in stuck THEN f.log ELSE Absent
      /\ "shift" \in g.failed <=> "shift" \in f.failed \/ stuck \ {0} # {}
      /\ \A i \in 1..Top :
           g.old[i] = IF i - 1 \notin stuck /\ Numbered(f, i - 1) # Absent THEN Numbered(f, i - 1)
                      ELSE IF i \in stuck \/ i > MaxBackups THEN f.old[i]
                      ELSE Absent
  BY RotatedGood
<1> HIDE DEF g
<1> SUFFICES ASSUME NEW k \in 0..Top, Whole(g, k) PROVE Read(g, k) \in texts
  BY DEF Reads, g
<1>3. k \in Nat /\ Top \in Nat \ {0} /\ 1 \in 1..Top /\ (MaxBackups # 0 => Top = MaxBackups)
      /\ (MaxBackups = 0 => Top = 1) /\ MaxBackups \in Nat
  BY TopIsNat, LogAssumption DEF Top
<1>4. k # 0 => /\ "shift" \notin f.failed
               /\ \A i \in stuck : i = 0
  BY <1>1 DEF Whole
<1>5. CASE k = 0
  <2>1. CASE 0 \in stuck
    <3>1. Read(g, k) = Read(f, k)
      BY <1>1, <1>3, <1>5, <2>1, ReadsAlike
    <3> QED
      BY <1>5, <3>1 DEF Reads, Whole
  <2>2. CASE 0 \notin stuck
    <3>1. Read(g, 0) = <<>>
      BY <1>1, <2>2, ReadLog DEF Present
    <3> QED
      BY <1>5, <3>1
  <2> QED
    BY <2>1, <2>2
<1>6. CASE k # 0 /\ 0 \notin stuck
  <2>1. k \in 1..Top /\ k - 1 \in 0..Top /\ \A i \in 2..k : i \in 1..Top /\ i - 1 # 0
    BY <1>3, <1>6
  <2>2. stuck = {}
    BY <1>4, <1>6
  <2>3. g.log = Absent /\ g.old[1] = f.log
    BY <1>1, <1>3, <1>6, <2>2 DEF Numbered
  <2>4. ASSUME NEW i \in 2..k PROVE g.old[i] = f.old[i - 1]
    <3>1. i \in 1..Top /\ i - 1 # 0 /\ i \in 1..k /\ (MaxBackups = 0 => FALSE) /\ ~(i > Top)
      BY <1>3, <2>1
    <3>2. g.old[i] # Absent /\ ~(i > MaxBackups)
      BY <1>3, <3>1 DEF Whole
    <3> QED
      BY <1>1, <2>2, <3>1, <3>2 DEF Numbered
  <2>5. Read(g, k) = Read(f, k - 1)
    BY <1>1, <2>1, <2>3, <2>4, ReadRotated
  <2>6. Whole(f, k - 1)
    <3>1. ASSUME NEW i \in 1..(k - 1) PROVE f.old[i] # Absent
      <4>1. i + 1 \in 2..k /\ i + 1 \in 1..k /\ (i + 1) - 1 = i
        BY <1>3
      <4> QED
        BY <2>4, <4>1 DEF Whole
    <3> QED
      BY <1>4, <1>6, <3>1 DEF Whole
  <2> QED
    BY <2>1, <2>5, <2>6 DEF Reads
<1>7. CASE k # 0 /\ 0 \in stuck
  <2>1. Present(g.log) = Present(f.log)
    BY <1>1, <1>7
  <2>2. 1 \in 1..k /\ g.old[1] # Absent
    BY <1>3, <1>7 DEF Whole
  <2>3. 1 - 1 \in stuck /\ 1 \notin stuck
    BY <1>4, <1>7
  <2>4. 1 > MaxBackups /\ g.old[1] = f.old[1]
    BY <1>1, <1>3, <2>2, <2>3
  <2>5. MaxBackups = 0 /\ Top = 1 /\ k = 1
    BY <1>3, <1>7, <2>4
  <2>6. Read(g, k) = Read(f, k)
    BY <1>3, <2>1, <2>4, <2>5, ReadsAlike
  <2>7. Whole(f, k)
    BY <1>4, <1>7, <2>2, <2>4, <2>5 DEF Whole
  <2> QED
    BY <2>6, <2>7 DEF Reads
<1> QED
  BY <1>5, <1>6, <1>7

\* A rotation leaves the order of the files: a text that moves up meets none that stays,
\* for what stays is stuck.
LEMMA RotatedOrdered ==
  ASSUME NEW f \in Files, NEW held, NEW stuck \in Stuck(f, held),
         NEW n \in Nat, Ordered(f, n)
  PROVE  Ordered(Rotated(f, stuck), n)
<1> DEFINE g == Rotated(f, stuck)
           From(i, j) == /\ j \in 0..Top /\ TextOf(g, i) = TextOf(f, j)
                         /\ \/ j = i /\ (i \in stuck \/ i > MaxBackups)
                            \/ j = i - 1 /\ j \notin stuck
<1>1. g \in Files
  BY RotatedGood
<1>2. Top \in Nat \ {0} /\ MaxBackups \in Nat /\ (MaxBackups # 0 => Top = MaxBackups)
      /\ (MaxBackups = 0 => Top = 1)
  BY TopIsNat, LogAssumption DEF Top
<1>3. ASSUME NEW i \in 0..Top PROVE BytesIn(g, i) = {} \/ \E j \in 0..Top : From(i, j)
  <2>1. TextOf(g, i) = <<>> => BytesIn(g, i) = {}
    BY <1>1, TextFacts, EmptySeq DEF Bytes
  <2> QED
    BY <2>1, RotatedTexts
<1> HIDE DEF g
<1>4. \A i, j \in 0..Top : From(i, j) => BytesIn(g, i) = BytesIn(f, j)
  BY <1>1, TextFacts
<1>5. ASSUME NEW i \in 0..Top, NEW j \in 0..Top, i < j, NEW k \in 0..Top, NEW l \in 0..Top,
             From(i, k), From(j, l)
      PROVE  k < l
  BY <1>2, <1>5
<1>6. ASSUME NEW i \in 0..Top, NEW j \in 0..Top, i < j PROVE Before(BytesIn(g, j), BytesIn(g, i))
  <2>1. CASE BytesIn(g, i) = {} \/ BytesIn(g, j) = {}
    BY <2>1 DEF Before
  <2>2. CASE BytesIn(g, i) # {} /\ BytesIn(g, j) # {}
    <3>1. PICK k \in 0..Top, l \in 0..Top : From(i, k) /\ From(j, l)
      BY <1>3, <2>2
    <3>2. Before(BytesIn(f, l), BytesIn(f, k))
      BY <1>5, <1>6, <3>1 DEF Ordered
    <3>3. BytesIn(g, i) = BytesIn(f, k) /\ BytesIn(g, j) = BytesIn(f, l)
      BY <1>4, <3>1
    <3> QED
      BY <3>2, <3>3
  <2> QED
    BY <2>1, <2>2
<1>7. ASSUME NEW i \in 0..Top, NEW b \in BytesIn(g, i) PROVE b <= n
  <2>1. PICK j \in 0..Top : From(i, j)
    BY <1>3, <1>7
  <2>2. b \in BytesIn(f, j)
    BY <1>4, <1>7, <2>1
  <2> QED
    BY <2>2 DEF Ordered
<1> QED
  BY <1>6, <1>7 DEF Ordered, g

\* Files with the same texts, or some of them gone, keep their order.
LEMMA FewerOrdered ==
  ASSUME NEW f, NEW g, NEW n \in Nat, Ordered(f, n), \A i \in 0..Top : BytesIn(g, i) \subseteq BytesIn(f, i)
  PROVE  Ordered(g, n)
<1>1. ASSUME NEW i \in 0..Top, NEW j \in 0..Top, i < j PROVE Before(BytesIn(g, j), BytesIn(g, i))
  <2>1. Before(BytesIn(f, j), BytesIn(f, i))
    BY <1>1 DEF Ordered
  <2> QED
    BY <2>1 DEF Before
<1>2. ASSUME NEW i \in 0..Top, NEW b \in BytesIn(g, i) PROVE b <= n
  BY DEF Ordered
<1> QED
  BY <1>1, <1>2 DEF Ordered

\* Opening the log changes no text.
LEMMA OpenedReads ==
  ASSUME NEW f \in Files, NEW n \in Nat, NEW texts, Reads(f, texts), Ordered(f, n)
  PROVE  Reads(Opened(f), texts) /\ Ordered(Opened(f), n)
<1> DEFINE g == Opened(f)
<1>0. <<>> # Absent
  BY EmptySeq, AbsentIsNoText
<1>1. g.old = f.old /\ Present(g.log) = Present(f.log) /\ g.failed = f.failed
  BY <1>0 DEF Opened, Files, Present
<1> HIDE DEF g
<1>2. ASSUME NEW k \in 0..Top, Whole(g, k) PROVE Read(g, k) \in texts
  <2>1. Read(g, k) = Read(f, k) /\ Whole(f, k)
    BY <1>1, <1>2, ReadsAlike, TopIsNat DEF Whole
  <2> QED
    BY <2>1 DEF Reads
<1>3. \A i \in 0..Top : BytesIn(g, i) = BytesIn(f, i)
  BY <1>1 DEF BytesIn
<1>4. Ordered(g, n)
  BY <1>3, FewerOrdered
<1> QED
  BY <1>2, <1>4 DEF Reads, g

\* So does the clean-up, which takes backups away whole: what stays in one piece was
\* in one before.
LEMMA CleanedReads ==
  ASSUME NEW f \in Files, NEW removed \in SUBSET (1..Top),
         NEW n \in Nat, NEW texts, Reads(f, texts), Ordered(f, n)
  PROVE  Reads(Cleaned(f, removed), texts) /\ Ordered(Cleaned(f, removed), n)
<1> DEFINE g == Cleaned(f, removed)
<1>1. g.log = f.log /\ g.failed = f.failed
  BY DEF Cleaned, Files
<1>2. \A i \in 1..Top : g.old[i] = Absent \/ g.old[i] = f.old[i]
  BY DEF Cleaned, Files
<1> HIDE DEF g
<1>3. ASSUME NEW k \in 0..Top, Whole(g, k) PROVE Read(g, k) \in texts
  <2>1. k \in Nat /\ \A i \in 1..k : i \in 1..Top /\ g.old[i] = f.old[i]
    BY <1>2, <1>3, TopIsNat DEF Whole
  <2>2. Read(g, k) = Read(f, k)
    BY <1>1, <2>1, ReadsAlike
  <2>3. Whole(f, k)
    BY <1>1, <1>3, <2>1 DEF Whole
  <2> QED
    BY <2>2, <2>3 DEF Reads
<1>4. ASSUME NEW i \in 0..Top PROVE BytesIn(g, i) \subseteq BytesIn(f, i)
  <2>1. Bytes(Present(Absent)) = {}
    BY AbsentIsNoText DEF Bytes
  <2>2. i = 0 \/ i \in 1..Top
    BY TopIsNat
  <2> QED
    BY <1>1, <1>2, <2>1, <2>2 DEF BytesIn
<1>5. Ordered(g, n)
  BY <1>4, FewerOrdered
<1> QED
  BY <1>3, <1>5 DEF Reads, g

\* A line is of the bytes of its number.
LineOf(line, n) == line \in Seq(Nat) /\ \A b \in Bytes(line) : b = n

\* A line added to an open log is at its end.
LEMMA AppendedIs ==
  ASSUME "write" \notin Faults, NEW f \in Files, f.open, f.log # Absent,
         NEW line \in Seq(Nat), NEW g \in Appended(f, line)
  PROVE  /\ g \in Files /\ g.log = f.log \o line /\ g.log \in Seq(Nat) /\ g.log # Absent
         /\ Len(g.log) = Len(f.log) + Len(line)
         /\ \A i \in 1..Len(g.log) :
              g.log[i] = IF i <= Len(f.log) THEN f.log[i] ELSE line[i - Len(f.log)]
         /\ g.old = f.old /\ g.open /\ Present(g.log) = g.log /\ g.failed = f.failed
<1>1. f.log \in Seq(Nat)
  BY DEF Files, FileType
<1>2. SubSeq(line, 1, Len(line)) = line
  <2>1. Len(line) \in Nat /\ \A i \in 1..Len(line) : line[i] \in Nat
    BY LenProperties, ElementOfSeq
  <2>2. /\ SubSeq(line, 1, Len(line)) \in Seq(Nat) /\ Len(SubSeq(line, 1, Len(line))) = Len(line)
        /\ \A i \in 1..Len(line) : SubSeq(line, 1, Len(line))[i] = line[i]
    BY <2>1, SubSeqProperties
  <2> QED
    BY <2>2, SeqEqual
<1> DEFINE log == f.log \o line
<1>3. /\ log \in Seq(Nat) /\ Len(log) = Len(f.log) + Len(line)
      /\ Len(f.log) \in Nat /\ Len(line) \in Nat
      /\ \A i \in 1..Len(log) : log[i] = IF i <= Len(f.log) THEN f.log[i] ELSE line[i - Len(f.log)]
  BY <1>1, ConcatProperties, LenProperties
<1>4. log # Absent
  BY <1>3, AbsentIsNoText
<1>5. g = [f EXCEPT !.log = log]
  BY <1>2 DEF Appended
<1> HIDE DEF log
<1>6. g \in Files /\ g.log = log /\ g.old = f.old /\ g.open /\ Present(g.log) = log
      /\ g.failed = f.failed
  BY <1>3, <1>4, <1>5 DEF Files, FileType, Present
<1> QED
  BY <1>3, <1>4, <1>6 DEF log

\* A line added to an open log is added to what the files read as.
LEMMA AppendedReads ==
  ASSUME "write" \notin Faults, NEW f \in Files, f.open, f.log # Absent,
         NEW n \in Nat, NEW texts, Reads(f, texts), Ordered(f, n),
         NEW line, LineOf(line, n + 1), NEW g \in Appended(f, line)
  PROVE  /\ Reads(g, With(texts, line)) /\ Ordered(g, n + 1)
         /\ g.open /\ g.log # Absent /\ Len(g.log) >= Len(line)
<1> DEFINE log == f.log \o line
<1>1. line \in Seq(Nat) /\ f.log \in Seq(Nat) /\ Present(f.log) = f.log
  BY DEF LineOf, Files, FileType, Present
<1>2. /\ g \in Files /\ g.log = log /\ g.old = f.old /\ g.open /\ Present(g.log) = log
      /\ g.failed = f.failed /\ log # Absent /\ log \in Seq(Nat)
      /\ Len(log) = Len(f.log) + Len(line)
      /\ \A i \in 1..Len(log) : log[i] = IF i <= Len(f.log) THEN f.log[i] ELSE line[i - Len(f.log)]
  <2>1. /\ g \in Files /\ g.log = log /\ g.log \in Seq(Nat) /\ g.log # Absent
        /\ Len(g.log) = Len(f.log) + Len(line)
        /\ \A i \in 1..Len(g.log) :
             g.log[i] = IF i <= Len(f.log) THEN f.log[i] ELSE line[i - Len(f.log)]
        /\ g.old = f.old /\ g.open /\ Present(g.log) = g.log /\ g.failed = f.failed
    BY <1>1, AppendedIs
  <2> HIDE DEF log
  <2> QED
    BY <2>1
<1>3. Len(f.log) \in Nat /\ Len(line) \in Nat
  BY <1>1, LenProperties
<1> HIDE DEF log
<1>4. ASSUME NEW k \in 0..Top, Whole(g, k) PROVE Read(g, k) \in With(texts, line)
  <2> DEFINE old == FlattenSeq(Older(f, k))
  <2>1. Read(f, k) \in texts
    BY <1>2, <1>4 DEF Reads, Whole
  <2>2. old \in Seq(Nat) /\ Read(f, k) = old \o f.log
    BY <1>1, ReadIsText DEF Read
  <2>3. Read(g, k) = old \o log
    BY <1>2 DEF Read, Older
  <2> HIDE DEF old
  <2>4. (old \o f.log) \o line = old \o (f.log \o line)
    BY <1>1, <2>2, Regrouped
  <2> QED
    BY <2>1, <2>2, <2>3, <2>4 DEF With, log
<1>5. Ordered(g, n + 1)
  <2>1. ASSUME NEW i \in 0..Top, NEW b \in BytesIn(g, i)
        PROVE  b \in BytesIn(f, i) \/ (i = 0 /\ b = n + 1)
    <3>1. CASE i # 0
      BY <1>2, <3>1 DEF BytesIn
    <3>2. CASE i = 0
      <4>1. PICK m \in 1..Len(log) : b = log[m]
        BY <1>2, <3>2 DEF BytesIn, Bytes
      <4>2. CASE m <= Len(f.log)
        <5>1. m \in 1..Len(f.log) /\ b = f.log[m]
          BY <1>3, <1>2, <4>1, <4>2
        <5> QED
          BY <1>1, <3>2, <5>1 DEF BytesIn, Bytes
      <4>3. CASE ~(m <= Len(f.log))
        <5>1. m - Len(f.log) \in 1..Len(line) /\ b = line[m - Len(f.log)]
          BY <1>3, <1>2, <4>1, <4>3
        <5> QED
          BY <3>2, <5>1 DEF LineOf, Bytes
      <4> QED
        BY <4>2, <4>3
    <3> QED
      BY <3>1, <3>2
  <2>2. ASSUME NEW i \in 0..Top, NEW b \in BytesIn(f, i) PROVE b \in Nat /\ b <= n
    <3>1. f.log \in FileType /\ (i # 0 => f.old[i] \in FileType)
      BY TopIsNat DEF Files
    <3>2. \E s \in Seq(Nat) : b \in Bytes(s)
      BY <3>1, PresentIsText DEF BytesIn
    <3>3. b \in Nat
      BY <3>2, ElementOfSeq DEF Bytes
    <3> QED
      BY <3>3 DEF Ordered
  <2>3. ASSUME NEW i \in 0..Top, NEW j \in 0..Top, i < j PROVE Before(BytesIn(g, j), BytesIn(g, i))
    <3> SUFFICES ASSUME NEW b \in BytesIn(g, j), NEW c \in BytesIn(g, i) PROVE b < c
      BY DEF Before
    <3>1. b \in BytesIn(f, j)
      BY <2>1, <2>3
    <3>2. CASE c \in BytesIn(f, i)
      BY <2>3, <3>1, <3>2 DEF Ordered, Before
    <3>3. CASE c = n + 1
      BY <2>2, <3>1, <3>3
    <3> QED
      BY <2>1, <3>2, <3>3
  <2>4. ASSUME NEW i \in 0..Top, NEW b \in BytesIn(g, i) PROVE b <= n + 1
    BY <2>1, <2>2
  <2> QED
    BY <2>3, <2>4 DEF Ordered
<1> QED
  BY <1>3, <1>2, <1>4, <1>5 DEF Reads

\* What is cut off the end of the log is cut off what the files read as.
LEMMA TruncatedReads ==
  ASSUME NEW f \in Files, f.open, f.log # Absent,
         NEW n \in Nat, NEW texts \in SUBSET Seq(Nat), NEW line \in Seq(Nat),
         Reads(f, With(texts, line)), Ordered(f, n), Len(f.log) >= Len(line),
         NEW g \in Truncated(f, Len(f.log) - Len(line))
  PROVE  /\ Reads(g, texts) /\ Ordered(g, n)
         /\ g.open /\ g.log # Absent
<1> DEFINE size == Len(f.log) - Len(line)
           cut == [j \in 1..size |-> IF j <= Len(f.log) THEN f.log[j] ELSE Zero]
           rest == SubSeq(f.log, size + 1, Len(f.log))
<1>1. f.log \in Seq(Nat) /\ Present(f.log) = f.log
  BY DEF Files, FileType, Present
<1>2. Len(f.log) \in Nat /\ Len(line) \in Nat /\ size \in Nat /\ size <= Len(f.log)
  BY <1>1, LenProperties
<1>3. \A j \in 1..size : j \in 1..Len(f.log) /\ cut[j] = f.log[j] /\ cut[j] \in Nat
  BY <1>1, <1>2, ElementOfSeq
<1>4. cut \in [1..size -> Nat]
  BY <1>3
<1>5. cut \in Seq(Nat)
  <2> HIDE DEF cut, size
  <2> QED
    BY <1>2, <1>4, SeqDef
<1>6. Len(cut) = size
  BY <1>2, <1>4, <1>5, LenProperties
<1>7. g = [f EXCEPT !.log = cut]
  BY DEF Truncated
<1>8. rest \in Seq(Nat) /\ Len(rest) = Len(line)
      /\ \A i \in 1..Len(line) : rest[i] = f.log[size + i]
  <2>1. \A i \in size + 1 .. Len(f.log) : f.log[i] \in Nat
    BY <1>1, <1>2, ElementOfSeq
  <2> QED
    BY <1>2, <2>1, SubSeqProperties
<1> HIDE DEF size, cut, rest
<1>9. cut # Absent
  BY <1>5, AbsentIsNoText
<1>10. g \in Files /\ g.log = cut /\ g.old = f.old /\ g.open /\ Present(g.log) = cut
        /\ g.failed = f.failed
  BY <1>5, <1>7, <1>9 DEF Files, FileType, Present
<1>11. f.log = cut \o rest
  <2>1. /\ cut \o rest \in Seq(Nat) /\ Len(cut \o rest) = size + Len(line)
        /\ \A i \in 1..(size + Len(line)) :
             (cut \o rest)[i] = IF i <= size THEN cut[i] ELSE rest[i - size]
    <3>1. /\ cut \o rest \in Seq(Nat) /\ Len(cut \o rest) = Len(cut) + Len(rest)
          /\ \A i \in 1..(Len(cut) + Len(rest)) :
               (cut \o rest)[i] = IF i <= Len(cut) THEN cut[i] ELSE rest[i - Len(cut)]
      BY <1>5, <1>8, Joined
    <3> QED
      BY <1>6, <1>8, <3>1
  <2>2. Len(f.log) = size + Len(line)
    BY <1>2 DEF size
  <2>3. ASSUME NEW i \in 1..Len(f.log) PROVE f.log[i] = (cut \o rest)[i]
    <3>1. CASE i <= size
      BY <1>2, <1>3, <2>1, <2>2, <3>1
    <3>2. CASE ~(i <= size)
      <4>1. i - size \in 1..Len(line) /\ size + (i - size) = i
        BY <1>2, <2>2, <3>2
      <4>2. rest[i - size] = f.log[i]
        BY <1>8, <4>1
      <4> QED
        BY <2>1, <2>2, <3>2, <4>2
    <3> QED
      BY <3>1, <3>2
  <2> QED
    BY <1>1, <2>1, <2>2, <2>3, SeqEqual
<1>12. ASSUME NEW k \in 0..Top, Whole(g, k) PROVE Read(g, k) \in texts
  <2> DEFINE old == FlattenSeq(Older(f, k))
             all == old \o cut
  <2>1. PICK t \in texts : Read(f, k) = t \o line
    BY <1>10, <1>12 DEF Reads, Whole, With
  <2>2. old \in Seq(Nat) /\ Read(f, k) = old \o (cut \o rest)
    BY <1>1, <1>11, ReadIsText DEF Read
  <2>3. Read(g, k) = all
    BY <1>10 DEF Read, Older
  <2> HIDE DEF old
  <2>4. all \in Seq(Nat) /\ cut \in Seq(Nat) /\ rest \in Seq(Nat)
    BY <1>5, <1>8, <2>2, ConcatProperties
  <2>5. all \o rest = old \o (cut \o rest)
    BY <2>2, <2>4, Regrouped
  <2> HIDE DEF all
  <2>6. t \o line = all \o rest /\ t \in Seq(Nat)
    BY <2>1, <2>2, <2>5
  <2>7. t = all
    BY <1>8, <2>4, <2>6, SameBefore
  <2> QED
    BY <2>3, <2>7
<1>13. \A i \in 0..Top : BytesIn(g, i) \subseteq BytesIn(f, i)
  <2>1. Bytes(cut) \subseteq Bytes(f.log)
    BY <1>3, <1>6 DEF Bytes
  <2> QED
    BY <1>1, <1>10, <2>1 DEF BytesIn
<1>14. Ordered(g, n)
  BY <1>13, FewerOrdered
<1> QED
  BY <1>9, <1>10, <1>12, <1>14 DEF Reads

\* What the files read as is no shorter than the log.
LEMMA LongAsLog ==
  ASSUME NEW f \in Files, f.log # Absent, NEW k \in 0..Top, NEW m \in Nat, Len(f.log) >= m
  PROVE  Read(f, k) \in Seq(Nat) /\ Len(Read(f, k)) >= m
<1> DEFINE old == FlattenSeq(Older(f, k))
<1>1. old \in Seq(Nat) /\ Read(f, k) \in Seq(Nat)
  BY ReadIsText
<1>2. Read(f, k) = old \o f.log /\ f.log \in Seq(Nat)
  BY DEF Read, Present, Files, FileType
<1> HIDE DEF old
<1>3. Len(Read(f, k)) = Len(old) + Len(f.log) /\ Len(old) \in Nat /\ Len(f.log) \in Nat
  BY <1>1, <1>2, ConcatProperties, LenProperties
<1> QED
  BY <1>1, <1>3

\* Splitting a text m bytes before its end.
LEMMA SplitEnd ==
  ASSUME NEW s \in Seq(Nat), NEW m \in Nat, m <= Len(s)
  PROVE  LET t == SubSeq(s, 1, Len(s) - m)
             u == SubSeq(s, Len(s) - m + 1, Len(s))
         IN  t \in Seq(Nat) /\ u \in Seq(Nat) /\ Len(u) = m /\ s = t \o u
<1> DEFINE l == Len(s) - m
           t == SubSeq(s, 1, l)
           u == SubSeq(s, l + 1, Len(s))
<1>1. l \in Nat /\ l <= Len(s) /\ Len(s) = l + m /\ Len(s) \in Nat
  BY LenProperties
<1>2. \A i \in 1..Len(s) : s[i] \in Nat
  BY ElementOfSeq
<1>3. t \in Seq(Nat) /\ Len(t) = l /\ \A i \in 1..l : t[i] = s[i]
  <2>1. \A i \in 1..l : s[i] \in Nat
    BY <1>1, <1>2
  <2> HIDE DEF l
  <2> QED
    BY <1>1, <2>1, SubSeqProperties
<1>4. u \in Seq(Nat) /\ Len(u) = m /\ \A i \in 1..m : u[i] = s[l + i]
  <2>1. \A i \in l + 1 .. Len(s) : s[i] \in Nat
    BY <1>1, <1>2
  <2> HIDE DEF l
  <2> QED
    BY <1>1, <2>1, SubSeqProperties
<1> HIDE DEF l, t, u
<1>5. /\ t \o u \in Seq(Nat) /\ Len(t \o u) = l + m
      /\ \A i \in 1..(l + m) : (t \o u)[i] = IF i <= l THEN t[i] ELSE u[i - l]
  <2>1. /\ t \o u \in Seq(Nat) /\ Len(t \o u) = Len(t) + Len(u)
        /\ \A i \in 1..(Len(t) + Len(u)) :
             (t \o u)[i] = IF i <= Len(t) THEN t[i] ELSE u[i - Len(t)]
    BY <1>3, <1>4, Joined
  <2> QED
    BY <1>3, <1>4, <2>1
<1>6. ASSUME NEW i \in 1..Len(s) PROVE s[i] = (t \o u)[i]
  <2>1. CASE i <= l
    BY <1>1, <1>3, <1>5, <2>1
  <2>2. CASE ~(i <= l)
    <3>1. i - l \in 1..m /\ l + (i - l) = i
      BY <1>1, <2>2
    <3> QED
      BY <1>1, <1>4, <1>5, <2>2, <3>1
  <2> QED
    BY <2>1, <2>2
<1>7. s = t \o u
  BY <1>1, <1>5, <1>6, SeqEqual
<1> QED
  BY <1>3, <1>4, <1>7 DEF t, u, l

\* A text that ends with a line, and is at least as long, is one before that line.
UpTo(s, line) == SubSeq(s, 1, Len(s) - Len(line))
SameText(p, line, q, s) == p \o line = q \o s

LEMMA CutBefore ==
  ASSUME NEW q \in Seq(Nat), NEW s \in Seq(Nat), NEW p \in Seq(Nat), NEW line \in Seq(Nat),
         SameText(p, line, q, s), Len(line) <= Len(s)
  PROVE  /\ UpTo(s, line) \in Seq(Nat)
         /\ s = UpTo(s, line) \o line /\ p = q \o UpTo(s, line)
<1>1. Len(s) \in Nat /\ Len(line) \in Nat /\ p \o line = q \o s
  BY LenProperties DEF SameText
<1> DEFINE m == Len(line)
           t == SubSeq(s, 1, Len(s) - m)
           u == SubSeq(s, Len(s) - m + 1, Len(s))
<1>3. s = t \o u /\ t \in Seq(Nat) /\ u \in Seq(Nat) /\ Len(u) = Len(line)
  BY <1>1, SplitEnd
<1> HIDE DEF m, t, u
<1>4. p \o line = (q \o t) \o u /\ q \o t \in Seq(Nat)
  <2>1. (q \o t) \o u = q \o (t \o u)
    <3>1. t \in Seq(Nat) /\ u \in Seq(Nat)
      BY <1>3
    <3> QED
      BY <3>1, Regrouped
  <2> QED
    BY <1>1, <1>3, <2>1, ConcatProperties
<1>5. p = q \o t
  BY <1>3, <1>4, SameBefore
<1>6. line = u
  <2>1. \A i \in 1..Len(line) : line[i] = u[i]
    <3> SUFFICES ASSUME NEW i \in 1..Len(line) PROVE line[i] = u[i]
      OBVIOUS
    <3>1. /\ Len(p) \in Nat
          /\ (p \o line)[Len(p) + i] = line[i] /\ (p \o u)[Len(p) + i] = u[i]
      <4>1. Len(p) \in Nat
        BY LenProperties
      <4>2. /\ Len(p) + i \in 1..(Len(p) + Len(line)) /\ Len(p) + i \in 1..(Len(p) + Len(u))
            /\ ~(Len(p) + i <= Len(p)) /\ (Len(p) + i) - Len(p) = i
        BY <1>1, <1>3, <4>1
      <4>3. (p \o line)[Len(p) + i] = line[(Len(p) + i) - Len(p)]
        BY <4>2, Joined
      <4>4. (p \o u)[Len(p) + i] = u[(Len(p) + i) - Len(p)]
        BY <1>3, <4>2, Joined
      <4> QED
        BY <4>1, <4>2, <4>3, <4>4
    <3> QED
      BY <1>4, <1>5, <3>1
  <2> QED
    BY <1>3, <2>1, SeqEqual
<1> QED
  BY <1>3, <1>5, <1>6 DEF t, m, UpTo

\* Files that read as tails of a text with a line, and hold that line in the log, read
\* as tails of the text with that line.
LEMMA TailsWithLine ==
  ASSUME NEW f \in Files, f.log # Absent, NEW p \in Seq(Nat), NEW line \in Seq(Nat),
         Reads(f, Tails(p \o line)), Len(f.log) >= Len(line)
  PROVE  Reads(f, With(Tails(p), line))
<1> SUFFICES ASSUME NEW k \in 0..Top, Whole(f, k) PROVE Read(f, k) \in With(Tails(p), line)
  BY DEF Reads
<1>1. Read(f, k) \in Seq(Nat) /\ Len(Read(f, k)) >= Len(line)
  BY LongAsLog, LenProperties
<1>2. p \o line \in Seq(Nat) /\ IsSuffix(Read(f, k), p \o line)
  BY ConcatProperties DEF Reads, Tails
<1>3. PICK q \in Seq(Nat) : p \o line = q \o Read(f, k)
  BY <1>1, <1>2, SuffixIsJoin
<1>4. LET t == UpTo(Read(f, k), line)
      IN  t \in Seq(Nat) /\ Read(f, k) = t \o line /\ p = q \o t
  <2>1. SameText(p, line, q, Read(f, k)) /\ Len(line) <= Len(Read(f, k))
    BY <1>1, <1>3, LenProperties DEF SameText
  <2> QED
    BY <1>1, <2>1, CutBefore
<1>5. UpTo(Read(f, k), line) \in Tails(p)
  BY <1>4, SuffixIsJoin DEF Tails
<1> QED
  BY <1>4, <1>5 DEF With

\* RotatingWriter.Write adds its line, with or without a rotation before it.
LEMMA WriteReads ==
  ASSUME Faults \subseteq {"rename", "shift"}, NEW f, Good(f), f.open,
         NEW n \in Nat, NEW texts, <<>> \in texts, Reads(f, texts), Ordered(f, n),
         NEW line, LineOf(line, n + 1), NEW held,
         NEW g \in Write(f, line, held)
  PROVE  /\ Reads(g, With(texts, line)) /\ Ordered(g, n + 1)
         /\ g.open /\ g.log # Absent /\ Len(g.log) >= Len(line)
<1>0. /\ f \in Files /\ f.log # Absent /\ "write" \notin Faults
      /\ MayFail("open") = {TRUE}
  BY DEF Good, MayFail
<1>1. CASE ~MustRotate(f, line)
  <2>1. g \in Appended(f, line)
    BY <1>1 DEF Write
  <2> QED
    BY <1>0, <2>1, AppendedReads
<1>2. CASE MustRotate(f, line)
  <2>1. PICK stuck \in Stuck(f, held) : g \in Appended(Opened(Rotated(f, stuck)), line)
    <3> DEFINE Left(stuck, o) ==
                 LET h == Rotated(f, stuck)
                 IN  IF o THEN Appended(Opened(h), line) ELSE {[h EXCEPT !.open = FALSE]}
    <3>1. g \in UNION {Left(stuck, o) : stuck \in Stuck(f, held), o \in MayFail("open")}
      BY <1>2 DEF Write
    <3>2. \A stuck \in Stuck(f, held) : Left(stuck, TRUE) = Appended(Opened(Rotated(f, stuck)), line)
      OBVIOUS
    <3> HIDE DEF Left
    <3>3. PICK stuck \in Stuck(f, held), o \in MayFail("open") : g \in Left(stuck, o)
      BY <3>1
    <3>4. o = TRUE
      BY <1>0
    <3> QED
      BY <3>2, <3>3, <3>4
  <2> DEFINE h == Rotated(f, stuck)
             o == Opened(h)
  <2>2. /\ h \in Files /\ h.log = (IF 0 \in stuck THEN f.log ELSE Absent)
        /\ "rename" \in h.failed <=> "rename" \in f.failed \/ 0 \in stuck
    BY <1>0, RotatedGood
  <2>3. Reads(h, texts) /\ Ordered(h, n)
    BY <1>0, RotatedReads, RotatedOrdered
  <2> HIDE DEF h
  <2>4. Small(h)
    BY <2>2, AbsentIsNoText, TopIsNat DEF Small
  <2>5. o \in Files /\ o.log # Absent /\ o.open
    <3>1. Good(o)
      BY <2>2, <2>4, OpenedGood
    <3>2. o.open
      BY <2>2 DEF Opened, Files
    <3> QED
      BY <3>1, <3>2 DEF Good
  <2>6. Reads(o, texts) /\ Ordered(o, n)
    BY <2>2, <2>3, OpenedReads
  <2>7. g \in Appended(o, line)
    BY <2>1 DEF h
  <2> HIDE DEF o
  <2> QED
    BY <1>0, <2>5, <2>6, <2>7, AppendedReads
<1> QED
  BY <1>1, <1>2

\* The entries of kept, and the line each stands for.
Entry == [id : 1..MaxLines, on : BOOLEAN, len : Lens]
Body(e) == [j \in 1..e.len |-> e.id]
Told(s) == FlattenSeq([n \in 1..Len(s) |-> Body(s[n])])

\* An entry more promises its line more.
LEMMA ToldMore ==
  ASSUME NEW s \in Seq(Entry), NEW t \in Seq(Entry), Len(t) = Len(s) + 1,
         \A i \in 1..Len(s) : s[i] = t[i]
  PROVE  /\ Told(s) \in Seq(Nat) /\ Body(t[Len(t)]) \in Seq(Nat)
         /\ Len(Body(t[Len(t)])) = t[Len(t)].len
         /\ Told(t) = Told(s) \o Body(t[Len(t)])
<1> DEFINE Lines(u) == [n \in 1..Len(u) |-> Body(u[n])]
<1>1. ASSUME NEW e \in Entry PROVE Body(e) \in Seq(Nat) /\ Len(Body(e)) = e.len
  <2>1. e.len \in Nat /\ e.id \in Nat
    <3>1. e.len \in Lens /\ e.id \in 1..MaxLines
      BY DEF Entry
    <3>2. \A l \in Lens : l \in Nat
      BY LogAssumption
    <3>3. \A i \in 1..MaxLines : i \in Nat
      BY LogAssumption
    <3> QED
      BY <3>1, <3>2, <3>3
  <2>2. Body(e) \in [1..e.len -> Nat]
    BY <2>1 DEF Body
  <2>3. Body(e) \in Seq(Nat)
    <3>1. Seq(Nat) = UNION {[1..n -> Nat] : n \in Nat}
      BY SeqDef
    <3> QED
      BY <2>1, <2>2, <3>1
  <2> QED
    BY <2>1, <2>2, <2>3, LenProperties
<1>2. ASSUME NEW u \in Seq(Entry) PROVE Lines(u) \in Seq(Seq(Nat)) /\ Len(Lines(u)) = Len(u)
  <2>1. Len(u) \in Nat /\ \A i \in 1..Len(u) : u[i] \in Entry
    BY LenProperties, ElementOfSeq
  <2>2. Lines(u) \in [1..Len(u) -> Seq(Nat)]
    BY <1>1, <2>1
  <2> HIDE DEF Lines
  <2>3. Lines(u) \in Seq(Seq(Nat))
    <3>1. Seq(Seq(Nat)) = UNION {[1..n -> Seq(Nat)] : n \in Nat}
      BY SeqDef
    <3> QED
      BY <2>1, <2>2, <3>1
  <2> QED
    BY <2>1, <2>2, <2>3, LenProperties
<1>3. Len(s) \in Nat /\ Len(t) \in 1..Len(t) /\ Len(t) \in Nat
  BY LenProperties
<1>4. \A i \in 1..Len(s) : Lines(s)[i] = Lines(t)[i]
  BY <1>3
<1>5. Lines(t)[Len(t)] = Body(t[Len(t)])
  BY <1>3
<1>6. t[Len(t)] \in Entry
  BY <1>3, ElementOfSeq
<1> HIDE DEF Lines
<1>7. /\ Lines(s) \in Seq(Seq(Nat)) /\ Len(Lines(s)) = Len(s)
      /\ Lines(t) \in Seq(Seq(Nat)) /\ Len(Lines(t)) = Len(t)
  BY <1>2
<1>8. /\ FlattenSeq(Lines(s)) \in Seq(Nat)
      /\ FlattenSeq(Lines(t)) = FlattenSeq(Lines(s)) \o Lines(t)[Len(Lines(t))]
  <2>1. Len(Lines(t)) = Len(Lines(s)) + 1 /\ \A i \in 1..Len(Lines(s)) : Lines(s)[i] = Lines(t)[i]
    BY <1>4, <1>7
  <2> QED
    BY <1>7, <2>1, FlattenMore
<1>9. Told(s) = FlattenSeq(Lines(s)) /\ Told(t) = FlattenSeq(Lines(t))
  BY DEF Told, Lines
<1> QED
  BY <1>1, <1>5, <1>6, <1>7, <1>8, <1>9

\* The entry of a line that is added, and the line.
LEMMA ToldAppended ==
  ASSUME NEW s \in Seq(Entry), NEW e \in Entry
  PROVE  Told(s) \in Seq(Nat) /\ Told(Append(s, e)) = Told(s) \o Body(e)
<1> DEFINE t == Append(s, e)
<1>1. t \in Seq(Entry) /\ Len(t) = Len(s) + 1 /\ (\A i \in 1..Len(s) : t[i] = s[i]) /\ t[Len(s) + 1] = e
  BY AppendProperties
<1> HIDE DEF t
<1>2. Told(s) \in Seq(Nat) /\ Told(t) = Told(s) \o Body(t[Len(t)])
  BY <1>1, ToldMore
<1> QED
  BY <1>1, <1>2 DEF t

\* What is left without the last entry, and with another in its place.
LEMMA ToldReplaced ==
  ASSUME NEW s \in Seq(Entry), Len(s) # 0, NEW e \in Entry
  PROVE  \E p \in Seq(Nat) :
           /\ Body(s[Len(s)]) \in Seq(Nat) /\ Len(Body(s[Len(s)])) = s[Len(s)].len
           /\ Told(s) = p \o Body(s[Len(s)])
           /\ Told([s EXCEPT ![Len(s)] = e]) = p \o Body(e)
<1> DEFINE n == Len(s)
           m == n - 1
           front == SubSeq(s, 1, m)
           t == [s EXCEPT ![n] = e]
<1>1. n \in Nat \ {0} /\ n \in 1..n /\ m \in Nat /\ n = m + 1
  BY LenProperties
<1> HIDE DEF m
<1>2. /\ front \in Seq(Entry) /\ Len(front) = m
      /\ \A i \in 1..m : front[i] = s[i]
  <2>1. \A i \in 1..m : s[i] \in Entry
    BY <1>1, ElementOfSeq
  <2> QED
    BY <1>1, <2>1, SubSeqProperties
<1>3. t \in Seq(Entry) /\ Len(t) = n /\ \A i \in 1..n : t[i] = IF i = n THEN e ELSE s[i]
  BY <1>1, ExceptSeq
<1> HIDE DEF front, t
<1>4. /\ Told(front) \in Seq(Nat) /\ Body(s[n]) \in Seq(Nat) /\ Len(Body(s[n])) = s[n].len
      /\ Told(s) = Told(front) \o Body(s[n])
  <2>1. n = Len(front) + 1 /\ \A i \in 1..Len(front) : front[i] = s[i]
    BY <1>1, <1>2
  <2> QED
    BY <1>2, <2>1, ToldMore
<1>5. Told(t) = Told(front) \o Body(t[Len(t)])
  <2>1. Len(t) = Len(front) + 1 /\ \A i \in 1..Len(front) : front[i] = t[i]
    BY <1>1, <1>2, <1>3
  <2> QED
    BY <1>2, <1>3, <2>1, ToldMore
<1>6. t[Len(t)] = e
  BY <1>1, <1>3
<1> QED
  BY <1>4, <1>5, <1>6 DEF t

\* Line(len) is what the entry of the next line stands for.
LEMMA NextLine ==
  ASSUME lines \in Nat, NEW len \in Lens, NEW on \in BOOLEAN
  PROVE  /\ LineOf(Line(len), lines + 1) /\ Len(Line(len)) = len
         /\ Body([id |-> lines + 1, on |-> on, len |-> len]) = Line(len)
<1>1. Line(len) \in Seq(Nat) /\ Len(Line(len)) = len
  BY LineFacts
<1>2. \A b \in Bytes(Line(len)) : b = lines + 1
  BY <1>1 DEF Bytes, Line
<1> QED
  BY <1>1, <1>2 DEF LineOf, Body, Line

\* The buffer of DedupWriter knows of a run of online lines: whether there is one,
\* whether it is of two entries or more, and how long the last of them is.
Run(buf, s) ==
  /\ Len(buf) >= 1 <=> Len(s) # 0 /\ s[Len(s)].on
  /\ Len(buf) = 2 <=> Len(s) >= 2 /\ s[Len(s)].on /\ s[Len(s) - 1].on
  /\ Len(buf) = 2 => buf[2] = s[Len(s)].len

\* The log is there and open, it and its unbroken backups end what was promised,
\* and the line that may be cut off, the latest, is at its end.
StreamInv ==
  /\ fs.open /\ fs.log # Absent
  /\ Reads(fs, Tails(Promised)) /\ Ordered(fs, lines)
  /\ Len(kept) # 0 => Len(fs.log) >= kept[Len(kept)].len /\ kept[Len(kept)].id = lines
  /\ Run(onlineBuf, kept)

\* A line that is added to those kept.
LEMMA RunAppended ==
  ASSUME NEW s \in Seq(Entry), NEW buf \in Seq(Lens), Len(buf) <= 2, Run(buf, s),
         NEW e \in Entry
  PROVE  /\ ~e.on => Run(<<>>, Append(s, e))
         /\ e.on /\ Len(buf) < 2 => Run(Append(buf, e.len), Append(s, e))
<1> DEFINE t == Append(s, e)
           new == Append(buf, e.len)
<1>0. Len(s) \in Nat /\ Len(buf) \in Nat /\ e.len \in Lens /\ Len(<<>>) = 0
  BY LenProperties, EmptySeq DEF Entry
<1>1. /\ Len(t) = Len(s) + 1 /\ t[Len(s) + 1] = e
      /\ \A i \in 1..Len(s) : t[i] = s[i]
  BY AppendProperties
<1>2. /\ Len(new) = Len(buf) + 1 /\ new[Len(buf) + 1] = e.len
  BY <1>0, AppendProperties
<1> HIDE DEF t, new
<1>3. Len(t) # 0 /\ t[Len(t)] = e /\ (Len(s) # 0 => t[Len(t) - 1] = s[Len(s)])
  BY <1>0, <1>1
<1>4. ASSUME ~e.on PROVE Run(<<>>, t)
  BY <1>0, <1>3, <1>4 DEF Run
<1>5. ASSUME e.on, Len(buf) < 2 PROVE Run(new, t)
  <2>0. Len(buf) = 0 \/ Len(buf) = 1
    <3>1. \A b \in Nat : b < 2 => b = 0 \/ b = 1
      OBVIOUS
    <3> QED
      BY <1>0, <1>5, <3>1
  <2>1. Len(new) >= 1 /\ (Len(new) = 2 <=> Len(buf) = 1) /\ (Len(new) = 2 => new[2] = e.len)
    <3>1. CASE Len(buf) = 0
      BY <1>2, <3>1
    <3>2. CASE Len(buf) = 1
      BY <1>2, <3>2
    <3> QED
      BY <2>0, <3>1, <3>2
  <2>2. Len(buf) = 1 <=> Len(s) # 0 /\ s[Len(s)].on
    <3>1. Len(buf) = 1 <=> Len(buf) >= 1
      <4>1. CASE Len(buf) = 0
        BY <4>1
      <4>2. CASE Len(buf) = 1
        BY <4>2
      <4> QED
        BY <2>0, <4>1, <4>2
    <3>2. Len(buf) >= 1 <=> Len(s) # 0 /\ s[Len(s)].on
      BY DEF Run
    <3> QED
      BY <3>1, <3>2
  <2>3. Len(t) >= 2 <=> Len(s) # 0
    BY <1>0, <1>1
  <2> QED
    BY <1>3, <1>5, <2>1, <2>2, <2>3 DEF Run
<1> QED
  BY <1>4, <1>5 DEF t, new

\* A line that takes the place of the last one kept.
LEMMA RunReplaced ==
  ASSUME NEW s \in Seq(Entry), NEW buf \in Seq(Lens), Len(buf) = 2, Run(buf, s),
         NEW e \in Entry, e.on
  PROVE  Run(<<buf[1], e.len>>, [s EXCEPT ![Len(s)] = e])
<1> DEFINE n == Len(s)
           t == [s EXCEPT ![n] = e]
           new == <<buf[1], e.len>>
<1>1. n \in Nat /\ n >= 2 /\ s[n - 1].on /\ n \in 1..n /\ n - 1 \in 1..n /\ n - 1 # n
  BY LenProperties DEF Run
<1>2. Len(t) = n /\ t[n] = e /\ t[n - 1] = s[n - 1]
  BY <1>1, ExceptSeq
<1>3. Len(new) = 2 /\ new[2] = e.len
  OBVIOUS
<1> HIDE DEF t, new, n
<1> QED
  BY <1>1, <1>2, <1>3 DEF Run, t, new, n

\* When only renames and removals fail, no step breaks it.
LEMMA StreamStep ==
  ASSUME Faults \subseteq {"rename", "shift"}, IInv, StreamInv, [Next]_vars
  PROVE  StreamInv'
<1>0. /\ fs \in Files /\ Good(fs) /\ fs.open /\ fs.log # Absent
      /\ lines \in Nat /\ kept \in Seq(Entry) /\ Len(kept) \in Nat
      /\ onlineBuf \in Seq(Lens) /\ Len(onlineBuf) <= 2 /\ Len(onlineBuf) \in Nat
      /\ Reads(fs, Tails(Promised)) /\ Ordered(fs, lines) /\ Run(onlineBuf, kept)
  <2>1. lines \in Nat
    BY LogAssumption DEF IInv, TypeOK
  <2> QED
    BY <2>1, LenProperties DEF IInv, TypeOK, Good, StreamInv, Entry
<1>1. Promised = Told(kept) /\ Promised' = Told(kept')
  BY DEF Promised, Told, Body
<1>2. ASSUME /\ fs'.open /\ fs'.log # Absent
             /\ Reads(fs', Tails(Promised')) /\ Ordered(fs', lines')
             /\ Len(kept') # 0 => Len(fs'.log) >= kept'[Len(kept')].len /\ kept'[Len(kept')].id = lines'
             /\ Run(onlineBuf', kept')
      PROVE  StreamInv'
  BY <1>2 DEF StreamInv, Reads, Ordered, Before, BytesIn, Bytes, Whole, Read, Older, Run, Promised, Present, Top
<1> DEFINE entry(on, len) == [id |-> lines + 1, on |-> on, len |-> len]
<1>3. ASSUME NEW on \in BOOLEAN, NEW len \in Lens, Logged(on, len)
      PROVE  /\ lines' = lines + 1 /\ entry(on, len) \in Entry
             /\ IF on /\ Len(onlineBuf) = 2
                THEN kept' = [kept EXCEPT ![Len(kept)] = entry(on, len)]
                ELSE kept' = Append(kept, entry(on, len))
  <2>1. lines' = lines + 1 /\ lines < MaxLines /\ kept' = Keep(on, len)
    BY <1>3 DEF Logged
  <2>2. lines + 1 \in 1..MaxLines
    BY <1>0, <2>1, LogAssumption
  <2>3. Len(onlineBuf) = 2 <=> Len(kept) >= 2 /\ kept[Len(kept)].on /\ kept[Len(kept) - 1].on
    BY <1>0 DEF Run
  <2> QED
    BY <2>1, <2>2, <2>3 DEF Keep, Entry
\* A line added to good files that read as what was promised.
<1>4. ASSUME NEW on \in BOOLEAN, NEW len \in Lens, Logged(on, len),
             kept' = Append(kept, entry(on, len)),
             NEW f, Good(f), f.open, Reads(f, Tails(Promised)), Ordered(f, lines),
             NEW held, fs' \in Write(f, Line(len), held),
             Run(onlineBuf', kept')
      PROVE  StreamInv'
  <2>1. lines' = lines + 1 /\ entry(on, len) \in Entry
    BY <1>3, <1>4
  <2>2. LineOf(Line(len), lines + 1) /\ Len(Line(len)) = len /\ Body(entry(on, len)) = Line(len)
    BY <1>0, NextLine
  <2>3. Promised \in Seq(Nat) /\ Promised' = Promised \o Line(len)
    <3> HIDE DEF entry
    <3> QED
      BY <1>0, <1>1, <1>4, <2>1, <2>2, ToldAppended
  <2>4. /\ Reads(fs', Tails(Promised \o Line(len))) /\ Ordered(fs', lines + 1)
        /\ fs'.open /\ fs'.log # Absent /\ Len(fs'.log) >= len
    <3>1. /\ <<>> \in Tails(Promised)
          /\ With(Tails(Promised), Line(len)) \subseteq Tails(Promised \o Line(len))
      BY <2>2, <2>3, TailsGrow DEF LineOf
    <3>2. /\ Reads(fs', With(Tails(Promised), Line(len))) /\ Ordered(fs', lines + 1)
          /\ fs'.open /\ fs'.log # Absent /\ Len(fs'.log) >= Len(Line(len))
      BY <1>0, <1>4, <2>2, <3>1, WriteReads
    <3> QED
      BY <2>2, <3>1, <3>2 DEF Reads
  <2>5. Len(kept') # 0 => kept'[Len(kept')].len = len /\ kept'[Len(kept')].id = lines + 1
    <3>1. kept'[Len(kept')] = entry(on, len)
      <4> HIDE DEF entry
      <4> QED
        BY <1>0, <1>4, <2>1, AppendProperties
    <3> QED
      BY <3>1
  <2> QED
    BY <1>2, <1>4, <2>1, <2>3, <2>4, <2>5
<1>5. ASSUME NEW len \in Lens, LogOther(len) PROVE StreamInv'
  <2>1. Logged(FALSE, len) /\ onlineBuf' = <<>> /\ fs' \in Write(fs, Line(len), {})
    BY <1>5 DEF LogOther
  <2>2. kept' = Append(kept, entry(FALSE, len)) /\ entry(FALSE, len) \in Entry
    BY <1>3, <2>1
  <2>3. Run(onlineBuf', kept')
    BY <1>0, <2>1, <2>2, RunAppended
  <2> QED
    BY <1>0, <1>4, <2>1, <2>2, <2>3
<1>6. ASSUME NEW len \in Lens, LogOnline(len) PROVE StreamInv'
  <2>1. /\ Logged(TRUE, len) /\ Len(onlineBuf) < 2 /\ onlineBuf' = Append(onlineBuf, len)
        /\ fs' \in Write(fs, Line(len), {})
    BY <1>6 DEF LogOnline
  <2>2. kept' = Append(kept, entry(TRUE, len)) /\ entry(TRUE, len) \in Entry
    <3>1. Len(onlineBuf) # 2
      BY <1>0, <2>1
    <3> QED
      BY <1>3, <2>1, <3>1
  <2>3. Run(onlineBuf', kept')
    BY <1>0, <2>1, <2>2, RunAppended
  <2> QED
    BY <1>0, <1>4, <2>1, <2>2, <2>3
<1>7. ASSUME NEW len \in Lens, NEW removed \in SUBSET (1..Top), Restart(len, removed) PROVE StreamInv'
  <2>1. Logged(FALSE, len) /\ onlineBuf' = <<>>
    BY <1>7 DEF Restart
  <2>2. PICK f \in RotatedIfNeeded(fs, {}) :
          fs' \in Write(Opened(Cleaned(f, removed)), Line(len), {})
    BY <1>7 DEF Restart
  <2>3. kept' = Append(kept, entry(FALSE, len)) /\ entry(FALSE, len) \in Entry
    BY <1>3, <2>1
  <2>4. Run(onlineBuf', kept')
    BY <1>0, <2>1, <2>3, RunAppended
  <2>5. f \in Files /\ Small(f)
    BY <1>0, RotatedIfNeededGood
  <2>6. Promised \in Seq(Nat)
    BY <1>0, <1>1, <2>3, ToldAppended
  <2>7. Reads(f, Tails(Promised)) /\ Ordered(f, lines)
    <3>1. f = fs \/ \E stuck \in Stuck(fs, {}) : f = Rotated(fs, stuck)
      BY <1>0 DEF RotatedIfNeeded
    <3>2. \A stuck \in Stuck(fs, {}) :
              Reads(Rotated(fs, stuck), Tails(Promised)) /\ Ordered(Rotated(fs, stuck), lines)
      BY <1>0, <2>6, TailsGrow, RotatedReads, RotatedOrdered DEF Good
    <3> QED
      BY <1>0, <3>1, <3>2
  <2> DEFINE c == Cleaned(f, removed)
  <2>8. c \in Files /\ Small(c)
    BY <2>5, CleanedGood
  <2>9. Reads(c, Tails(Promised)) /\ Ordered(c, lines)
    BY <1>0, <2>5, <2>7, CleanedReads
  <2> HIDE DEF c
  <2>10. Good(Opened(c)) /\ Reads(Opened(c), Tails(Promised)) /\ Ordered(Opened(c), lines)
    BY <1>0, <2>8, <2>9, OpenedGood, OpenedReads
  <2>11. Opened(c).open
    BY <2>8 DEF Opened, Files
  <2>12. fs' \in Write(Opened(c), Line(len), {})
    BY <2>2 DEF c
  <2> QED
    BY <1>0, <1>4, <2>1, <2>3, <2>4, <2>10, <2>11, <2>12
<1>8. ASSUME NEW len \in Lens, LogOnlineAgain(len) PROVE StreamInv'
  <2> DEFINE e == entry(TRUE, len)
             last == Body(kept[Len(kept)])
             size == Len(fs.log) - Len(last)
             cut == Truncated(fs, size)
  <2>1. Logged(TRUE, len) /\ Len(onlineBuf) = 2
    BY <1>8 DEF LogOnlineAgain
  <2>2. kept' = [kept EXCEPT ![Len(kept)] = e] /\ e \in Entry /\ lines' = lines + 1
    BY <1>3, <2>1
  <2>3. Len(kept) # 0 /\ onlineBuf[2] = kept[Len(kept)].len
    BY <1>0, <2>1 DEF Run
  <2>4. /\ LineOf(Line(len), lines + 1) /\ Len(Line(len)) = len
        /\ Body(e) = Line(len) /\ e.on /\ e.len = len /\ e.id = lines + 1
    BY <1>0, NextLine
  <2> HIDE DEF e
  <2>5. PICK p \in Seq(Nat) :
          /\ last \in Seq(Nat) /\ Len(last) = kept[Len(kept)].len
          /\ Promised = p \o last /\ Promised' = p \o Line(len)
    <3>1. \E p \in Seq(Nat) :
            /\ last \in Seq(Nat) /\ Len(last) = kept[Len(kept)].len
            /\ Told(kept) = p \o last /\ Told([kept EXCEPT ![Len(kept)] = e]) = p \o Body(e)
      BY <1>0, <2>2, <2>3, ToldReplaced
    <3> QED
      BY <1>1, <2>2, <2>4, <3>1
  <2> HIDE DEF last
  <2>6. /\ fs.log \in Seq(Nat) /\ Len(fs.log) \in Nat /\ Len(last) \in Nat
        /\ Len(fs.log) >= Len(last) /\ size \in Nat /\ size <= Len(fs.log)
    <3>1. fs.log \in Seq(Nat)
      BY <1>0 DEF Files, FileType
    <3>2. Len(fs.log) \in Nat /\ Len(last) \in Nat
      BY <2>5, <3>1, LenProperties
    <3>3. Len(fs.log) >= Len(last)
      BY <2>3, <2>5 DEF StreamInv
    <3> QED
      BY <3>1, <3>2, <3>3
  <2>7. TargetSize = size /\ ~(TargetSize < 0)
    BY <1>0, <2>3, <2>5, <2>6 DEF TargetSize, CurrentSize
  <2>8. cut # {}
    BY <1>0 DEF Truncated
  <2>9. /\ onlineBuf' = <<onlineBuf[1], len>>
        /\ fs' \in UNION {Write(f, Line(len), {}) : f \in cut}
    <3> HIDE DEF size
    <3> QED
      BY <1>8, <2>7, <2>8 DEF LogOnlineAgain
  <2>10. PICK f \in cut : fs' \in Write(f, Line(len), {})
    BY <2>9
  <2>11. Good(f)
    BY <1>0, <2>6, <2>10, TruncatedGood
  <2>12. Reads(f, Tails(p)) /\ Ordered(f, lines) /\ f.open
    <3>1. Tails(p) \in SUBSET Seq(Nat)
      BY DEF Tails
    <3>2. Reads(fs, With(Tails(p), last))
      BY <1>0, <2>5, <2>6, TailsWithLine
    <3> QED
      BY <1>0, <2>5, <2>6, <2>10, <3>1, <3>2, TruncatedReads
  <2>13. /\ Reads(fs', Tails(p \o Line(len))) /\ Ordered(fs', lines + 1)
         /\ fs'.open /\ fs'.log # Absent /\ Len(fs'.log) >= Len(Line(len))
    <3>1. <<>> \in Tails(p) /\ With(Tails(p), Line(len)) \subseteq Tails(p \o Line(len))
      BY <2>4, <2>5, TailsGrow DEF LineOf
    <3>2. /\ Reads(fs', With(Tails(p), Line(len))) /\ Ordered(fs', lines + 1)
          /\ fs'.open /\ fs'.log # Absent /\ Len(fs'.log) >= Len(Line(len))
      BY <1>0, <2>4, <2>10, <2>11, <2>12, <3>1, WriteReads
    <3> QED
      BY <3>1, <3>2 DEF Reads
  <2>14. Run(onlineBuf', kept')
    BY <1>0, <2>1, <2>2, <2>4, <2>9, RunReplaced
  <2>15. kept'[Len(kept')] = e
    <3>1. Len(kept) \in 1..Len(kept)
      BY <1>0, <2>3
    <3> QED
      BY <1>0, <2>2, <3>1, ExceptSeq
  <2> QED
    BY <1>2, <2>2, <2>4, <2>5, <2>13, <2>14, <2>15
<1>9. CASE UNCHANGED vars
  <2>1. fs' = fs /\ onlineBuf' = onlineBuf /\ lines' = lines /\ kept' = kept
    BY <1>9 DEF vars
  <2>2. Promised' = Promised
    BY <2>1 DEF Promised
  <2> QED
    BY <1>0, <1>2, <2>1, <2>2 DEF StreamInv
<1> QED
  BY <1>5, <1>6, <1>7, <1>8, <1>9 DEF Next, Full

\* Nothing is written yet, nothing is promised.
LEMMA StreamStart ==
  ASSUME Init
  PROVE  StreamInv
<1>1. <<>> \in Seq(Nat) /\ Len(<<>>) = 0 /\ <<>> # Absent
  BY EmptySeq, AbsentIsNoText
<1>2. fs \in Files /\ fs.open /\ fs.log = <<>> /\ \A i \in 1..Top : fs.old[i] = Absent
  BY <1>1 DEF Init, Files, FileType
<1>3. Promised = <<>>
  <2> DEFINE none == [n \in 1..Len(kept) |-> [j \in 1..kept[n].len |-> kept[n].id]]
  <2>1. kept = <<>> /\ Len(kept) = 0
    BY <1>1 DEF Init
  <2>2. none = <<>>
    BY <2>1
  <2> HIDE DEF none
  <2> QED
    BY <1>1, <2>2, FlattenNone DEF Promised, none
<1>4. ASSUME NEW k \in 0..Top, Whole(fs, k) PROVE IsSuffix(Read(fs, k), Promised)
  <2>1. k = 0
    <3>1. k # 0 => 1 \in 1..k /\ 1 \in 1..Top
      BY TopIsNat
    <3> QED
      BY <1>2, <1>4, <3>1 DEF Whole
  <2>2. Read(fs, 0) = <<>>
    BY <1>1, <1>2, ReadLog DEF Present
  <2> QED
    BY <1>1, <1>3, <2>1, <2>2, EmptySuffix
<1>5. \A i \in 0..Top : BytesIn(fs, i) = {}
  <2>1. Bytes(Present(Absent)) = {} /\ Bytes(Present(<<>>)) = {}
    BY <1>1, AbsentIsNoText DEF Bytes, Present
  <2>2. \A i \in 0..Top : i # 0 => i \in 1..Top
    BY TopIsNat
  <2> QED
    BY <1>2, <2>1, <2>2 DEF BytesIn
<1>6. Run(onlineBuf, kept)
  BY <1>1 DEF Init, Run
<1>7. Reads(fs, Tails(Promised))
  <2>1. \A k \in 0..Top : Read(fs, k) \in Seq(Nat)
    BY <1>2, ReadIsText
  <2> QED
    BY <1>4, <2>1 DEF Reads, Tails
<1>8. Ordered(fs, lines)
  BY <1>5 DEF Ordered, Before
<1>9. kept = <<>>
  BY DEF Init
<1> QED
  BY <1>1, <1>2, <1>6, <1>7, <1>8, <1>9 DEF StreamInv

\* The files end what was promised, always.
THEOREM StreamInvariance ==
  ASSUME Faults \subseteq {"rename", "shift"}
  PROVE  Spec => []StreamInv
<1>1. Init => StreamInv
  BY StreamStart
<1>2. IInv /\ StreamInv /\ [Next]_vars => StreamInv'
  BY StreamStep
<1> QED
  BY <1>1, <1>2, Invariance, SpecIsShared, PTL DEF Spec

\* With any number of backups, whichever renames and removals fail, the log reads as
\* the tail of what was logged, and so does it with its backups up to the first one
\* missing until a backup is stuck in a rotation; the files beyond are older, and the
\* latest line is in the log (dedup.go, logrot.go).  A write or an open that fails
\* loses text, so neither may.
THEOREM TailIsKept ==
  ASSUME Faults \subseteq {"rename", "shift"}
  PROVE  Spec => []CollapsedTail
<1>1. ASSUME IInv, StreamInv PROVE CollapsedTail
  <2>0. fs \in Files /\ Present(fs.log) = fs.log
    BY <1>1 DEF IInv, TypeOK, StreamInv, Present
  <2>1. \A k \in 0..Top : Newest(k) = Read(fs, k)
    BY DEF Newest, Read, Older
  <2>2. ASSUME NEW k \in 0..(IF "shift" \in fs.failed THEN 0 ELSE Top),
               \A i \in 1..k : fs.old[i] # Absent
        PROVE  IsSuffix(Newest(k), Promised)
    <3>1. k \in 0..Top /\ Whole(fs, k)
      BY <2>2, TopIsNat DEF Whole
    <3> QED
      BY <1>1, <2>1, <3>1 DEF StreamInv, Reads, Tails
  <2>3. ASSUME NEW i \in 0..Top
        PROVE  DOMAIN File(i) = 1..Len(File(i)) /\ BytesIn(fs, i) = Bytes(File(i))
    <3>1. File(i) \in Seq(Nat)
      BY <2>0, PresentIsText, TopIsNat DEF File, Files
    <3> QED
      BY <3>1, LenProperties DEF File, BytesIn
  <2>4. ASSUME NEW i \in 0..Top, NEW j \in 0..Top, i < j,
               NEW m \in DOMAIN File(i), NEW n \in DOMAIN File(j)
        PROVE  File(j)[n] < File(i)[m]
    <3>1. File(j)[n] \in BytesIn(fs, j) /\ File(i)[m] \in BytesIn(fs, i)
      BY <2>3 DEF Bytes
    <3> QED
      BY <1>1, <2>4, <3>1 DEF StreamInv, Ordered, Before
  <2>5. kept # <<>> => Len(Present(fs.log)) >= Last(kept).len
    <3>1. kept # <<>> => Len(kept) # 0
      BY <1>1, EmptySeq DEF IInv, TypeOK
    <3> QED
      BY <1>1, <2>0, <3>1 DEF StreamInv, Last
  <2> QED
    BY <2>2, <2>4, <2>5 DEF CollapsedTail, OlderFilesFirst
<1>2. IInv /\ StreamInv => CollapsedTail
  BY <1>1
<1> QED
  BY <1>2, Invariance, SpecIsShared, StreamInvariance, PTL

-----------------------------------------------------------------------------
(* The order of the lines, whatever fails and whoever else logs. *)

\* A text of whole and half lines, in the order of their numbers.
Tidy(s) == \A i \in 1..Len(s) : 0 < s[i] /\ \A j \in 1..Len(s) : i < j => s[i] <= s[j]

\* Such are the files, and they are in order, up to line n.
Neat(f, n) == Ordered(f, n) /\ \A i \in 0..Top : Tidy(TextOf(f, i))

\* No text is tidy.
LEMMA NothingIsTidy == Tidy(<<>>) /\ Tidy(Present(Absent))
<1>1. Len(<<>>) = 0 /\ Len(Present(Absent)) = 0
  BY EmptySeq, AbsentIsNoText
<1> QED
  BY <1>1 DEF Tidy

\* Opening the log changes no text.
LEMMA OpenedNeat ==
  ASSUME NEW f \in Files, NEW n \in Nat, Neat(f, n)
  PROVE  Neat(Opened(f), n)
<1> DEFINE g == Opened(f)
<1>0. <<>> # Absent
  BY EmptySeq, AbsentIsNoText
<1>1. g.old = f.old /\ Present(g.log) = Present(f.log)
  BY <1>0 DEF Opened, Files, Present
<1> HIDE DEF g
<1>2. \A i \in 0..Top : TextOf(g, i) = TextOf(f, i) /\ BytesIn(g, i) = BytesIn(f, i)
  BY <1>1 DEF TextOf, BytesIn
<1>3. Ordered(g, n)
  BY <1>2, FewerOrdered DEF Neat
<1> QED
  BY <1>2, <1>3 DEF Neat, g

\* The clean-up takes texts away whole.
LEMMA CleanedNeat ==
  ASSUME NEW f \in Files, NEW removed \in SUBSET (1..Top), NEW n \in Nat, Neat(f, n)
  PROVE  Neat(Cleaned(f, removed), n)
<1> DEFINE g == Cleaned(f, removed)
<1>1. g.log = f.log
  BY DEF Cleaned, Files
<1>2. \A i \in 1..Top : g.old[i] = Absent \/ g.old[i] = f.old[i]
  BY DEF Cleaned, Files
<1> HIDE DEF g
<1>3. \A i \in 0..Top : i # 0 => i \in 1..Top
  BY TopIsNat
<1>4. ASSUME NEW i \in 0..Top PROVE BytesIn(g, i) \subseteq BytesIn(f, i)
  <2>1. Bytes(Present(Absent)) = {}
    BY AbsentIsNoText DEF Bytes
  <2> QED
    BY <1>1, <1>2, <1>3, <2>1 DEF BytesIn
<1>5. ASSUME NEW i \in 0..Top PROVE Tidy(TextOf(g, i))
  <2>1. TextOf(g, i) = TextOf(f, i) \/ TextOf(g, i) = Present(Absent)
    BY <1>1, <1>2, <1>3 DEF TextOf
  <2> QED
    BY <2>1, NothingIsTidy DEF Neat
<1>6. Ordered(g, n)
  BY <1>4, FewerOrdered DEF Neat
<1> QED
  BY <1>5, <1>6 DEF Neat, g

\* A rotation moves texts, or drops them.
LEMMA RotatedNeat ==
  ASSUME NEW f \in Files, NEW held, NEW stuck \in Stuck(f, held), NEW n \in Nat, Neat(f, n)
  PROVE  Neat(Rotated(f, stuck), n)
<1>1. Ordered(Rotated(f, stuck), n)
  BY RotatedOrdered DEF Neat
<1>2. ASSUME NEW i \in 0..Top PROVE Tidy(TextOf(Rotated(f, stuck), i))
  BY RotatedTexts, NothingIsTidy DEF Neat
<1> QED
  BY <1>1, <1>2 DEF Neat

\* What a write leaves of its line follows every other line.
LEMMA AppendedNeat ==
  ASSUME NEW f \in Files, f.open => f.log # Absent, NEW n \in Nat, Neat(f, n),
         NEW line, LineOf(line, n + 1), NEW g \in Appended(f, line)
  PROVE  Neat(g, n + 1)
<1>1. ASSUME NEW i \in 0..Top, NEW b \in BytesIn(f, i) PROVE b \in Nat /\ b <= n
  <2>1. b \in Nat
    BY TextFacts, ElementOfSeq DEF Bytes
  <2> QED
    BY <2>1 DEF Neat, Ordered
<1>2. CASE ~f.open
  <2>1. g = f
    BY <1>2 DEF Appended
  <2>2. Ordered(f, n + 1)
    BY <1>1 DEF Neat, Ordered
  <2> QED
    BY <2>1, <2>2 DEF Neat
<1>3. CASE f.open
  <2>1. line \in Seq(Nat) /\ Len(line) \in Nat /\ f.log \in Seq(Nat) /\ Present(f.log) = f.log
    BY <1>3, LenProperties DEF LineOf, Files, FileType, Present
  <2>2. PICK k \in 0..Len(line) : g = [f EXCEPT !.log = f.log \o SubSeq(line, 1, k)]
    <3>1. g \in {[f EXCEPT !.log = f.log \o SubSeq(line, 1, k)] :
                   k \in IF "write" \in Faults THEN 0..Len(line) ELSE {Len(line)}}
      BY <1>3 DEF Appended
    <3>2. Len(line) \in 0..Len(line)
      BY <2>1
    <3> QED
      BY <3>1, <3>2
  <2> DEFINE part == SubSeq(line, 1, k)
             log == f.log \o part
  <2>3. part \in Seq(Nat) /\ Len(part) = k /\ \A m \in 1..k : part[m] = n + 1
    <3>1. \A m \in 1..Len(line) : line[m] \in Nat /\ line[m] = n + 1
      BY <2>1, ElementOfSeq DEF LineOf, Bytes
    <3>2. \A m \in 1..k : m \in 1..Len(line)
      BY <2>1
    <3> QED
      BY <2>1, <3>1, <3>2, SubSeqProperties
  <2> HIDE DEF part
  <2>4. /\ log \in Seq(Nat) /\ Len(log) = Len(f.log) + k /\ Len(f.log) \in Nat
        /\ \A m \in 1..Len(log) : log[m] = IF m <= Len(f.log) THEN f.log[m] ELSE n + 1
    <3>1. /\ log \in Seq(Nat) /\ Len(log) = Len(f.log) + Len(part) /\ Len(f.log) \in Nat
          /\ \A m \in 1..(Len(f.log) + Len(part)) :
               log[m] = IF m <= Len(f.log) THEN f.log[m] ELSE part[m - Len(f.log)]
      BY <2>1, <2>3, Joined, LenProperties
    <3>2. \A m \in 1..(Len(f.log) + k) : ~(m <= Len(f.log)) => m - Len(f.log) \in 1..k
      BY <3>1
    <3> QED
      BY <2>3, <3>1, <3>2
  <2>5. log # Absent
    BY <2>4, AbsentIsNoText
  <2>6. g = [f EXCEPT !.log = log]
    BY <2>2 DEF part
  <2> HIDE DEF log
  <2>7. g.log = log /\ g.old = f.old /\ Present(g.log) = log
    BY <2>5, <2>6 DEF Files, Present
  <2>8. \A m \in 1..Len(f.log) : f.log[m] \in BytesIn(f, 0)
    BY <2>1 DEF BytesIn, Bytes
  <2>9. ASSUME NEW i \in 0..Top, NEW b \in BytesIn(g, i)
        PROVE  b \in BytesIn(f, i) \/ (i = 0 /\ b = n + 1)
    <3>1. CASE i # 0
      BY <2>7, <3>1 DEF BytesIn
    <3>2. CASE i = 0
      <4>1. PICK m \in 1..Len(log) : b = log[m]
        BY <2>7, <3>2 DEF BytesIn, Bytes
      <4>2. m <= Len(f.log) => m \in 1..Len(f.log)
        BY <2>4
      <4> QED
        BY <2>4, <2>8, <3>2, <4>1, <4>2
    <3> QED
      BY <3>1, <3>2
  <2>10. ASSUME NEW i \in 0..Top, NEW j \in 0..Top, i < j PROVE Before(BytesIn(g, j), BytesIn(g, i))
    <3> SUFFICES ASSUME NEW b \in BytesIn(g, j), NEW c \in BytesIn(g, i) PROVE b < c
      BY DEF Before
    <3>1. b \in BytesIn(f, j)
      BY <2>9, <2>10
    <3>2. CASE c \in BytesIn(f, i)
      BY <2>10, <3>1, <3>2 DEF Neat, Ordered, Before
    <3>3. CASE c = n + 1
      BY <1>1, <3>1, <3>3
    <3> QED
      BY <2>9, <3>2, <3>3
  <2>11. Ordered(g, n + 1)
    BY <1>1, <2>9, <2>10 DEF Ordered
  <2>12. Tidy(log)
    <3>1. 0 \in 0..Top /\ Tidy(f.log)
      BY <2>1, TopIsNat DEF Neat, TextOf
    <3> SUFFICES ASSUME NEW i \in 1..Len(log)
                 PROVE  0 < log[i] /\ \A j \in 1..Len(log) : i < j => log[i] <= log[j]
      BY DEF Tidy
    <3>2. CASE i <= Len(f.log)
      <4>1. i \in 1..Len(f.log) /\ log[i] = f.log[i] /\ f.log[i] \in Nat /\ f.log[i] <= n /\ 0 < f.log[i]
        BY <1>1, <2>4, <2>8, <3>1, <3>2 DEF Tidy
      <4>2. ASSUME NEW j \in 1..Len(log), i < j PROVE log[i] <= log[j]
        <5>1. CASE j <= Len(f.log)
          <6>1. j \in 1..Len(f.log) /\ log[j] = f.log[j]
            BY <2>4, <5>1
          <6> QED
            BY <3>1, <4>1, <4>2, <6>1 DEF Tidy
        <5>2. CASE ~(j <= Len(f.log))
          <6>1. log[j] = n + 1
            BY <2>4, <5>2
          <6>2. f.log[i] <= n + 1
            BY <4>1
          <6> QED
            BY <4>1, <6>1, <6>2
        <5> QED
          BY <5>1, <5>2
      <4> QED
        BY <4>1, <4>2
    <3>3. CASE ~(i <= Len(f.log))
      <4>1. log[i] = n + 1
        BY <2>4, <3>3
      <4>2. ASSUME NEW j \in 1..Len(log), i < j PROVE log[j] = n + 1
        BY <2>4, <3>3, <4>2
      <4> QED
        BY <4>1, <4>2
    <3> QED
      BY <3>2, <3>3
  <2>13. \A i \in 0..Top : TextOf(g, i) = IF i = 0 THEN log ELSE TextOf(f, i)
    BY <2>7 DEF TextOf
  <2> QED
    BY <2>11, <2>12, <2>13 DEF Neat
<1> QED
  BY <1>2, <1>3

\* A truncation that does not extend leaves the start of the log.
LEMMA TruncatedNeat ==
  ASSUME NEW f \in Files, NEW size \in Nat, f.log # Absent, size <= Len(f.log),
         NEW n \in Nat, Neat(f, n), NEW g \in Truncated(f, size)
  PROVE  Neat(g, n)
<1> DEFINE cut == [j \in 1..size |-> IF j <= Len(f.log) THEN f.log[j] ELSE Zero]
<1>1. f.log \in Seq(Nat) /\ Len(f.log) \in Nat /\ Present(f.log) = f.log
  BY LenProperties DEF Files, FileType, Present
<1>2. \A j \in 1..size : j \in 1..Len(f.log) /\ cut[j] = f.log[j] /\ cut[j] \in Nat
  BY <1>1, ElementOfSeq
<1>3. cut \in [1..size -> Nat]
  BY <1>2
<1>4. cut \in Seq(Nat)
  BY <1>3, SeqDef
<1>5. Len(cut) = size
  BY <1>3, <1>4, LenProperties
<1>6. g = [f EXCEPT !.log = cut]
  BY DEF Truncated
<1> HIDE DEF cut
<1>7. cut # Absent
  BY <1>4, AbsentIsNoText
<1>8. g.log = cut /\ g.old = f.old /\ Present(g.log) = cut
  BY <1>6, <1>7 DEF Files, Present
<1>9. \A i \in 0..Top : BytesIn(g, i) \subseteq BytesIn(f, i)
  <2>1. Bytes(cut) \subseteq Bytes(f.log)
    BY <1>2, <1>5 DEF Bytes
  <2> QED
    BY <1>1, <1>8, <2>1 DEF BytesIn
<1>10. Ordered(g, n)
  BY <1>9, FewerOrdered DEF Neat
<1>11. Tidy(cut)
  <2>1. Tidy(f.log)
    BY <1>1, TopIsNat DEF Neat, TextOf
  <2> QED
    BY <1>2, <1>5, <2>1 DEF Tidy
<1>12. \A i \in 0..Top : TextOf(g, i) = IF i = 0 THEN cut ELSE TextOf(f, i)
  BY <1>8 DEF TextOf
<1> QED
  BY <1>10, <1>11, <1>12 DEF Neat

\* RotatingWriter.Write, with whichever of its calls failing.
LEMMA WriteNeat ==
  ASSUME NEW f, Good(f), NEW n \in Nat, Neat(f, n),
         NEW line, LineOf(line, n + 1), NEW held,
         NEW g \in Write(f, line, held)
  PROVE  Neat(g, n + 1)
<1>0. f \in Files /\ (f.open => f.log # Absent)
  BY DEF Good
<1>1. CASE ~MustRotate(f, line)
  <2>1. g \in Appended(f, line)
    BY <1>1 DEF Write
  <2> QED
    BY <1>0, <2>1, AppendedNeat
<1>2. CASE MustRotate(f, line)
  <2> DEFINE Left(stuck, o) ==
               LET h == Rotated(f, stuck)
               IN  IF o THEN Appended(Opened(h), line) ELSE {[h EXCEPT !.open = FALSE]}
  <2>1. PICK stuck \in Stuck(f, held), o \in BOOLEAN : g \in Left(stuck, o)
    <3>1. MayFail("open") \subseteq BOOLEAN
      BY DEF MayFail
    <3>2. g \in UNION {Left(stuck, o) : stuck \in Stuck(f, held), o \in MayFail("open")}
      BY <1>2 DEF Write
    <3> HIDE DEF Left
    <3> QED
      BY <3>1, <3>2
  <2> DEFINE h == Rotated(f, stuck)
             c == [h EXCEPT !.open = FALSE]
  <2>2. f.log # Absent
    BY <1>0, <1>2 DEF MustRotate
  <2>3. /\ h \in Files /\ h.log = (IF 0 \in stuck THEN f.log ELSE Absent)
        /\ "rename" \in h.failed <=> "rename" \in f.failed \/ 0 \in stuck
    BY <1>0, <2>2, RotatedGood
  <2>4. Neat(h, n)
    BY <1>0, <2>2, RotatedNeat
  <2>5. g \in IF o THEN Appended(Opened(h), line) ELSE {c}
    BY <2>1
  <2> HIDE DEF h, Left
  <2>6. CASE o
    <3>1. Small(h)
      BY <2>3, AbsentIsNoText, TopIsNat DEF Small
    <3>2. Opened(h) \in Files /\ Opened(h).log # Absent
      <4>1. Good(Opened(h)) /\ Opened(h).open
        BY <2>3, <3>1, OpenedGood DEF Opened, Files
      <4> QED
        BY <4>1 DEF Good
    <3>3. Neat(Opened(h), n)
      BY <2>3, <2>4, OpenedNeat
    <3>4. g \in Appended(Opened(h), line)
      BY <2>5, <2>6
    <3> HIDE DEF c
    <3> QED
      BY <3>2, <3>3, <3>4, AppendedNeat
  <2>7. CASE ~o
    <3>1. c \in Files /\ c.log = h.log /\ c.old = h.old /\ ~c.open /\ g = c
      BY <2>3, <2>5, <2>7 DEF Files
    <3> HIDE DEF c
    <3>2. \A i \in 0..Top : TextOf(c, i) = TextOf(h, i) /\ BytesIn(c, i) = BytesIn(h, i)
      BY <3>1 DEF TextOf, BytesIn
    <3>3. Neat(c, n)
      BY <2>4, <3>2, FewerOrdered DEF Neat
    <3>4. c \in Appended(c, line)
      BY <3>1 DEF Appended
    <3> QED
      BY <3>1, <3>3, <3>4, AppendedNeat
  <2> QED
    BY <2>6, <2>7
<1> QED
  BY <1>1, <1>2

\* A rotation at a start, and the clean-up after it.
LEMMA StartNeat ==
  ASSUME NEW f, Good(f), NEW n \in Nat, Neat(f, n), NEW held,
         NEW g \in RotatedIfNeeded(f, held), NEW removed \in SUBSET (1..Top)
  PROVE  Neat(Cleaned(g, removed), n)
<1>1. g = f \/ (f.log # Absent /\ \E stuck \in Stuck(f, held) : g = Rotated(f, stuck))
  BY DEF RotatedIfNeeded
<1>2. Neat(g, n)
  BY <1>1, RotatedNeat DEF Good
<1>3. g \in Files
  BY RotatedIfNeededGood
<1> QED
  BY <1>2, <1>3, CleanedNeat

\* No step of the guard or of another command disturbs the order.
LEMMA NeatStep ==
  ASSUME IInv, Neat(fs, lines), [SharedNext]_vars
  PROVE  Neat(fs, lines)'
<1>0. /\ Good(fs) /\ fs \in Files /\ lines \in Nat /\ onlineBuf \in Seq(Lens)
      /\ Lens \subseteq Nat \ {0}
  BY LogAssumption DEF IInv, TypeOK, MayFail
<1>1. ASSUME NEW len \in Lens, lines' = lines + 1, NEW f, Good(f), Neat(f, lines),
             NEW held, fs' \in Write(f, Line(len), held)
      PROVE  Neat(fs, lines)'
  <2>1. LineOf(Line(len), lines + 1)
    BY <1>0, NextLine
  <2>2. Neat(fs', lines + 1)
    BY <1>0, <1>1, <2>1, WriteNeat
  <2> QED
    BY <1>1, <2>2 DEF Neat, Ordered, Tidy, TextOf, Before, BytesIn, Bytes, Present, Top
<1>2. ASSUME NEW len \in Lens, LogOther(len) \/ LogOnline(len) PROVE Neat(fs, lines)'
  <2>1. lines' = lines + 1 /\ fs' \in Write(fs, Line(len), {})
    BY <1>2 DEF LogOther, LogOnline, Logged
  <2> QED
    BY <1>0, <1>1, <2>1
<1>3. ASSUME NEW len \in Lens, LogOnlineAgain(len) PROVE Neat(fs, lines)'
  <2> DEFINE size == IF TargetSize < 0 THEN 0 ELSE TargetSize
             cut == Truncated(fs, size)
  <2>1. lines' = lines + 1 /\ Len(onlineBuf) = 2
    BY <1>3 DEF LogOnlineAgain, Logged
  <2>2. onlineBuf[2] \in Nat
    <3>1. onlineBuf \in Seq(Lens) /\ 2 \in 1..Len(onlineBuf)
      BY <1>0, <2>1
    <3>2. onlineBuf[2] \in Lens
      BY <3>1, ElementOfSeq
    <3> QED
      BY <1>0, <3>2
  <2>3. fs.log # Absent => fs.log \in Seq(Nat) /\ Len(fs.log) \in Nat
    BY <1>0, LenProperties DEF Files, FileType
  <2>4. size \in Nat /\ (size = 0 \/ (fs.open /\ size <= Len(fs.log)))
    BY <1>0, <2>2, <2>3 DEF TargetSize, CurrentSize, Good
  <2>5. \/ UNCHANGED fs
        \/ fs' \in UNION {Write(f, Line(len), {}) : f \in cut}
    BY <1>3 DEF LogOnlineAgain
  <2> HIDE DEF size
  <2>6. CASE UNCHANGED fs
    <3>1. Ordered(fs, lines + 1)
      <4>1. ASSUME NEW i \in 0..Top, NEW b \in BytesIn(fs, i) PROVE b <= lines + 1
        <5>1. b \in Bytes(TextOf(fs, i)) /\ TextOf(fs, i) \in Seq(Nat)
          BY <1>0, TextFacts
        <5>2. b \in Nat
          BY <5>1, ElementOfSeq DEF Bytes
        <5>3. b <= lines
          BY DEF Neat, Ordered
        <5> QED
          BY <1>0, <5>2, <5>3
      <4> QED
        BY <4>1 DEF Neat, Ordered
    <3> QED
      BY <2>1, <2>6, <3>1 DEF Neat, Ordered, Tidy, TextOf, Before, BytesIn, Bytes, Present, Top
  <2>7. CASE fs' \in UNION {Write(f, Line(len), {}) : f \in cut}
    <3>1. PICK f \in cut : fs' \in Write(f, Line(len), {})
      BY <2>7
    <3>2. Good(f)
      BY <1>0, <2>4, TruncatedGood
    <3>3. fs.log # Absent
      BY DEF Truncated
    <3>4. size <= Len(fs.log)
      BY <2>3, <2>4, <3>3
    <3>5. Neat(f, lines)
      BY <1>0, <2>4, <3>3, <3>4, TruncatedNeat
    <3> HIDE DEF cut
    <3> QED
      BY <1>0, <1>1, <2>1, <3>1, <3>2, <3>5
  <2> QED
    BY <2>5, <2>6, <2>7
<1>4. ASSUME NEW len \in Lens, NEW removed \in SUBSET (1..Top), Restart(len, removed)
      PROVE  Neat(fs, lines)'
  <2>1. lines' = lines + 1
    BY <1>4 DEF Restart, Logged
  <2>2. PICK f \in RotatedIfNeeded(fs, {}) :
          fs' \in Write(Opened(Cleaned(f, removed)), Line(len), {})
    BY <1>4 DEF Restart
  <2>3. f \in Files /\ Small(f)
    BY <1>0, RotatedIfNeededGood
  <2>4. Cleaned(f, removed) \in Files /\ Good(Opened(Cleaned(f, removed)))
    BY <2>3, CleanedGood, OpenedGood
  <2>5. Neat(Opened(Cleaned(f, removed)), lines)
    BY <1>0, <2>4, StartNeat, OpenedNeat
  <2> QED
    BY <1>0, <1>1, <2>1, <2>2, <2>4, <2>5
<1>5. ASSUME NEW len \in Lens, NEW removed \in SUBSET (1..Top), Command(len, removed)
      PROVE  Neat(fs, lines)'
  <2>1. lines' = lines + 1 /\ fs.open
    BY <1>5 DEF Command, Logged
  <2>2. PICK f \in RotatedIfNeeded(fs, {0}) :
          fs' \in Write(Cleaned(f, removed), Line(len), {0})
    BY <1>5 DEF Command
  <2>3. Good(Cleaned(f, removed))
    BY <1>0, <2>1, CommandGood
  <2>4. Neat(Cleaned(f, removed), lines)
    BY <1>0, StartNeat
  <2> QED
    BY <1>0, <1>1, <2>1, <2>2, <2>3, <2>4
<1>6. CASE UNCHANGED vars
  <2>1. fs' = fs /\ lines' = lines
    BY <1>6 DEF vars
  <2>2. Neat(fs', lines')
    BY <1>0, <2>1
  <2> QED
    BY <2>2 DEF Neat, Ordered, Tidy, TextOf, Before, BytesIn, Bytes, Present, Top
<1> QED
  BY <1>2, <1>3, <1>4, <1>5, <1>6 DEF SharedNext, Next, Full

\* Whichever calls fail and whoever else logs, no line is ever found behind a later
\* one, or twice, and no file is extended by a truncation (RotatingWriter.Write,
\* TruncateTo, DedupWriter.writeOnline).
THEOREM LinesStayInOrder == SharedSpec => []FilesInOrder
<1>1. Init => Neat(fs, lines)
  <2> SUFFICES ASSUME Init PROVE Neat(fs, lines)
    OBVIOUS
  <2>1. Ordered(fs, lines)
    BY StreamStart DEF StreamInv
  <2>2. \A i \in 0..Top : TextOf(fs, i) = <<>> \/ TextOf(fs, i) = Present(Absent)
    <3>1. <<>> # Absent
      BY EmptySeq, AbsentIsNoText
    <3>2. \A i \in 0..Top : i # 0 => i \in 1..Top
      BY TopIsNat
    <3> QED
      BY <3>1, <3>2 DEF Init, TextOf, Present
  <2> QED
    BY <2>1, <2>2, NothingIsTidy DEF Neat
<1>2. IInv /\ Neat(fs, lines) /\ [SharedNext]_vars => Neat(fs, lines)'
  BY NeatStep
<1>3. IInv /\ Neat(fs, lines) => FilesInOrder
  <2> SUFFICES ASSUME IInv, Neat(fs, lines) PROVE FilesInOrder
    OBVIOUS
  <2>1. ASSUME NEW i \in 0..Top
        PROVE  /\ File(i) \in Seq(Nat) /\ DOMAIN File(i) = 1..Len(File(i))
               /\ Tidy(File(i)) /\ BytesIn(fs, i) = Bytes(File(i))
    <3>1. File(i) = TextOf(fs, i)
      BY DEF File, TextOf
    <3> QED
      BY <3>1, TextFacts, LenProperties DEF IInv, TypeOK, Neat
  <2>2. ASSUME NEW i \in 0..Top, NEW j \in 0..Top, i < j,
               NEW m \in DOMAIN File(i), NEW n \in DOMAIN File(j)
        PROVE  File(j)[n] < File(i)[m]
    <3>1. File(j)[n] \in BytesIn(fs, j) /\ File(i)[m] \in BytesIn(fs, i)
      BY <2>1 DEF Bytes
    <3> QED
      BY <2>2, <3>1 DEF Neat, Ordered, Before
  <2>3. OlderFilesFirst
    BY <2>2 DEF OlderFilesFirst
  <2> QED
    BY <2>1, <2>3 DEF FilesInOrder, Tidy, Zero
<1> QED
  BY <1>1, <1>2, <1>3, Invariance, PTL DEF SharedSpec

-----------------------------------------------------------------------------
(* The files are the volumes of a journal, when only renames and removals fail. *)

\* The texts of the backups, and what the files become by one more line: it goes on the
\* log, or begins it when the old one has become a backup.
VolumesOf(f) == {TextOf(f, i) : i \in 1..Top} \ {<<>>}
GoesOnFrom(f, g, line) ==
  \/ TextOf(g, 0) = TextOf(f, 0) \o line /\ VolumesOf(g) \subseteq VolumesOf(f)
  \/ /\ TextOf(g, 0) = line
     /\ VolumesOf(g) \subseteq VolumesOf(f) \cup {TextOf(f, 0)}
     /\ TextOf(f, 0) # <<>> => TextOf(f, 0) \in VolumesOf(g)

\* A rotation closes the volume of the log, or fails to.
LEMMA RotatedVolumes ==
  ASSUME NEW f \in Files, f.log # Absent, NEW held, NEW stuck \in Stuck(f, held)
  PROVE  LET g == Rotated(f, stuck)
         IN  \/ TextOf(g, 0) = TextOf(f, 0) /\ VolumesOf(g) \subseteq VolumesOf(f)
             \/ /\ TextOf(g, 0) = <<>>
                /\ VolumesOf(g) \subseteq VolumesOf(f) \cup {TextOf(f, 0)}
                /\ TextOf(f, 0) # <<>> => TextOf(f, 0) \in VolumesOf(g)
<1> DEFINE g == Rotated(f, stuck)
<1>0. 1 \in 1..Top /\ Top \in Nat
  BY TopIsNat
<1>1. /\ g.log = IF 0 \in stuck THEN f.log ELSE Absent
      /\ 0 \notin stuck => g.old[1] = f.log
  BY <1>0, RotatedGood DEF Numbered
<1>2. ASSUME NEW i \in 1..Top
      PROVE  \/ TextOf(g, i) = <<>>
             \/ TextOf(g, i) = TextOf(f, i)
             \/ i - 1 \notin stuck /\ i - 1 \in 1..Top /\ TextOf(g, i) = TextOf(f, i - 1)
             \/ 0 \notin stuck /\ TextOf(g, i) = TextOf(f, 0)
  <2>1. i \in 0..Top /\ (i - 1 \in 0..Top => i - 1 = 0 \/ i - 1 \in 1..Top)
    BY <1>0
  <2> QED
    BY <2>1, RotatedTexts
<1> HIDE DEF g
<1>3. CASE 0 \in stuck
  <2>1. TextOf(g, 0) = TextOf(f, 0)
    BY <1>1, <1>3 DEF TextOf
  <2>2. VolumesOf(g) \subseteq VolumesOf(f)
    BY <1>2, <1>3 DEF VolumesOf
  <2> QED
    BY <2>1, <2>2 DEF g
<1>4. CASE 0 \notin stuck
  <2>1. TextOf(g, 0) = <<>> /\ TextOf(g, 1) = TextOf(f, 0)
    BY <1>1, <1>4 DEF TextOf, Present
  <2>2. VolumesOf(g) \subseteq VolumesOf(f) \cup {TextOf(f, 0)}
    BY <1>2 DEF VolumesOf
  <2>3. TextOf(f, 0) # <<>> => TextOf(f, 0) \in VolumesOf(g)
    BY <1>0, <2>1 DEF VolumesOf
  <2> QED
    BY <2>1, <2>2, <2>3 DEF g
<1> QED
  BY <1>3, <1>4

\* Opening the log changes no text.
LEMMA OpenedVolumes ==
  ASSUME NEW f \in Files
  PROVE  TextOf(Opened(f), 0) = TextOf(f, 0) /\ VolumesOf(Opened(f)) = VolumesOf(f)
<1>1. <<>> # Absent
  BY EmptySeq, AbsentIsNoText
<1>2. Opened(f).old = f.old /\ Present(Opened(f).log) = Present(f.log)
  BY <1>1 DEF Opened, Files, Present
<1> QED
  BY <1>2, TopIsNat DEF TextOf, VolumesOf

\* The clean-up loses volumes as a whole.
LEMMA CleanedVolumes ==
  ASSUME NEW f \in Files, NEW removed \in SUBSET (1..Top)
  PROVE  /\ TextOf(Cleaned(f, removed), 0) = TextOf(f, 0)
         /\ VolumesOf(Cleaned(f, removed)) \subseteq VolumesOf(f)
<1> DEFINE g == Cleaned(f, removed)
<1>1. g.log = f.log /\ \A i \in 1..Top : g.old[i] = Absent \/ g.old[i] = f.old[i]
  BY DEF Cleaned, Files
<1> HIDE DEF g
<1>2. \A i \in 1..Top : TextOf(g, i) = <<>> \/ TextOf(g, i) = TextOf(f, i)
  BY <1>1, TopIsNat DEF TextOf, Present
<1> QED
  BY <1>1, <1>2 DEF TextOf, VolumesOf, g

\* RotatingWriter.Write puts its line after the others, or begins a volume with it.
LEMMA WriteFollows ==
  ASSUME Faults \subseteq {"rename", "shift"}, NEW f, Good(f), f.open,
         NEW line \in Seq(Nat), NEW held, NEW g \in Write(f, line, held)
  PROVE  GoesOnFrom(f, g, line)
<1>0. /\ f \in Files /\ f.log # Absent /\ "write" \notin Faults
      /\ MayFail("open") = {TRUE}
  BY DEF Good, MayFail
<1>1. ASSUME NEW h \in Files, h.open, h.log # Absent, NEW k \in Appended(h, line)
      PROVE  TextOf(k, 0) = TextOf(h, 0) \o line /\ VolumesOf(k) = VolumesOf(h)
  <2>1. k.log = h.log \o line /\ k.old = h.old /\ Present(k.log) = k.log
    BY <1>0, <1>1, AppendedIs
  <2>2. Present(h.log) = h.log
    BY <1>1 DEF Present
  <2>3. TextOf(k, 0) = TextOf(h, 0) \o line
    BY <2>1, <2>2 DEF TextOf
  <2>4. \A i \in 1..Top : TextOf(k, i) = TextOf(h, i)
    BY <2>1, TopIsNat DEF TextOf
  <2> QED
    BY <2>3, <2>4 DEF VolumesOf
<1>2. CASE ~MustRotate(f, line)
  <2>1. g \in Appended(f, line)
    BY <1>2 DEF Write
  <2> QED
    BY <1>0, <1>1, <2>1 DEF GoesOnFrom
<1>3. CASE MustRotate(f, line)
  <2>1. PICK stuck \in Stuck(f, held) : g \in Appended(Opened(Rotated(f, stuck)), line)
    <3> DEFINE Left(stuck, o) ==
                 LET h == Rotated(f, stuck)
                 IN  IF o THEN Appended(Opened(h), line) ELSE {[h EXCEPT !.open = FALSE]}
    <3>1. g \in UNION {Left(stuck, o) : stuck \in Stuck(f, held), o \in MayFail("open")}
      BY <1>3 DEF Write
    <3>2. \A stuck \in Stuck(f, held) :
            Left(stuck, TRUE) = Appended(Opened(Rotated(f, stuck)), line)
      OBVIOUS
    <3> HIDE DEF Left
    <3>3. PICK stuck \in Stuck(f, held), o \in MayFail("open") : g \in Left(stuck, o)
      BY <3>1
    <3>4. o = TRUE
      BY <1>0
    <3> QED
      BY <3>2, <3>3, <3>4
  <2> DEFINE h == Rotated(f, stuck)
             o == Opened(h)
  <2>2. h \in Files
    BY <1>0, RotatedGood
  <2>3. \/ TextOf(h, 0) = TextOf(f, 0) /\ VolumesOf(h) \subseteq VolumesOf(f)
        \/ /\ TextOf(h, 0) = <<>>
           /\ VolumesOf(h) \subseteq VolumesOf(f) \cup {TextOf(f, 0)}
           /\ TextOf(f, 0) # <<>> => TextOf(f, 0) \in VolumesOf(h)
    BY <1>0, RotatedVolumes
  <2> HIDE DEF h
  <2>4. o \in Files /\ o.log # Absent /\ o.open
    <3>1. <<>> \in Seq(Nat) /\ <<>> # Absent
      BY EmptySeq, AbsentIsNoText
    <3> QED
      BY <2>2, <3>1 DEF Opened, Files, FileType
  <2>5. TextOf(o, 0) = TextOf(h, 0) /\ VolumesOf(o) = VolumesOf(h)
    BY <2>2, OpenedVolumes
  <2>6. g \in Appended(o, line)
    BY <2>1 DEF h
  <2> HIDE DEF o
  <2>7. TextOf(g, 0) = TextOf(h, 0) \o line /\ VolumesOf(g) = VolumesOf(h)
    BY <1>1, <2>4, <2>5, <2>6
  <2>8. <<>> \o line = line
    BY ConcatEmptySeq
  <2> QED
    BY <2>3, <2>7, <2>8 DEF GoesOnFrom
<1> QED
  BY <1>2, <1>3

\* The end of the log is cut off, and nothing else.
LEMMA TruncatedIs ==
  ASSUME NEW f \in Files, f.log # Absent, NEW size \in Nat, size <= Len(f.log),
         NEW g \in Truncated(f, size)
  PROVE  /\ TextOf(g, 0) = SubSeq(f.log, 1, size) /\ VolumesOf(g) = VolumesOf(f)
         /\ g.open = f.open
<1> DEFINE cut == [j \in 1..size |-> IF j <= Len(f.log) THEN f.log[j] ELSE Zero]
           part == SubSeq(f.log, 1, size)
<1>1. f.log \in Seq(Nat) /\ Len(f.log) \in Nat
  BY LenProperties DEF Files, FileType
<1>2. \A j \in 1..size : j \in 1..Len(f.log) /\ cut[j] = f.log[j] /\ cut[j] \in Nat
  BY <1>1, ElementOfSeq
<1>3. cut \in [1..size -> Nat]
  BY <1>2
<1>4. cut \in Seq(Nat)
  BY <1>3, SeqDef
<1>5. Len(cut) = size
  BY <1>3, <1>4, LenProperties
<1>6. g = [f EXCEPT !.log = cut]
  BY DEF Truncated
<1>7. part \in Seq(Nat) /\ Len(part) = size /\ \A j \in 1..size : part[j] = f.log[j]
  BY <1>1, <1>2, SubSeqProperties
<1> HIDE DEF cut, part
<1>8. cut = part
  BY <1>2, <1>4, <1>5, <1>7, SeqEqual
<1>9. cut # Absent
  BY <1>4, AbsentIsNoText
<1>10. g.log = cut /\ g.old = f.old /\ g.open = f.open /\ Present(g.log) = cut
  BY <1>6, <1>9 DEF Files, Present
<1> QED
  BY <1>8, <1>10, TopIsNat DEF TextOf, VolumesOf, part

\* The second of two online lines is the latest line, and at the end of the log.
LEMMA LatestIsLast ==
  ASSUME IInv, StreamInv, Len(onlineBuf) = 2
  PROVE  /\ onlineBuf[2] \in Nat /\ onlineBuf[2] <= Len(fs.log)
         /\ fs.log = SubSeq(fs.log, 1, Len(fs.log) - onlineBuf[2])
                       \o Diary!LineOf(lines, onlineBuf[2])
<1> DEFINE n == Len(kept)
           last == Body(kept[n])
<1>1. /\ fs \in Files /\ fs.log \in Seq(Nat) /\ Len(fs.log) \in Nat
      /\ kept \in Seq(Entry) /\ Run(onlineBuf, kept)
  BY LenProperties DEF IInv, TypeOK, StreamInv, Files, FileType, Entry
<1>2. /\ n # 0 /\ onlineBuf[2] = kept[n].len /\ kept[n].id = lines
      /\ Len(fs.log) >= kept[n].len
  BY <1>1 DEF StreamInv, Run
<1>3. PICK p \in Seq(Nat) : /\ last \in Seq(Nat) /\ Len(last) = kept[n].len
                            /\ Told(kept) = p \o last
  <2>1. n \in 1..n
    BY <1>1, <1>2, LenProperties
  <2>2. kept[n] \in Entry
    BY <1>1, <2>1, ElementOfSeq
  <2>3. \E p \in Seq(Nat) :
          /\ last \in Seq(Nat) /\ Len(last) = kept[n].len
          /\ Told(kept) = p \o last
          /\ Told([kept EXCEPT ![n] = kept[n]]) = p \o Body(kept[n])
    BY <1>1, <1>2, <2>2, ToldReplaced
  <2> QED
    BY <2>3
<1>4. last = Diary!LineOf(lines, onlineBuf[2])
  BY <1>2 DEF Body, Diary!LineOf
<1> HIDE DEF last, n
<1>5. Len(last) \in Nat /\ Len(last) = onlineBuf[2] /\ Len(fs.log) >= Len(last)
  BY <1>2, <1>3, LenProperties
<1>6. Reads(fs, With(Tails(p), last))
  <2>1. Promised = Told(kept)
    BY DEF Promised, Told, Body
  <2>2. Reads(fs, Tails(p \o last)) /\ fs.log # Absent
    BY <1>3, <2>1 DEF StreamInv
  <2> QED
    BY <1>1, <1>3, <1>5, <2>2, TailsWithLine
<1>7. PICK t \in Seq(Nat) : fs.log = t \o last
  <2>1. Read(fs, 0) = fs.log
    BY <1>1, ReadLog DEF StreamInv, Present
  <2>2. 0 \in 0..Top /\ Whole(fs, 0)
    BY TopIsNat DEF Whole
  <2> QED
    BY <1>6, <2>1, <2>2 DEF Reads, With, Tails
<1>8. t = SubSeq(fs.log, 1, Len(fs.log) - onlineBuf[2])
  <2> DEFINE m == Len(fs.log) - onlineBuf[2]
             u == SubSeq(fs.log, 1, m)
             v == SubSeq(fs.log, m + 1, Len(fs.log))
  <2>1. u \in Seq(Nat) /\ v \in Seq(Nat) /\ Len(v) = Len(last) /\ fs.log = u \o v
    BY <1>1, <1>5, SplitEnd
  <2> HIDE DEF u, v
  <2>2. t \o last = u \o v
    BY <1>7, <2>1
  <2>3. t = u
    BY <1>3, <2>1, <2>2, SameBefore
  <2> QED
    BY <2>3 DEF u
<1> QED
  BY <1>4, <1>5, <1>7, <1>8

\* Every step of the log tells a line to the journal.
LEMMA JournalStep ==
  ASSUME Faults \subseteq {"rename", "shift"}, IInv, StreamInv, [Next]_vars
  PROVE  [Diary!Next]_<<File(0), Volumes, onlineBuf, lines>>
<1>0. /\ fs \in Files /\ Good(fs) /\ fs.open /\ fs.log # Absent /\ fs.log \in Seq(Nat)
      /\ lines \in Nat /\ TextOf(fs, 0) = fs.log
  <2>1. lines \in Nat
    BY LogAssumption DEF IInv, TypeOK
  <2> QED
    BY <2>1 DEF IInv, TypeOK, Good, StreamInv, Files, FileType, TextOf, Present
<1>1. /\ File(0) = TextOf(fs, 0) /\ File(0)' = TextOf(fs', 0)
      /\ Volumes = VolumesOf(fs) /\ Volumes' = VolumesOf(fs')
  BY DEF File, TextOf, Volumes, VolumesOf, Present, Top
<1>2. ASSUME NEW len \in Lens
      PROVE  /\ Line(len) \in Seq(Nat) /\ Line(len) = Diary!LineOf(lines + 1, len)
  BY <1>0, LineFacts DEF Line, Diary!LineOf
<1>3. ASSUME NEW len \in Lens, lines' = lines + 1, NEW f, Good(f), f.open,
             VolumesOf(f) \subseteq VolumesOf(fs),
             NEW held, fs' \in Write(f, Line(len), held)
      PROVE  Diary!GoesOn(TextOf(f, 0), len)
  <2>1. GoesOnFrom(f, fs', Line(len))
    BY <1>2, <1>3, WriteFollows
  <2> QED
    BY <1>1, <1>2, <1>3, <2>1 DEF GoesOnFrom, Diary!GoesOn
<1>4. ASSUME NEW len \in Lens, LogOther(len) PROVE Diary!Other(len)
  <2>1. lines' = lines + 1 /\ fs' \in Write(fs, Line(len), {})
    BY <1>4 DEF LogOther, Logged
  <2>2. Diary!GoesOn(TextOf(fs, 0), len)
    BY <1>0, <1>3, <2>1
  <2> QED
    BY <1>1, <1>4, <2>2 DEF Diary!Other, LogOther
<1>5. ASSUME NEW len \in Lens, LogOnline(len) PROVE Diary!Online(len)
  <2>1. lines' = lines + 1 /\ fs' \in Write(fs, Line(len), {})
    BY <1>5 DEF LogOnline, Logged
  <2>2. Diary!GoesOn(TextOf(fs, 0), len)
    BY <1>0, <1>3, <2>1
  <2> QED
    BY <1>1, <1>5, <2>2 DEF Diary!Online, LogOnline
<1>6. ASSUME NEW len \in Lens, NEW removed \in SUBSET (1..Top), Restart(len, removed)
      PROVE  Diary!Restart(len)
  <2>1. lines' = lines + 1 /\ onlineBuf' = <<>>
    BY <1>6 DEF Restart, Logged
  <2>2. PICK f \in RotatedIfNeeded(fs, {}) :
          fs' \in Write(Opened(Cleaned(f, removed)), Line(len), {})
    BY <1>6 DEF Restart
  <2> DEFINE c == Cleaned(f, removed)
             o == Opened(c)
  <2>3. f \in Files /\ Small(f)
    BY <1>0, RotatedIfNeededGood
  <2>4. c \in Files /\ Small(c)
    BY <2>3, CleanedGood
  <2>5. \/ TextOf(f, 0) = TextOf(fs, 0) /\ VolumesOf(f) \subseteq VolumesOf(fs)
        \/ /\ TextOf(f, 0) = <<>>
           /\ VolumesOf(f) \subseteq VolumesOf(fs) \cup {TextOf(fs, 0)}
    <3>1. f = fs \/ \E stuck \in Stuck(fs, {}) : f = Rotated(fs, stuck)
      BY DEF RotatedIfNeeded
    <3> QED
      BY <1>0, <3>1, RotatedVolumes
  <2>6. TextOf(c, 0) = TextOf(f, 0) /\ VolumesOf(c) \subseteq VolumesOf(f)
    BY <2>3, CleanedVolumes
  <2> HIDE DEF c
  <2>7. TextOf(o, 0) = TextOf(c, 0) /\ VolumesOf(o) = VolumesOf(c)
    BY <2>4, OpenedVolumes
  <2>8. Good(o) /\ o.open
    BY <2>4, OpenedGood DEF Opened, Files
  <2>9. fs' \in Write(o, Line(len), {})
    BY <2>2 DEF c
  <2> HIDE DEF o
  <2>10. GoesOnFrom(o, fs', Line(len))
    BY <1>2, <2>8, <2>9, WriteFollows
  <2>11. /\ TextOf(fs', 0) = TextOf(fs, 0) \o Line(len) \/ TextOf(fs', 0) = Line(len)
         /\ VolumesOf(fs') \subseteq VolumesOf(fs) \cup {TextOf(fs, 0)}
    <3>1. <<>> \o Line(len) = Line(len)
      BY <1>2, ConcatEmptySeq
    <3>2. <<>> \notin VolumesOf(fs')
      BY DEF VolumesOf
    <3> QED
      BY <2>5, <2>6, <2>7, <2>10, <3>1, <3>2 DEF GoesOnFrom
  <2> QED
    BY <1>1, <1>2, <2>1, <2>11 DEF Diary!Restart
<1>7. ASSUME NEW len \in Lens, LogOnlineAgain(len) PROVE Diary!OnlineAgain(len)
  <2> DEFINE size == Len(fs.log) - onlineBuf[2]
             cut == Truncated(fs, size)
  <2>1. lines' = lines + 1 /\ Len(onlineBuf) = 2
    BY <1>7 DEF LogOnlineAgain, Logged
  <2>2. /\ onlineBuf[2] \in Nat /\ onlineBuf[2] <= Len(fs.log) /\ Len(fs.log) \in Nat
        /\ fs.log = SubSeq(fs.log, 1, size) \o Diary!LineOf(lines, onlineBuf[2])
    BY <1>0, <2>1, LatestIsLast, LenProperties
  <2>3. TargetSize = size /\ size \in Nat /\ size <= Len(fs.log) /\ ~(TargetSize < 0)
    <3>1. TargetSize = size
      BY <1>0 DEF TargetSize, CurrentSize
    <3>2. size \in Nat /\ size <= Len(fs.log)
      BY <2>2
    <3> HIDE DEF size
    <3> QED
      BY <3>1, <3>2
  <2>4. cut # {}
    BY <1>0 DEF Truncated
  <2>5. /\ onlineBuf' = <<onlineBuf[1], len>>
        /\ \E f \in cut : fs' \in Write(f, Line(len), {})
    <3> HIDE DEF size
    <3>1. /\ onlineBuf' = <<onlineBuf[1], len>>
          /\ fs' \in UNION {Write(f, Line(len), {}) : f \in cut}
      BY <1>7, <2>3, <2>4 DEF LogOnlineAgain
    <3> QED
      BY <3>1
  <2>6. PICK f \in cut : fs' \in Write(f, Line(len), {})
    BY <2>5
  <2>7. Good(f)
    <3>1. f \in Truncated(fs, size)
      BY <2>6
    <3> QED
      BY <1>0, <2>3, <3>1, TruncatedGood
  <2>8. /\ TextOf(f, 0) = SubSeq(fs.log, 1, size) /\ VolumesOf(f) = VolumesOf(fs)
        /\ f.open
    <3> HIDE DEF size
    <3> QED
      BY <1>0, <2>3, <2>6, TruncatedIs
  <2>9. Diary!GoesOn(TextOf(f, 0), len)
    BY <1>3, <2>1, <2>6, <2>7, <2>8
  <2> QED
    BY <1>0, <1>1, <2>1, <2>2, <2>5, <2>8, <2>9 DEF Diary!OnlineAgain
<1>8. CASE UNCHANGED vars
  <2>1. fs' = fs /\ onlineBuf' = onlineBuf /\ lines' = lines
    BY <1>8 DEF vars
  <2> QED
    BY <1>1, <2>1
<1> QED
  BY <1>4, <1>5, <1>6, <1>7, <1>8 DEF Next, Full, Diary!Next

\* While writes and opens work, whichever renames and removals fail, the files are the
\* volumes of a journal: a line is written whole and is never changed or moved to
\* another volume, a volume is lost as a whole, and only a third online line takes the
\* place of another (RotatingWriter, DedupWriter, CleanupOldLogs).
THEOREM LogIsAJournal ==
  ASSUME Faults \subseteq {"rename", "shift"}
  PROVE  Spec => KeepsJournal
<1>1. Init => Diary!Init
  <2> SUFFICES ASSUME Init PROVE Diary!Init
    OBVIOUS
  <2>1. <<>> # Absent
    BY EmptySeq, AbsentIsNoText
  <2>2. fs.log = <<>> /\ \A i \in 1..Top : fs.old[i] = Absent
    BY DEF Init
  <2>3. File(0) = <<>> /\ \A i \in 1..Top : File(i) = <<>>
    BY <2>1, <2>2, TopIsNat DEF File, Present
  <2>4. Volumes = {}
    BY <2>3 DEF Volumes
  <2> QED
    BY <2>3, <2>4 DEF Init, Diary!Init
<1>2. IInv /\ StreamInv /\ [Next]_vars => [Diary!Next]_<<File(0), Volumes, onlineBuf, lines>>
  BY JournalStep
<1> QED
  BY <1>1, <1>2, Invariance, SpecIsShared, StreamInvariance, PTL DEF Spec, KeepsJournal, Diary!Spec
=============================================================================
