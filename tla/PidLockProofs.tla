--------------------------- MODULE PidLockProofs ---------------------------
(***************************************************************************)
(* Proofs about PidLock, for every set of instances, on both platforms,    *)
(* with and without reuse of process ids: when instances start one at a    *)
(* time the PID file is an exclusive lock.                                 *)
(*                                                                         *)
(* HolderNamed alone is not inductive: an instance between its ReadFile    *)
(* and its Fprintf must be known to have seen the holder's id (it will be  *)
(* refused) or that there is no holder (it may overwrite the file).        *)
(***************************************************************************)
EXTENDS PidLock, TLAPS

\* What an instance in acquirePidFile knows of the holder.
AcquirerKnows ==
  \A p, q \in Procs : pc[p] \in Holding =>
    /\ pc[q] = "find" => seen[q] = p
    /\ pc[q] \notin {"open", "write"}

\* Starts do not overlap.
OneAcquiring ==
  \A p, q \in Procs : pc[p] \in Acquiring /\ pc[q] \in Acquiring => p = q

\* Who has the file open.
Handles ==
  \A p \in Procs :
    /\ pc[p] = "write" => linked[p] = TRUE
    /\ linked[p] = TRUE => pc[p] \in {"write", "boot", "loop", "close"}

IInv ==
  TypeOK /\ OneAcquiring /\ HolderNamed /\ AcquirerKnows /\ Handles /\ ReturnCleansUp

\* The invariant holds before anyone starts.
LEMMA InitIInv == Init => IInv
BY PidLockAssumption DEF Init, IInv, TypeOK, OneAcquiring, HolderNamed, AcquirerKnows,
   Handles, ReturnCleansUp, Acquiring, Holding

\* One step of one instance.
LEMMA StepIInv ==
  ASSUME IInv, NEW p \in Procs, Step(p), OneAcquiring'
  PROVE  IInv'
<1>. USE PidLockAssumption DEF IInv, At, Goto
<1>1. CASE Start(p)
  <2>. USE <1>1 DEF Start, Acquiring, Holding, Ended
  <2>1. TypeOK'
    BY DEF TypeOK
  <2>2. HolderNamed'
    BY DEF TypeOK, HolderNamed, AcquirerKnows, Handles
  <2>3. AcquirerKnows'
    BY DEF TypeOK, HolderNamed, AcquirerKnows, OneAcquiring
  <2>4. Handles'
    BY DEF TypeOK, Handles, AcquirerKnows
  <2>5. ReturnCleansUp'
    BY DEF TypeOK, ReturnCleansUp, HolderNamed, Handles, AcquirerKnows
  <2>. QED
    BY <2>1, <2>2, <2>3, <2>4, <2>5
<1>2. CASE Read(p)
  <2>. USE <1>2 DEF Read, Acquiring, Holding, Ended
  <2>1. TypeOK'
    BY DEF TypeOK
  <2>2. HolderNamed'
    BY DEF TypeOK, HolderNamed, AcquirerKnows, Handles
  <2>3. AcquirerKnows'
    BY DEF TypeOK, HolderNamed, AcquirerKnows, OneAcquiring
  <2>4. Handles'
    BY DEF TypeOK, Handles, AcquirerKnows
  <2>5. ReturnCleansUp'
    BY DEF TypeOK, ReturnCleansUp, HolderNamed, Handles, AcquirerKnows
  <2>. QED
    BY <2>1, <2>2, <2>3, <2>4, <2>5
<1>3. CASE Find(p)
  <2>. USE <1>3 DEF Find, FindProcess, Alive, Acquiring, Holding, Ended
  <2>1. TypeOK'
    BY DEF TypeOK
  <2>2. HolderNamed'
    BY DEF TypeOK, HolderNamed, AcquirerKnows, Handles
  <2>3. AcquirerKnows'
    BY DEF TypeOK, HolderNamed, AcquirerKnows, OneAcquiring
  <2>4. Handles'
    BY DEF TypeOK, Handles, AcquirerKnows
  <2>5. ReturnCleansUp'
    BY DEF TypeOK, ReturnCleansUp, HolderNamed, Handles, AcquirerKnows
  <2>. QED
    BY <2>1, <2>2, <2>3, <2>4, <2>5
<1>4. CASE Open(p)
  <2>. USE <1>4 DEF Open, Acquiring, Holding, Ended
  <2>1. TypeOK'
    BY DEF TypeOK
  <2>2. HolderNamed'
    BY DEF TypeOK, HolderNamed, AcquirerKnows, Handles
  <2>3. AcquirerKnows'
    BY DEF TypeOK, HolderNamed, AcquirerKnows, OneAcquiring
  <2>4. Handles'
    BY DEF TypeOK, Handles, AcquirerKnows
  <2>5. ReturnCleansUp'
    BY DEF TypeOK, ReturnCleansUp, HolderNamed, Handles, AcquirerKnows
  <2>. QED
    BY <2>1, <2>2, <2>3, <2>4, <2>5
<1>5. CASE OpenFails(p)
  <2>. USE <1>5 DEF OpenFails, Acquiring, Holding, Ended
  <2>1. TypeOK'
    BY DEF TypeOK
  <2>2. HolderNamed'
    BY DEF TypeOK, HolderNamed, AcquirerKnows, Handles
  <2>3. AcquirerKnows'
    BY DEF TypeOK, HolderNamed, AcquirerKnows, OneAcquiring
  <2>4. Handles'
    BY DEF TypeOK, Handles, AcquirerKnows
  <2>5. ReturnCleansUp'
    BY DEF TypeOK, ReturnCleansUp, HolderNamed, Handles, AcquirerKnows
  <2>. QED
    BY <2>1, <2>2, <2>3, <2>4, <2>5
<1>6. CASE Write(p)
  <2>. USE <1>6 DEF Write, Acquiring, Holding, Ended
  <2>1. TypeOK'
    BY DEF TypeOK
  <2>2. HolderNamed'
    BY DEF TypeOK, HolderNamed, AcquirerKnows, Handles
  <2>3. AcquirerKnows'
    BY DEF TypeOK, HolderNamed, AcquirerKnows, OneAcquiring
  <2>4. Handles'
    BY DEF TypeOK, Handles, AcquirerKnows
  <2>5. ReturnCleansUp'
    BY DEF TypeOK, ReturnCleansUp, HolderNamed, Handles, AcquirerKnows
  <2>. QED
    BY <2>1, <2>2, <2>3, <2>4, <2>5
<1>7. CASE WriteFails(p)
  <2>. USE <1>7 DEF WriteFails, End, Acquiring, Holding, Ended
  <2>1. TypeOK'
    BY DEF TypeOK
  <2>2. HolderNamed'
    BY DEF TypeOK, HolderNamed, AcquirerKnows, Handles
  <2>3. AcquirerKnows'
    BY DEF TypeOK, HolderNamed, AcquirerKnows, OneAcquiring
  <2>4. Handles'
    BY DEF TypeOK, Handles, AcquirerKnows
  <2>5. ReturnCleansUp'
    BY DEF TypeOK, ReturnCleansUp, HolderNamed, Handles, AcquirerKnows
  <2>. QED
    BY <2>1, <2>2, <2>3, <2>4, <2>5
<1>8. CASE EnterLoop(p)
  <2>. USE <1>8 DEF EnterLoop, Acquiring, Holding, Ended
  <2>1. TypeOK'
    BY DEF TypeOK
  <2>2. HolderNamed'
    BY DEF TypeOK, HolderNamed, AcquirerKnows, Handles
  <2>3. AcquirerKnows'
    BY DEF TypeOK, HolderNamed, AcquirerKnows, OneAcquiring
  <2>4. Handles'
    BY DEF TypeOK, Handles, AcquirerKnows
  <2>5. ReturnCleansUp'
    BY DEF TypeOK, ReturnCleansUp, HolderNamed, Handles, AcquirerKnows
  <2>. QED
    BY <2>1, <2>2, <2>3, <2>4, <2>5
<1>9. CASE OneShotDone(p)
  <2>. USE <1>9 DEF OneShotDone, Acquiring, Holding, Ended
  <2>1. TypeOK'
    BY DEF TypeOK
  <2>2. HolderNamed'
    BY DEF TypeOK, HolderNamed, AcquirerKnows, Handles
  <2>3. AcquirerKnows'
    BY DEF TypeOK, HolderNamed, AcquirerKnows, OneAcquiring
  <2>4. Handles'
    BY DEF TypeOK, Handles, AcquirerKnows
  <2>5. ReturnCleansUp'
    BY DEF TypeOK, ReturnCleansUp, HolderNamed, Handles, AcquirerKnows
  <2>. QED
    BY <2>1, <2>2, <2>3, <2>4, <2>5
<1>10. CASE Fatal(p)
  <2>. USE <1>10 DEF Fatal, End, Acquiring, Holding, Ended
  <2>1. TypeOK'
    BY DEF TypeOK
  <2>2. HolderNamed'
    BY DEF TypeOK, HolderNamed, AcquirerKnows, Handles
  <2>3. AcquirerKnows'
    BY DEF TypeOK, HolderNamed, AcquirerKnows, OneAcquiring
  <2>4. Handles'
    BY DEF TypeOK, Handles, AcquirerKnows
  <2>5. ReturnCleansUp'
    BY DEF TypeOK, ReturnCleansUp, HolderNamed, Handles, AcquirerKnows
  <2>. QED
    BY <2>1, <2>2, <2>3, <2>4, <2>5
<1>11. CASE Interrupt(p)
  <2>. USE <1>11 DEF Interrupt, End, Acquiring, Holding, Ended
  <2>1. TypeOK'
    BY DEF TypeOK
  <2>2. HolderNamed'
    BY DEF TypeOK, HolderNamed, AcquirerKnows, Handles
  <2>3. AcquirerKnows'
    BY DEF TypeOK, HolderNamed, AcquirerKnows, OneAcquiring
  <2>4. Handles'
    BY DEF TypeOK, Handles, AcquirerKnows
  <2>5. ReturnCleansUp'
    BY DEF TypeOK, ReturnCleansUp, HolderNamed, Handles, AcquirerKnows
  <2>. QED
    BY <2>1, <2>2, <2>3, <2>4, <2>5
<1>12. CASE Close(p)
  <2>. USE <1>12 DEF Close, Acquiring, Holding, Ended
  <2>1. TypeOK'
    BY DEF TypeOK
  <2>2. HolderNamed'
    BY DEF TypeOK, HolderNamed, AcquirerKnows, Handles
  <2>3. AcquirerKnows'
    BY DEF TypeOK, HolderNamed, AcquirerKnows, OneAcquiring
  <2>4. Handles'
    BY DEF TypeOK, Handles, AcquirerKnows
  <2>5. ReturnCleansUp'
    BY DEF TypeOK, ReturnCleansUp, HolderNamed, Handles, AcquirerKnows
  <2>. QED
    BY <2>1, <2>2, <2>3, <2>4, <2>5
<1>13. CASE Remove(p)
  <2>. USE <1>13 DEF Remove, CanRemove, Acquiring, Holding, Ended
  <2>1. TypeOK'
    BY DEF TypeOK
  <2>2. HolderNamed'
    BY DEF TypeOK, HolderNamed, AcquirerKnows, Handles
  <2>3. AcquirerKnows'
    BY DEF TypeOK, HolderNamed, AcquirerKnows, OneAcquiring
  <2>4. Handles'
    BY DEF TypeOK, Handles, AcquirerKnows
  <2>5. ReturnCleansUp'
    BY DEF TypeOK, ReturnCleansUp, HolderNamed, Handles, AcquirerKnows
  <2>. QED
    BY <2>1, <2>2, <2>3, <2>4, <2>5
<1>14. CASE Crash(p)
  <2>. USE <1>14 DEF Crash, End, Alive, Acquiring, Holding, Ended
  <2>1. TypeOK'
    BY DEF TypeOK
  <2>2. HolderNamed'
    BY DEF TypeOK, HolderNamed, AcquirerKnows, Handles
  <2>3. AcquirerKnows'
    BY DEF TypeOK, HolderNamed, AcquirerKnows, OneAcquiring
  <2>4. Handles'
    BY DEF TypeOK, Handles, AcquirerKnows
  <2>5. ReturnCleansUp'
    BY DEF TypeOK, ReturnCleansUp, HolderNamed, Handles, AcquirerKnows
  <2>. QED
    BY <2>1, <2>2, <2>3, <2>4, <2>5
<1>15. CASE ReusePid(p)
  <2>. USE <1>15 DEF ReusePid, Acquiring, Holding, Ended
  <2>1. TypeOK'
    BY DEF TypeOK
  <2>2. HolderNamed'
    BY DEF TypeOK, HolderNamed, AcquirerKnows, Handles
  <2>3. AcquirerKnows'
    BY DEF TypeOK, HolderNamed, AcquirerKnows, OneAcquiring
  <2>4. Handles'
    BY DEF TypeOK, Handles, AcquirerKnows
  <2>5. ReturnCleansUp'
    BY DEF TypeOK, ReturnCleansUp, HolderNamed, Handles, AcquirerKnows
  <2>. QED
    BY <2>1, <2>2, <2>3, <2>4, <2>5
<1>. QED
  BY <1>1, <1>2, <1>3, <1>4, <1>5, <1>6, <1>7, <1>8, <1>9, <1>10, <1>11, <1>12, <1>13, <1>14,
     <1>15
     DEF Step, Proceed, Acquire, Run

\* Nobody but Start enters acquirePidFile, and SerialStart finds it empty.
LEMMA SerialSteps ==
  ASSUME IInv, NEW p \in Procs, SerialStart(p) \/ Proceed(p)
  PROVE  Step(p) /\ OneAcquiring'
<1>. USE DEF IInv, TypeOK, OneAcquiring, At, Goto
<1>1. CASE SerialStart(p)
  BY <1>1 DEF SerialStart, Step, Start
<1>2. CASE Proceed(p)
  <2>1. \A q \in Procs : pc'[q] \in Acquiring => pc[q] \in Acquiring
    BY <1>2 DEF Proceed, Acquire, Run, Read, Find, Open, OpenFails, Write, WriteFails,
       EnterLoop, OneShotDone, Fatal, Interrupt, Close, Remove, Crash, ReusePid, End,
       Acquiring, Ended
  <2>. QED
    BY <1>2, <2>1 DEF Step
<1>. QED
  BY <1>1, <1>2

\* Every step of SerialSpec preserves the invariant.
LEMMA NextIInv == IInv /\ [SerialNext]_vars => IInv'
<1>. SUFFICES ASSUME IInv, [SerialNext]_vars PROVE IInv'
  OBVIOUS
<1>1. CASE UNCHANGED vars
  BY <1>1 DEF vars, IInv, TypeOK, OneAcquiring, HolderNamed, AcquirerKnows, Handles,
     ReturnCleansUp
<1>2. CASE \E p \in Procs : SerialStart(p) \/ Proceed(p)
  BY <1>2, SerialSteps, StepIInv
<1>. QED
  BY <1>1, <1>2 DEF SerialNext, AllEnded

\* The invariant, for every set of instances on either platform.
LEMMA Invariance == SerialSpec => []IInv
BY InitIInv, NextIInv, PTL DEF SerialSpec

\* The variables keep their types.
THEOREM TypeCorrect == SerialSpec => []TypeOK
<1>1. IInv => TypeOK
  BY DEF IInv
<1>. QED
  BY <1>1, Invariance, PTL

\* The PID file names the instance that runs, and nobody else touches it.
THEOREM HolderIsNamed == SerialSpec => []HolderNamed
<1>1. IInv => HolderNamed
  BY DEF IInv
<1>. QED
  BY <1>1, Invariance, PTL

\* Two instances started one after the other never run at once, on either
\* platform and whatever dies when.
THEOREM MutualExclusion == SerialSpec => []Mutex
<1>1. IInv => Mutex
  BY DEF IInv, HolderNamed, Mutex
<1>. QED
  BY <1>1, Invariance, PTL

\* A main that returns has removed its PID file.
THEOREM ReturnsClean == SerialSpec => []ReturnCleansUp
<1>1. IInv => ReturnCleansUp
  BY DEF IInv
<1>. QED
  BY <1>1, Invariance, PTL

----------------------------------------------------------------------------
(* Refusals *)

\* An id in the file, or read from it, is that of an instance that got the lock.
FileWriter == \A q \in Procs : file = q => pc[q] \in Holding \cup Ended
SeenWriter ==
  \A p \in Procs :
    pc[p] = "find" => seen[p] \in Procs /\ pc[seen[p]] \in Holding \cup Ended
Writers == TypeOK /\ Windows = TRUE /\ PidReuse = FALSE /\ FileWriter /\ SeenWriter

\* An instance that got the lock never looks as if it had not.
LEMMA StaysWriter ==
  ASSUME Writers, NEW p \in Procs, Step(p), NEW q \in Procs,
         pc[q] \in Holding \cup Ended
  PROVE  pc'[q] \in Holding \cup Ended
BY DEF Writers, TypeOK, Step, Proceed, Acquire, Run, Start, Read, Find, Open, OpenFails, Write,
   WriteFails, EnterLoop, OneShotDone, Fatal, Interrupt, Close, Remove, Crash, ReusePid,
   End, At, Goto, Alive, Acquiring, Holding, Ended

\* Every step keeps the file and the ids read from it those of such instances.
LEMMA StepWriters ==
  ASSUME Writers, NEW p \in Procs, Step(p)
  PROVE  Writers'
<1>. USE PidLockAssumption DEF Writers, At, Goto
<1>1. TypeOK'
  <2>1. CASE Start(p)
    BY <2>1 DEF Start, TypeOK, Acquiring, Holding, Ended
  <2>2. CASE Read(p)
    BY <2>2 DEF Read, TypeOK, Acquiring, Holding, Ended
  <2>3. CASE Find(p)
    BY <2>3 DEF Find, TypeOK, Acquiring, Holding, Ended
  <2>4. CASE Open(p)
    BY <2>4 DEF Open, TypeOK, Acquiring, Holding, Ended
  <2>5. CASE OpenFails(p)
    BY <2>5 DEF OpenFails, TypeOK, Acquiring, Holding, Ended
  <2>6. CASE Write(p)
    BY <2>6 DEF Write, TypeOK, Acquiring, Holding, Ended
  <2>7. CASE WriteFails(p)
    BY <2>7 DEF WriteFails, End, TypeOK, Acquiring, Holding, Ended
  <2>8. CASE EnterLoop(p)
    BY <2>8 DEF EnterLoop, TypeOK, Acquiring, Holding, Ended
  <2>9. CASE OneShotDone(p)
    BY <2>9 DEF OneShotDone, TypeOK, Acquiring, Holding, Ended
  <2>10. CASE Fatal(p)
    BY <2>10 DEF Fatal, End, TypeOK, Acquiring, Holding, Ended
  <2>11. CASE Interrupt(p)
    BY <2>11 DEF Interrupt, End, TypeOK, Acquiring, Holding, Ended
  <2>12. CASE Close(p)
    BY <2>12 DEF Close, TypeOK, Acquiring, Holding, Ended
  <2>13. CASE Remove(p)
    BY <2>13 DEF Remove, TypeOK, Acquiring, Holding, Ended
  <2>14. CASE Crash(p)
    BY <2>14 DEF Crash, End, TypeOK, Acquiring, Holding, Ended
  <2>15. CASE ReusePid(p)
    BY <2>15 DEF ReusePid, TypeOK, Acquiring, Holding, Ended
  <2>. QED
    BY <2>1, <2>2, <2>3, <2>4, <2>5, <2>6, <2>7, <2>8, <2>9, <2>10, <2>11, <2>12, <2>13, <2>14,
       <2>15
       DEF Step, Proceed, Acquire, Run
<1>2. FileWriter'
  <2>1. file' \in {file, "absent", "empty"} \/ Write(p)
    BY DEF Step, Proceed, Acquire, Run, Start, Read, Find, Open, OpenFails, WriteFails, EnterLoop,
       OneShotDone, Fatal, Interrupt, Close, Remove, Crash, ReusePid, End
  <2>2. CASE Write(p)
    BY <2>2, StaysWriter DEF Write, TypeOK, FileWriter, Holding
  <2>. QED
    BY <2>1, <2>2, StaysWriter DEF FileWriter
<1>3. SeenWriter'
  <2>. SUFFICES ASSUME NEW r \in Procs, pc'[r] = "find"
                PROVE  seen'[r] \in Procs /\ pc[seen'[r]] \in Holding \cup Ended
    BY StaysWriter DEF SeenWriter
  <2>1. CASE Read(p)
    BY <2>1 DEF Read, TypeOK, SeenWriter, FileWriter
  <2>2. CASE ~Read(p)
    <3>1. pc[r] = "find" /\ seen' = seen
      BY <2>2 DEF TypeOK, Step, Proceed, Acquire, Run, Start, Find, Open, OpenFails, Write,
         WriteFails, EnterLoop, OneShotDone, Fatal, Interrupt, Close, Remove, Crash,
         ReusePid, End
    <3>. QED
      BY <3>1 DEF SeenWriter
  <2>. QED
    BY <2>1, <2>2
<1>. QED
  BY <1>1, <1>2, <1>3

\* On Windows, as long as process ids are not reused, an instance is refused only
\* while another one runs, however their starts interleave.
THEOREM RefusalsAreJustified ==
  Windows = TRUE /\ PidReuse = FALSE /\ Spec => RefusalJustified
<1> DEFINE Justified ==
      \A p \in Procs : pc[p] # "refused" /\ pc'[p] = "refused" =>
        \/ \E q \in Procs \ {p} : pc[q] \in Holding
        \/ PidReuse /\ file = p
<1>1. Windows = TRUE /\ PidReuse = FALSE /\ Init => Writers
  BY PidLockAssumption DEF Init, Writers, TypeOK, FileWriter, SeenWriter
<1>2. Writers /\ [Next]_vars => Writers'
  BY StepWriters DEF Next, AllEnded, vars, Writers, TypeOK, FileWriter, SeenWriter
<1>3. Writers /\ [Next]_vars => [Justified]_vars
  <2>. SUFFICES ASSUME Writers, NEW p \in Procs, Step(p),
                       NEW r \in Procs, pc[r] # "refused", pc'[r] = "refused"
                PROVE  \E q \in Procs \ {r} : pc[q] \in Holding
    BY DEF Next, AllEnded
  <2>1. r = p /\ Find(p) /\ Alive(seen[p])
    BY DEF Writers, TypeOK, Step, Proceed, Acquire, Run, Start, Read, Find, Open, OpenFails, Write,
       WriteFails, EnterLoop, OneShotDone, Fatal, Interrupt, Close, Remove, Crash,
       ReusePid, End, At, Goto, FindProcess, Ended
  <2>2. seen[p] # p /\ seen[p] \in Procs /\ pc[seen[p]] \in Holding
    BY <2>1 DEF Writers, SeenWriter, Find, At, Alive, Acquiring, Holding, Ended
  <2>. QED
    BY <2>1, <2>2
<1>. QED
  BY <1>1, <1>2, <1>3, PTL DEF Spec, RefusalJustified

\* An id read from the file is that of an instance; one that read its own id reads it
\* there still, for nobody else touches the file meanwhile.
OwnIdStays ==
  \A p \in Procs : pc[p] = "find" => seen[p] \in Procs /\ (seen[p] = p => file = p)

\* One step of one instance keeps what another one has read.
LEMMA StepOwnId ==
  ASSUME IInv, OwnIdStays, NEW p \in Procs, Step(p), IInv'
  PROVE  OwnIdStays'
<1>. USE PidLockAssumption DEF IInv, TypeOK, At, Goto
<1>. SUFFICES ASSUME NEW r \in Procs, pc'[r] = "find"
              PROVE  seen'[r] \in Procs /\ (seen'[r] = r => file' = r)
  BY DEF OwnIdStays
<1>1. CASE Read(p) /\ r = p
  BY <1>1 DEF Read
<1>2. CASE ~(Read(p) /\ r = p)
  <2>1. pc[r] = "find" /\ r # p /\ seen'[r] = seen[r]
    BY <1>2 DEF Step, Proceed, Acquire, Run, Start, Read, Find, Open, OpenFails, Write, WriteFails,
       EnterLoop, OneShotDone, Fatal, Interrupt, Close, Remove, Crash, ReusePid, End, Ended
  <2>2. pc[p] \notin {"open", "write"}
    BY <2>1 DEF OneAcquiring, Acquiring
  <2>3. pc[p] = "remove" => seen[r] = p
    BY <2>1 DEF AcquirerKnows, Holding
  <2>4. pc[p] = "remove" \/ file' = file
    BY <2>2 DEF Step, Proceed, Acquire, Run, Start, Read, Find, Open, OpenFails, Write, WriteFails,
       EnterLoop, OneShotDone, Fatal, Interrupt, Close, Remove, Crash, ReusePid, End
  <2>. QED
    BY <2>1, <2>3, <2>4 DEF OwnIdStays
<1>. QED
  BY <1>1, <1>2

\* On Windows, with ids given anew but instances started one at a time, an instance is
\* refused only while another one runs or by a stale file with its own id.
THEOREM SerialRefusalsAreJustified == Windows = TRUE /\ SerialSpec => RefusalJustified
<1> DEFINE Justified ==
      \A p \in Procs : pc[p] # "refused" /\ pc'[p] = "refused" =>
        \/ \E q \in Procs \ {p} : pc[q] \in Holding
        \/ PidReuse /\ file = p
<1>1. CASE PidReuse = FALSE
  <2>1. SerialNext => Next
    BY DEF SerialNext, Next, SerialStart, Step
  <2>2. [SerialNext]_vars => [Next]_vars
    BY <2>1
  <2>3. SerialSpec => Spec
    BY <2>2, PTL DEF SerialSpec, Spec
  <2>. QED
    BY <1>1, <2>3, RefusalsAreJustified, PTL
<1>2. CASE PidReuse = TRUE
  <2> DEFINE Own == Windows = TRUE /\ OwnIdStays
  <2>1. Windows = TRUE /\ Init => Own
    BY DEF Init, OwnIdStays
  <2>2. IInv /\ Own /\ [SerialNext]_vars /\ IInv' => Own'
    <3>. SUFFICES ASSUME IInv, OwnIdStays, [SerialNext]_vars, IInv' PROVE OwnIdStays'
      OBVIOUS
    <3>1. CASE UNCHANGED vars
      BY <3>1 DEF vars, OwnIdStays
    <3>2. CASE \E p \in Procs : SerialStart(p) \/ Proceed(p)
      BY <3>2, SerialSteps, StepOwnId
    <3>. QED
      BY <3>1, <3>2 DEF SerialNext, AllEnded
  <2>3. IInv /\ Own /\ [SerialNext]_vars => [Justified]_vars
    <3>. SUFFICES ASSUME Windows = TRUE, IInv, OwnIdStays, NEW p \in Procs, Step(p),
                         NEW r \in Procs, pc[r] # "refused", pc'[r] = "refused"
                  PROVE  file = r \/ \E q \in Procs \ {r} : pc[q] \in Holding
      BY <1>2, SerialSteps DEF SerialNext, AllEnded
    <3>1. r = p /\ Find(p) /\ Alive(seen[p])
      BY DEF IInv, TypeOK, Step, Proceed, Acquire, Run, Start, Read, Find, Open, OpenFails, Write,
         WriteFails, EnterLoop, OneShotDone, Fatal, Interrupt, Close, Remove, Crash,
         ReusePid, End, At, Goto, FindProcess, Ended
    <3>2. pc[p] = "find" /\ seen[p] \in Procs /\ (seen[p] = p => file = p)
      BY <3>1 DEF OwnIdStays, Find, At
    <3>3. pc[seen[p]] \in Acquiring => seen[p] = p
      BY <3>2 DEF IInv, OneAcquiring, Acquiring
    <3>4. pc[p] \notin Holding
      BY <3>2 DEF Holding
    <3>. QED
      BY <3>1, <3>2, <3>3, <3>4 DEF Alive
  <2>. HIDE DEF Own
  <2>. QED
    BY <2>1, <2>2, <2>3, Invariance, PTL DEF SerialSpec, RefusalJustified
<1>. QED
  BY <1>1, <1>2, PidLockAssumption
=============================================================================
