------------------------------ MODULE PidLock ------------------------------
(***************************************************************************)
(* The PID file of main.go as a lock between guard instances: the check    *)
(* and the creation in acquirePidFile, the deferred clean-up in main, and  *)
(* the exits that skip it.  Every system call is a step of its own, so     *)
(* instances interleave between them and a process may die at any of them. *)
(***************************************************************************)
EXTENDS Naturals

CONSTANTS
  Procs,     \* process ids of the instances started
  Windows,   \* FindProcess opens the process; an open file cannot be removed
  PidReuse   \* the id of a dead instance may be given to a new one

ASSUME PidLockAssumption ==
  /\ Windows \in BOOLEAN /\ PidReuse \in BOOLEAN
  /\ "absent" \notin Procs /\ "empty" \notin Procs

VARIABLES
  pc,      \* what each instance does next, or how it ended
  file,    \* the PID file: "absent", "empty" or the id its text starts with
  seen,    \* the id an instance read from the file
  linked   \* the instance has the file open and its handle is the file at the path

vars == <<pc, file, seen, linked>>

Acquiring == {"read", "find", "open", "write"}
Holding == {"boot", "loop", "close", "remove"}
Ended == {"refused", "failed", "interrupted", "crashed", "returned"}

TypeOK ==
  /\ pc \in [Procs -> {"idle"} \cup Acquiring \cup Holding \cup Ended]
  /\ file \in {"absent", "empty"} \cup Procs
  /\ seen \in [Procs -> {"empty"} \cup Procs]
  /\ linked \in [Procs -> BOOLEAN]

Init ==
  /\ pc = [p \in Procs |-> "idle"]
  /\ file = "absent"
  /\ seen = [p \in Procs |-> "empty"]
  /\ linked = [p \in Procs |-> FALSE]

----------------------------------------------------------------------------
(* acquirePidFile *)

At(p, l) == pc[p] = l
Goto(p, l) == pc' = [pc EXCEPT ![p] = l]
Alive(p) == pc[p] \in Acquiring \cup Holding

Start(p) ==
  /\ At(p, "idle") /\ Goto(p, "read")
  /\ UNCHANGED <<file, seen, linked>>

\* os.ReadFile and Sscanf: a missing file, or one with no number, is no obstacle.
Read_NotParsed(p) ==
  /\ At(p, "read")
  /\ seen' = [seen EXCEPT ![p] = file] /\ Goto(p, "find")
  /\ UNCHANGED <<file, linked>>
Read(p) ==
  /\ At(p, "read")
  /\ IF file \in Procs
     THEN seen' = [seen EXCEPT ![p] = file] /\ Goto(p, "find")
     ELSE UNCHANGED seen /\ Goto(p, "open")
  /\ UNCHANGED <<file, linked>>

\* os.FindProcess never fails on Unix.
FindProcess(q) == Windows => Alive(q)

Find_NotChecked(p) ==
  /\ At(p, "find") /\ Goto(p, "open")
  /\ UNCHANGED <<file, seen, linked>>
Find_CleansUp(p) ==
  /\ At(p, "find")
  /\ Goto(p, IF FindProcess(seen[p]) THEN "remove" ELSE "open")
  /\ UNCHANGED <<file, seen, linked>>
Find_ErrorIgnored(p) ==
  /\ At(p, "find") /\ Goto(p, "refused")
  /\ UNCHANGED <<file, seen, linked>>
Find(p) ==
  /\ At(p, "find")
  /\ Goto(p, IF FindProcess(seen[p]) THEN "refused" ELSE "open")
  /\ UNCHANGED <<file, seen, linked>>

\* O_CREATE|O_TRUNC.
Open(p) ==
  /\ At(p, "open") /\ Goto(p, "write")
  /\ file' = "empty"
  /\ linked' = [linked EXCEPT ![p] = TRUE]
  /\ UNCHANGED seen
OpenFails(p) ==
  /\ At(p, "open") /\ Goto(p, "failed")
  /\ UNCHANGED <<file, seen, linked>>

\* The last writer's line overwrites what another handle wrote there.
Write(p) ==
  /\ At(p, "write") /\ Goto(p, "boot")
  /\ file' = IF linked[p] THEN p ELSE file
  /\ UNCHANGED <<seen, linked>>

\* The handle goes with the process; the file stays.
End(p, how) ==
  /\ Goto(p, how)
  /\ linked' = [linked EXCEPT ![p] = FALSE]
  /\ UNCHANGED <<file, seen>>

WriteFails(p) == At(p, "write") /\ End(p, "failed")

----------------------------------------------------------------------------
(* main, with the PID file in hand *)

\* A daemon reaches its loop, with the signal handler installed.
EnterLoop(p) == At(p, "boot") /\ Goto(p, "loop") /\ UNCHANGED <<file, seen, linked>>

\* -once or -reauth returns nil: the deferred clean-up runs.
OneShotDone(p) == At(p, "boot") /\ Goto(p, "close") /\ UNCHANGED <<file, seen, linked>>

\* logger.Fatal exits without running deferred calls.
Fatal(p) == At(p, "boot") /\ End(p, "failed")

\* SIGINT or SIGTERM: the loop returns; before signal.Notify it kills.
Interrupt(p) ==
  \/ At(p, "loop") /\ Goto(p, "close") /\ UNCHANGED <<file, seen, linked>>
  \/ pc[p] \in Acquiring \cup {"boot"} /\ End(p, "interrupted")

Close(p) ==
  /\ At(p, "close") /\ Goto(p, "remove")
  /\ linked' = [linked EXCEPT ![p] = FALSE]
  /\ UNCHANGED <<file, seen>>

\* os.Remove(cfg.PidFile), whosever file it is by now; its error is ignored.
CanRemove == ~Windows \/ \A q \in Procs : ~linked[q]
Remove_KeepsFile(p) ==
  /\ At(p, "remove") /\ Goto(p, "returned")
  /\ UNCHANGED <<file, seen, linked>>
Remove(p) ==
  /\ At(p, "remove") /\ Goto(p, "returned")
  /\ IF CanRemove
     THEN file' = "absent" /\ linked' = [q \in Procs |-> FALSE]
     ELSE UNCHANGED <<file, linked>>
  /\ UNCHANGED seen

Crash(p) == Alive(p) /\ End(p, "crashed")

ReusePid(p) ==
  /\ PidReuse /\ pc[p] \in Ended /\ Goto(p, "idle")
  /\ UNCHANGED <<file, seen, linked>>

----------------------------------------------------------------------------
(* The specifications *)

Acquire(p) ==
  Read(p) \/ Find(p) \/ Open(p) \/ OpenFails(p) \/ Write(p) \/ WriteFails(p)
Run(p) ==
  EnterLoop(p) \/ OneShotDone(p) \/ Fatal(p) \/ Interrupt(p) \/ Close(p) \/ Remove(p)
Proceed(p) == Acquire(p) \/ Run(p) \/ Crash(p) \/ ReusePid(p)
Step(p) == Start(p) \/ Proceed(p)
AllEnded == (\A p \in Procs : pc[p] \in Ended) /\ UNCHANGED vars

Next == (\E p \in Procs : Step(p)) \/ AllEnded

Spec == Init /\ [][Next]_vars

\* Instances that start one at a time: none begins while another is between its
\* ReadFile and its Fprintf.
SerialStart(p) == Start(p) /\ \A q \in Procs : pc[q] \notin Acquiring
SerialNext == (\E p \in Procs : SerialStart(p) \/ Proceed(p)) \/ AllEnded
SerialSpec == Init /\ [][SerialNext]_vars

----------------------------------------------------------------------------
(* Properties *)

\* Two instances never run at once (acquirePidFile).
Mutex == \A p, q \in Procs : pc[p] \in Holding /\ pc[q] \in Holding => p = q

\* The file names the running instance, until its own os.Remove: nobody else
\* truncates it, writes it or removes it.
HolderNamed == \A p \in Procs : pc[p] \in Holding => file = p

\* An instance whose main returned leaves no PID file of its own behind.
ReturnCleansUp == \A p \in Procs : pc[p] = "returned" => file # p

\* On Windows an instance is refused only while another one holds the lock, or, where
\* ids are given anew, because a stale file names the very id it was given itself
\* (acquirePidFile): never by what a dead instance left behind, and never by one that
\* is itself still acquiring.
RefusalJustified ==
  [][\A p \in Procs :
       pc[p] # "refused" /\ pc'[p] = "refused" =>
         \/ \E q \in Procs \ {p} : pc[q] \in Holding
         \/ PidReuse /\ file = p]_vars
=============================================================================
