---------------------------- MODULE LaunchProofs ----------------------------
(***************************************************************************)
(* Theorems about Launch, for any number of processes and launches, every  *)
(* set of settings and command lines and all faults.                       *)
(***************************************************************************)
EXTENDS Launch, SettingsProofs

Starting == {"idle", "born"} \cup Ended

----------------------------------------------------------------------------
(* Types *)

Typed ==
  /\ pc \in [Procs -> Points]
  /\ eff \in [Procs -> AllSettings] /\ legacy \in [Procs -> AllSettings]
  /\ DOMAIN launch = Procs
  /\ \A p \in Procs : IsCommandLine(launch[p].flags)
  /\ IsCommandLine(task.args.flags)
  /\ config.data \in AllSettings /\ saved \in AllSettings
  /\ config.state \in {"absent", "empty", "torn", "intact"}

\* The zero settings are settings, and no flags are a command line.
LEMMA Blanks == Nothing \in AllSettings /\ IsCommandLine(NoFlags)
BY DEF Nothing, AllSettings, Values, NoFlags, IsCommandLine

\* The command line of a child is one.
LEMMA ChildFlags ==
  ASSUME NEW cfg \in AllSettings, NEW background \in BOOLEAN
  PROVE  IsCommandLine(GuardArgs(cfg, background).flags)
<1>1. CASE "credential_file" \in Fields /\ cfg["credential_file"] # "zero"
  BY <1>1 DEF GuardArgs, IsCommandLine, AllSettings
<1>2. CASE ~("credential_file" \in Fields /\ cfg["credential_file"] # "zero")
  <2>1. GuardArgs(cfg, background).flags = NoFlags
    BY <1>2 DEF GuardArgs
  <2>. QED
    BY <2>1, Blanks
<1>. QED
  BY <1>1, <1>2

\* The end of a process keeps the types.
LEMMA EndTyped ==
  ASSUME Typed, NEW p \in Procs, NEW how \in Ended, End(p, how)
  PROVE  /\ pc' \in [Procs -> Points]
         /\ eff' \in [Procs -> AllSettings] /\ legacy' \in [Procs -> AllSettings]
         /\ DOMAIN launch' = Procs
         /\ \A q \in Procs : IsCommandLine(launch'[q].flags)
BY Blanks DEF Typed, End, Goto, Blank, NoLaunch, Points

\* So does its start.
LEMMA BeginTyped ==
  ASSUME Typed, NEW p \in Procs, NEW l, IsCommandLine(l.flags), Begin(p, l)
  PROVE  Typed'
<1> DEFINE cfg == Effective(config.data, l.flags)
<1>1. cfg \in AllSettings
  BY SettingsTypes DEF Typed
<1>2. CASE Validate(cfg) /\ ~Excluded(l.modes, cfg)
  <2>1. pc' \in [Procs -> Points]
    BY <1>2 DEF Begin, Goto, Entry, Points, Alone, Saving, Locked, Typed
  <2>2. eff' = [eff EXCEPT ![p] = cfg] /\ launch' = [launch EXCEPT ![p] = l]
    BY <1>2 DEF Begin
  <2>3. UNCHANGED <<legacy, task, config, saved>>
    BY <1>2 DEF Begin
  <2>. HIDE DEF cfg
  <2>. QED
    BY <1>1, <2>1, <2>2, <2>3 DEF Typed
<1>3. CASE ~(Validate(cfg) /\ ~Excluded(l.modes, cfg))
  <2>1. End(p, "fatal") /\ UNCHANGED <<task, config, saved>>
    BY <1>3 DEF Begin
  <2>. QED
    BY <2>1, EndTyped DEF Typed, Ended
<1>. QED
  BY <1>2, <1>3

\* A step within a process that moves to another point.
LEMMA GotoTyped ==
  ASSUME Typed, NEW p \in Procs, NEW l \in Points, Goto(p, l), UNCHANGED procVars
  PROVE  /\ pc' \in [Procs -> Points]
         /\ eff' \in [Procs -> AllSettings] /\ legacy' \in [Procs -> AllSettings]
         /\ DOMAIN launch' = Procs
         /\ \A q \in Procs : IsCommandLine(launch'[q].flags)
BY DEF Typed, Goto, procVars

\* The initial state has the right types.
LEMMA TypedInit == Init => Typed
<1>. SUFFICES ASSUME Init PROVE Typed
  OBVIOUS
<1>1. ParseFlags(NoFlags) \in AllSettings
  BY Blanks, SettingsTypes
<1>. QED
  BY <1>1, Blanks DEF Init, Typed, Points, NoLaunch, NoTask, NoFile

\* What the settings part of the state does in the steps of a process: nothing, or
\* the writing of config.json.
Quiet ==
  /\ UNCHANGED <<config, saved>>
  /\ "config" \in cut' <=> "config" \in cut
  /\ \A q \in Procs : At(q, "write")' <=> At(q, "write")
Abandoned(p) ==
  /\ At(p, "write")
  /\ UNCHANGED <<config, saved>>
  /\ config.state # "intact" => "config" \in cut'
  /\ "config" \in cut => config.state = "intact" \/ "config" \in cut'
  /\ \A q \in Procs \ {p} : At(q, "write")' <=> At(q, "write")

\* No credential file has the name of the settings file.
LEMMA PathNames == Typed => \A p \in Procs : Path(p) # "config"
<1>. SUFFICES ASSUME Typed, NEW p \in Procs PROVE Path(p) # "config"
  OBVIOUS
<1>1. Path(p) \in Values
  BY DEF Path, Typed, AllSettings, Values
<1>. QED
  BY <1>1, LaunchAssumption DEF Values, ListValues

\* Starting a process is quiet, and gives it its flags over the settings it read.
LEMMA BeginQuiet ==
  ASSUME Typed, NEW p \in Procs, NEW l, Begin(p, l), pc[p] \in Starting
  PROVE  Quiet
BY DEF Begin, Goto, End, Entry, At, Quiet, Typed, Starting, Ended

\* Every step but those of SaveConfigFile leaves config.json alone.
LEMMA QuietSteps ==
  ASSUME Typed, NEW p \in Procs,
         \/ Forget(p) \/ Lock(p) \/ Resolve(p) \/ SaveCredentials(p) \/ Startup(p)
         \/ Run(p) \/ Logon(p) \/ Born(p) \/ Answer(p) \/ Reload(p) \/ Finish(p)
         \/ SaveConfigFails(p)
         \/ Kill(p) /\ ~At(p, "write")
  PROVE  Quiet
<1>. USE PathNames DEF Typed, Quiet, At, Goto, End, Ended, Points
<1>1. CASE Forget(p)
  BY <1>1 DEF Forget
<1>2. CASE Lock(p)
  BY <1>2 DEF Lock
<1>3. CASE Resolve(p)
  BY <1>3 DEF Resolve
<1>4. CASE SaveCredentials(p)
  <2>1. CASE SaveEnv(p) \/ NoAnswer(p) \/ Put(p) \/ PutFails(p)
    BY <2>1 DEF SaveEnv, NoAnswer, Put, PutFails, SaveFailed
  <2>2. CASE Fill(p)
    BY <2>2 DEF Fill, CutIf
  <2>3. CASE FillFails(p)
    BY <2>3 DEF FillFails, SaveFailed, CutIf
  <2>. QED
    BY <1>4, <2>1, <2>2, <2>3 DEF SaveCredentials
<1>5. CASE Startup(p)
  <2>1. CASE Enable(p)
    BY <2>1 DEF Enable
  <2>2. CASE Disable(p)
    BY <2>2 DEF Disable
  <2>3. CASE Spawn(p)
    BY <2>3 DEF Spawn
  <2>4. CASE SpawnFails(p)
    BY <2>4 DEF SpawnFails
  <2>. QED
    BY <1>5, <2>1, <2>2, <2>3, <2>4 DEF Startup
<1>6. CASE Run(p) \/ Logon(p) \/ Born(p)
  <2>1. pc[p] \in Starting /\ \E l : Begin(p, l)
    BY <1>6 DEF Run, Logon, Born, Free, Starting
  <2>. QED
    BY <2>1, BeginQuiet
<1>7. CASE Answer(p) \/ Reload(p)
  BY <1>7 DEF Answer, Reload
<1>8. CASE Finish(p)
  BY <1>8 DEF Finish
<1>9. CASE SaveConfigFails(p)
  BY <1>9 DEF SaveConfigFails, AfterConfig
<1>10. CASE Kill(p) /\ ~At(p, "write")
  BY <1>10 DEF Kill
<1>. QED
  BY <1>1, <1>2, <1>3, <1>4, <1>5, <1>6, <1>7, <1>8, <1>9, <1>10

\* A write of the settings that fails or is cut short leaves its trace.
LEMMA AbandonedSteps ==
  ASSUME Typed, NEW p \in Procs, WriteConfigFails(p) \/ (Kill(p) /\ At(p, "write"))
  PROVE  Abandoned(p)
<1>. USE DEF Typed, Abandoned, At, Goto, End
<1>1. CASE WriteConfigFails(p)
  BY <1>1 DEF WriteConfigFails, AfterConfig, CutIf
<1>2. CASE Kill(p) /\ At(p, "write")
  BY <1>2 DEF Kill
<1>. QED
  BY <1>1, <1>2

\* Every step keeps the types.
LEMMA TypedStep == Typed /\ [Next]_vars => Typed'
<1>. SUFFICES ASSUME Typed, [Next]_vars PROVE Typed'
  OBVIOUS
<1>1. ASSUME NEW p \in Procs, Step(p) PROVE Typed'
  <2>. USE <1>1
  <2>. USE DEF Ended, Points, Alone, Saving, Locked
  <2>1. CASE Run(p)
    BY <2>1, BeginTyped, LaunchAssumption DEF Run
  <2>2. CASE Logon(p)
    <3>1. IsCommandLine([modes |-> task.args.modes, flags |-> task.args.flags, env |-> NoCreds].flags)
      BY DEF Typed
    <3>. QED
      BY <2>2, <3>1, BeginTyped DEF Logon
  <2>3. CASE Born(p)
    BY <2>3, BeginTyped DEF Born, Typed
  <2>4. CASE Forget(p)
    BY <2>4, EndTyped DEF Forget, Typed
  <2>5. CASE Lock(p)
    BY <2>5, EndTyped, GotoTyped DEF Lock, Typed
  <2>6. CASE Resolve(p)
    BY <2>6 DEF Resolve, Goto, Typed
  <2>7. CASE SaveEnv(p)
    BY <2>7 DEF SaveEnv, Goto, Typed
  <2>8. CASE NoAnswer(p)
    BY <2>8, EndTyped, GotoTyped DEF NoAnswer, Typed
  <2>9. CASE Put(p)
    BY <2>9, GotoTyped DEF Put, Typed
  <2>10. CASE PutFails(p)
    BY <2>10, EndTyped, GotoTyped DEF PutFails, SaveFailed, Typed
  <2>11. CASE Fill(p)
    BY <2>11, GotoTyped DEF Fill, Typed
  <2>12. CASE FillFails(p)
    BY <2>12, EndTyped, GotoTyped DEF FillFails, SaveFailed, Typed
  <2>13. CASE SaveConfig(p)
    BY <2>13, GotoTyped, Blanks DEF SaveConfig, Truncated, Typed
  <2>14. CASE SaveConfigFails(p)
    BY <2>14, EndTyped, GotoTyped DEF SaveConfigFails, AfterConfig, Typed
  <2>15. CASE WriteConfig(p)
    <3>1. Payload(eff[p]) \in AllSettings /\ eff[p] \in AllSettings
      BY SettingsTypes, Blanks DEF Typed
    <3>2. config'.data \in AllSettings /\ config'.state \in {"absent", "empty", "torn", "intact"}
      BY <2>15, <3>1, Blanks DEF WriteConfig, Filled, Intact
    <3>3. saved' \in AllSettings
      BY <2>15, <3>1 DEF WriteConfig, Typed
    <3>4. AfterConfig(p) /\ UNCHANGED task
      BY <2>15 DEF WriteConfig
    <3>. QED
      BY <3>2, <3>3, <3>4, EndTyped, GotoTyped DEF AfterConfig, Typed
  <2>16. CASE WriteConfigFails(p)
    BY <2>16, EndTyped, GotoTyped DEF WriteConfigFails, AfterConfig, Typed
  <2>17. CASE Enable(p)
    <3>0. IsCommandLine(GuardArgs(eff[p], TRUE).flags)
      BY ChildFlags DEF Typed
    <3>1. IsCommandLine(task'.args.flags)
      <4>1. \/ task' = [on |-> TRUE, args |-> GuardArgs(eff[p], TRUE)]
            \/ task' = task
        BY <2>17 DEF Enable
      <4>2. CASE task' = [on |-> TRUE, args |-> GuardArgs(eff[p], TRUE)]
        <5>1. task'.args = GuardArgs(eff[p], TRUE)
          BY <4>2
        <5>. QED
          BY <3>0, <5>1, Zenon
      <4>. QED
        BY <4>1, <4>2 DEF Typed
    <3>. QED
      BY <2>17, <3>1, EndTyped, GotoTyped DEF Enable, Typed
  <2>18. CASE Disable(p)
    <3>1. IsCommandLine(task'.args.flags)
      BY <2>18, Blanks DEF Disable, NoTask, Typed
    <3>. QED
      BY <2>18, <3>1, EndTyped DEF Disable, Typed
  <2>19. CASE Spawn(p)
    <3>1. IsCommandLine(GuardArgs(eff[p], FALSE).flags)
      BY ChildFlags DEF Typed
    <3>2. PICK c \in Procs :
            /\ pc' = [pc EXCEPT ![p] = "clean", ![c] = "born"]
            /\ launch' = [launch EXCEPT ![p] = NoLaunch,
                            ![c] = [modes |-> GuardArgs(eff[p], FALSE).modes,
                                    flags |-> GuardArgs(eff[p], FALSE).flags,
                                    env |-> launch[p].env]]
            /\ legacy' = [legacy EXCEPT ![c] = eff[p], ![p] = Nothing]
      BY <2>19 DEF Spawn
    <3>3. pc' \in [Procs -> Points]
      BY <3>2 DEF Typed
    <3>4. legacy' \in [Procs -> AllSettings] /\ eff' \in [Procs -> AllSettings]
      BY <2>19, <3>2, Blanks DEF Spawn, Blank, Typed
    <3>5. DOMAIN launch' = Procs /\ \A q \in Procs : IsCommandLine(launch'[q].flags)
      BY <3>1, <3>2, Blanks DEF NoLaunch, Typed
    <3>. QED
      BY <2>19, <3>3, <3>4, <3>5 DEF Spawn, Typed
  <2>20. CASE SpawnFails(p)
    BY <2>20, EndTyped DEF SpawnFails, Typed
  <2>21. CASE Answer(p)
    BY <2>21 DEF Answer, Goto, Typed
  <2>22. CASE Reload(p)
    BY <2>22 DEF Reload, procVars, Typed
  <2>23. CASE Finish(p)
    BY <2>23, EndTyped DEF Finish, Typed
  <2>24. CASE Kill(p)
    BY <2>24, EndTyped DEF Kill, Typed
  <2>. QED
    BY <2>1, <2>2, <2>3, <2>4, <2>5, <2>6, <2>7, <2>8, <2>9, <2>10, <2>11, <2>12, <2>13, <2>14,
       <2>15, <2>16, <2>17, <2>18, <2>19, <2>20, <2>21, <2>22, <2>23, <2>24
       DEF Step, Proceed, SaveCredentials, SaveSettings, Startup
<1>2. CASE UNCHANGED vars
  BY <1>2 DEF vars, procVars, Typed
<1>. QED
  BY <1>1, <1>2 DEF Next, Stopped

----------------------------------------------------------------------------
(* config.json *)

\* config.json holds what was last saved, unless somebody is writing it or the
\* last writing was cut short; before the first one there are the defaults.
ConfigTracks ==
  /\ config.state = "intact" => config.data = Payload(saved)
  /\ config.state = "absent" => config.data = Nothing /\ saved = ParseFlags(NoFlags)
  /\ config.state \in {"empty", "torn"} =>
       (\E q \in Procs : At(q, "write")) \/ "config" \in cut

\* A process that is not under way has no settings.
Blanked == \A p \in Procs : pc[p] \in Starting => eff[p] = Nothing

\* Without config.json a launch has its flags over the defaults.
LEMMA DefaultSettings ==
  ASSUME NEW flags, IsCommandLine(flags), NEW f \in Fields
  PROVE  Effective(Nothing, flags)[f] = Merged(ParseFlags(NoFlags), flags, f)
BY SettingsAssumption
   DEF Nothing, NoFlags, IsCommandLine, Values, ListValues, Effective, MergeConfig, LoadConfigFile,
       Parsed, ParseFlags, Resolved, Default, Merged, Carried, NeverSaved, NeverLoaded, ZeroDefault

\* The effective settings of a process that starts.
LEMMA StartSettings ==
  ASSUME Typed, ConfigTracks, NEW p \in Procs, NEW l, IsCommandLine(l.flags), Begin(p, l),
         eff'[p] # Nothing,
         \A q \in Procs : ~At(q, "write"), "config" \notin cut
  PROVE  Arrives(saved, launch'[p].flags, eff'[p])
<1>1. Validate(Effective(config.data, l.flags)) /\ ~Excluded(l.modes, Effective(config.data, l.flags))
  BY DEF Begin, End, Blank, Typed
<1>2. eff'[p] = Effective(config.data, l.flags) /\ launch'[p] = l
  BY <1>1 DEF Begin, Typed
<1>3. ASSUME NEW f \in Fields
      PROVE  Effective(config.data, l.flags)[f] = Merged(saved, l.flags, f)
  <2>1. CASE config.state = "intact"
    BY <2>1, LaunchSettings DEF ConfigTracks, Typed
  <2>2. CASE config.state = "absent"
    BY <2>2, DefaultSettings DEF ConfigTracks
  <2>. QED
    BY <2>1, <2>2 DEF ConfigTracks, Typed
<1>. QED
  BY <1>2, <1>3 DEF Arrives, Merged

\* Every step of a process keeps config.json in line with what was saved.
LEMMA ConfigStep ==
  ASSUME Typed, ConfigTracks, NEW p \in Procs, Step(p)
  PROVE  ConfigTracks'
<1>1. CASE Quiet
  BY <1>1 DEF Quiet, ConfigTracks
<1>2. CASE Abandoned(p)
  BY <1>2 DEF Abandoned, ConfigTracks, Typed
<1>3. CASE SaveConfig(p)
  <2>1. config'.state = "empty" /\ At(p, "write")'
    BY <1>3 DEF SaveConfig, Truncated, Goto, At, Typed
  <2>. QED
    BY <2>1 DEF ConfigTracks
<1>4. CASE WriteConfig(p)
  <2>1. PICK file \in Filled(config, Payload(eff[p]), Nothing) :
          /\ config' = file
          /\ saved' = IF file.state = "intact" THEN eff[p] ELSE saved
          /\ CutIf(file.state = "torn", "config")
    BY <1>4 DEF WriteConfig
  <2>2. \/ file.state = "intact" /\ file.data = Payload(eff[p])
        \/ file.state = "torn"
    BY DEF Filled, Intact
  <2>. QED
    BY <2>1, <2>2 DEF ConfigTracks, CutIf
<1>. QED
  BY <1>1, <1>2, <1>3, <1>4, QuietSteps, AbandonedSteps DEF Step, Proceed, SaveSettings

\* What a step does to the settings of a process: it starts with some, ends, moves
\* on with what it has, or spawns a child.
Starts(p) ==
  /\ pc[p] \in Starting
  /\ \E l : /\ IsCommandLine(l.flags) /\ Begin(p, l)
            /\ pc[p] = "born" => l = launch[p]
Ends(p) == \E how \in Ended : End(p, how)
Moves(p) ==
  /\ UNCHANGED <<eff, legacy, launch>>
  /\ UNCHANGED pc \/ \E l \in Points \ Starting : Goto(p, l)

LEMMA Shapes ==
  ASSUME Typed, NEW p \in Procs, Step(p)
  PROVE  Starts(p) \/ Ends(p) \/ Moves(p) \/ Spawn(p)
<1>1. CASE Run(p)
  BY <1>1, LaunchAssumption DEF Run, Free, Starts, Starting, Ended
<1>2. CASE Logon(p)
  <2>1. IsCommandLine([modes |-> task.args.modes, flags |-> task.args.flags, env |-> NoCreds].flags)
    BY DEF Typed
  <2>. QED
    BY <1>2, <2>1 DEF Logon, Free, Starts, Starting, Ended
<1>3. CASE Born(p)
  BY <1>3 DEF Born, At, Starts, Starting, Typed
<1>. USE DEF Ends, Moves, procVars, Starting, Ended, Points, Alone, Saving, Locked
<1>4. CASE Forget(p) \/ Lock(p) \/ Resolve(p)
  BY <1>4 DEF Forget, Lock, Resolve
<1>5. CASE SaveCredentials(p)
  BY <1>5 DEF SaveCredentials, SaveEnv, NoAnswer, Put, PutFails, Fill, FillFails, SaveFailed
<1>6. CASE SaveSettings(p)
  BY <1>6 DEF SaveSettings, SaveConfig, SaveConfigFails, WriteConfig, WriteConfigFails, AfterConfig
<1>7. CASE Enable(p) \/ Disable(p) \/ SpawnFails(p)
  BY <1>7 DEF Enable, Disable, SpawnFails
<1>8. CASE Answer(p) \/ Reload(p) \/ Finish(p) \/ Kill(p)
  BY <1>8 DEF Answer, Reload, Finish, Kill
<1>. QED
  BY <1>1, <1>2, <1>3, <1>4, <1>5, <1>6, <1>7, <1>8 DEF Step, Proceed, Startup

\* A step that gives settings to a process that had none is its start.
LEMMA BlankedStep ==
  ASSUME Typed, Blanked, NEW p \in Procs, Step(p)
  PROVE  /\ Blanked'
         /\ \A q \in Procs : pc[q] \in Starting /\ eff'[q] # Nothing => q = p /\ Starts(p)
<1>. USE DEF Blanked, Typed
<1>1. CASE Starts(p)
  BY <1>1 DEF Starts, Begin, Entry, End, Goto, Blank, Starting, Ended
<1>2. CASE Ends(p)
  BY <1>2 DEF Ends, End, Goto, Blank
<1>3. CASE Moves(p)
  BY <1>3 DEF Moves, Goto
<1>4. CASE Spawn(p)
  BY <1>4 DEF Spawn, At, Blank, Starting, Ended
<1>. QED
  BY <1>1, <1>2, <1>3, <1>4, Shapes

\* Together: what holds of the settings in every reachable state.
SettingsInv == Typed /\ ConfigTracks /\ Blanked

LEMMA SettingsInvariance == Spec => []SettingsInv
<1>1. Init => SettingsInv
  <2>. SUFFICES ASSUME Init PROVE SettingsInv
    OBVIOUS
  <2>. QED
    BY TypedInit DEF Init, SettingsInv, ConfigTracks, Blanked, NoFile
<1>2. SettingsInv /\ [Next]_vars => SettingsInv'
  <2>. SUFFICES ASSUME SettingsInv, [Next]_vars PROVE SettingsInv'
    OBVIOUS
  <2>1. Typed'
    BY TypedStep DEF SettingsInv
  <2>2. CASE \E p \in Procs : Step(p)
    BY <2>1, <2>2, ConfigStep, BlankedStep DEF SettingsInv
  <2>3. CASE UNCHANGED vars
    BY <2>1, <2>3 DEF SettingsInv, ConfigTracks, Blanked, At, vars, procVars
  <2>. QED
    BY <2>2, <2>3 DEF Next, Stopped
<1>. QED
  BY <1>1, <1>2, PTL DEF Spec

\* In every launch the flags that are not the default win and what the file carries
\* of the settings last saved arrives (ParseFlags over SaveConfigFile), whatever
\* processes saved, overlapped, failed or died before.
THEOREM LaunchesSeeSettings == Spec => LaunchSeesLastSave
<1> DEFINE Sees(p) ==
      /\ pc[p] \in {"idle", "born"} \cup Ended /\ eff'[p] # Nothing
      /\ \A q \in Procs : ~At(q, "write")
      /\ "config" \notin cut
      => Arrives(saved, launch'[p].flags, eff'[p])
<1>1. SettingsInv /\ [Next]_vars => [\A p \in Procs : Sees(p)]_vars
  <2>. SUFFICES ASSUME SettingsInv, [Next]_vars, NEW p \in Procs,
                       pc[p] \in Starting, eff'[p] # Nothing,
                       \A q \in Procs : ~At(q, "write"), "config" \notin cut
                PROVE  Arrives(saved, launch'[p].flags, eff'[p])
    BY DEF Starting
  <2>1. CASE UNCHANGED vars
    BY <2>1 DEF vars, procVars, SettingsInv, Blanked
  <2>2. CASE \E r \in Procs : Step(r)
    <3>1. PICK r \in Procs : Step(r)
      BY <2>2
    <3>2. PICK l : IsCommandLine(l.flags) /\ Begin(p, l)
      BY <3>1, BlankedStep DEF SettingsInv, Starts
    <3>. QED
      BY <3>2, StartSettings DEF SettingsInv
  <2>. QED
    BY <2>1, <2>2 DEF Next, Stopped
<1>. QED
  BY <1>1, SettingsInvariance, PTL DEF Spec, LaunchSeesLastSave

----------------------------------------------------------------------------
(* The credential file of a child *)

\* A child has the path of its parent on its command line until it has settings,
\* and in them from then on; only children have a parent.
Inherits ==
  \A p \in Procs :
    /\ pc[p] \in {"idle"} \cup Ended => legacy[p] = Nothing
    /\ "credential_file" \in Fields /\ legacy[p]["credential_file"] # "zero" =>
         /\ pc[p] = "born" =>
              /\ "credential_file" \in DOMAIN launch[p].flags
              /\ launch[p].flags["credential_file"] = legacy[p]["credential_file"]
         /\ eff[p] # Nothing => eff[p]["credential_file"] = legacy[p]["credential_file"]

\* A credential file given as a flag is the one used, whatever config.json says.
LEMMA FlagWins ==
  ASSUME "credential_file" \in Fields, NEW text \in AllSettings, NEW flags, IsCommandLine(flags),
         "credential_file" \in DOMAIN flags, flags["credential_file"] # "zero"
  PROVE  Effective(text, flags)["credential_file"] = flags["credential_file"]
BY DEF Effective, MergeConfig, LoadConfigFile, ParseFlags, Resolved, Default, ZeroDefault

\* Every step of a process passes the path on.
LEMMA InheritsStep ==
  ASSUME Typed, Blanked, Inherits, NEW p \in Procs, Step(p)
  PROVE  Inherits'
<1>1. CASE Starts(p)
  <2>1. PICK l : /\ IsCommandLine(l.flags) /\ Begin(p, l)
                 /\ pc[p] = "born" => l = launch[p]
    BY <1>1 DEF Starts
  <2>2. CASE Validate(Effective(config.data, l.flags)) /\ ~Excluded(l.modes, Effective(config.data, l.flags))
    <3>1. /\ eff' = [eff EXCEPT ![p] = Effective(config.data, l.flags)] /\ legacy' = legacy
          /\ launch' = [launch EXCEPT ![p] = l]
          /\ pc' = [pc EXCEPT ![p] = Entry(l.modes)]
      BY <2>1, <2>2 DEF Begin, Goto
    <3>2. Entry(l.modes) \notin Starting
      BY DEF Entry, Starting, Ended
    <3>3. ASSUME "credential_file" \in Fields, legacy[p]["credential_file"] # "zero"
          PROVE  Effective(config.data, l.flags)["credential_file"] = legacy[p]["credential_file"]
      <4>1. pc[p] = "born"
        BY <1>1, <3>3 DEF Starts, Starting, Inherits, Nothing
      <4>. QED
        BY <2>1, <3>3, <4>1, FlagWins DEF Inherits, Typed
    <3>. QED
      BY <3>1, <3>2, <3>3 DEF Inherits, Typed, Starting
  <2>3. CASE ~(Validate(Effective(config.data, l.flags)) /\ ~Excluded(l.modes, Effective(config.data, l.flags)))
    <3>1. End(p, "fatal")
      BY <2>1, <2>3 DEF Begin
    <3>. QED
      BY <3>1 DEF Inherits, Typed, End, Goto, Blank, Nothing, Ended
  <2>. QED
    BY <2>2, <2>3
<1>2. CASE Ends(p)
  BY <1>2 DEF Ends, End, Goto, Blank, Inherits, Typed, Nothing, Ended
<1>3. CASE Moves(p)
  BY <1>3 DEF Moves, Goto, Inherits, Typed, Starting
<1>4. CASE Spawn(p)
  <2>1. PICK c \in Procs :
          /\ pc[c] \in {"idle"} \cup Ended
          /\ pc' = [pc EXCEPT ![p] = "clean", ![c] = "born"]
          /\ launch' = [launch EXCEPT ![p] = NoLaunch,
                          ![c] = [modes |-> GuardArgs(eff[p], FALSE).modes,
                                  flags |-> GuardArgs(eff[p], FALSE).flags,
                                  env |-> launch[p].env]]
          /\ legacy' = [legacy EXCEPT ![c] = eff[p], ![p] = Nothing]
          /\ eff' = Blank(p, eff)
    BY <1>4 DEF Spawn
  <2>2. c # p /\ eff'[c] = Nothing /\ eff'[p] = Nothing
    BY <1>4, <2>1 DEF Spawn, At, Blank, Blanked, Starting, Ended, Typed
  <2>3. ASSUME "credential_file" \in Fields, eff[p]["credential_file"] # "zero"
        PROVE  /\ "credential_file" \in DOMAIN GuardArgs(eff[p], FALSE).flags
               /\ GuardArgs(eff[p], FALSE).flags["credential_file"] = eff[p]["credential_file"]
    BY <2>3 DEF GuardArgs
  <2>4. launch'[c].flags = GuardArgs(eff[p], FALSE).flags /\ legacy'[c] = eff[p]
    BY <2>1, <2>2 DEF Typed
  <2>5. legacy'[p] = Nothing /\ pc'[p] = "clean" /\ pc'[c] = "born"
    BY <2>1, <2>2 DEF Typed
  <2>6. ASSUME NEW q \in Procs, q # p, q # c
        PROVE  /\ pc'[q] = pc[q] /\ launch'[q] = launch[q]
               /\ legacy'[q] = legacy[q] /\ eff'[q] = eff[q]
    BY <2>1, <2>6 DEF Typed, Blank
  <2>7. "credential_file" \in Fields => Nothing["credential_file"] = "zero"
    BY DEF Nothing
  <2>. QED
    BY <2>2, <2>3, <2>4, <2>5, <2>6, <2>7 DEF Inherits, Ended
<1>. QED
  BY <1>1, <1>2, <1>3, <1>4, Shapes

\* A child looks for credentials where its parent did (GuardArgs), whatever
\* happened to config.json between the two.
THEOREM ChildrenKeepVault == Spec => []ChildKeepsVault
<1>1. Init => Inherits
  BY DEF Init, Inherits, Nothing, Ended
<1>2. SettingsInv /\ Inherits /\ [Next]_vars => Inherits'
  <2>1. ASSUME SettingsInv, Inherits, NEW p \in Procs, Step(p) PROVE Inherits'
    BY <2>1, InheritsStep DEF SettingsInv
  <2>2. ASSUME Inherits, UNCHANGED vars PROVE Inherits'
    BY <2>2 DEF vars, procVars, Inherits
  <2>. QED
    BY <2>1, <2>2 DEF Next, Stopped
<1>3. Inherits => ChildKeepsVault
  BY DEF Inherits, ChildKeepsVault, Path
<1>. QED
  BY <1>1, <1>2, <1>3, SettingsInvariance, PTL DEF Spec

----------------------------------------------------------------------------
(* Credentials *)

\* A process at work on a credential file, and credentials that belong together.
Filling(p, path) == At(p, "fill") /\ Path(p) = path
Paired(c) == c \in Creds /\ c.user = c.pass
FullPair(c) == Paired(c) /\ c # NoCreds
Files == [state : {"absent", "empty", "torn", "intact"}, data : Creds]

\* What a process holds, or has in its environment, is one pair; it saves full ones.
HeldBy(p) ==
  /\ Paired(got[p]) /\ (pc[p] \in {"put", "fill"} => FullPair(got[p]))
  /\ launch[p].env \in Creds /\ (Full(launch[p].env) => Paired(launch[p].env))
Stored ==
  /\ stored \in [Paths -> Creds] /\ vault \in [Paths -> Files]
  /\ \A path \in Paths : Paired(vault[path].data)
Held == DOMAIN got = Procs /\ (\A p \in Procs : HeldBy(p)) /\ Stored

\* A credential file is the last save, or somebody is writing it, or was cut short.
VaultTracks ==
  \A path \in Paths :
    /\ vault[path].state = "intact" => stored[path] = vault[path].data /\ stored[path] # NoCreds
    /\ vault[path].state = "absent" => stored[path] = NoCreds /\ vault[path].data = NoCreds
    /\ vault[path].state \in {"empty", "torn"} =>
         (\E q \in Procs : Filling(q, path)) \/ path \in cut

\* A step that is not about the credential files.
KeepsVault ==
  /\ UNCHANGED <<vault, stored>>
  /\ \A path \in Paths : path \in cut' <=> path \in cut
  /\ \A q \in Procs, path \in Paths : Filling(q, path)' <=> Filling(q, path)
SavesVault(p) == Put(p) \/ Fill(p) \/ FillFails(p) \/ Forget(p) \/ (Kill(p) /\ At(p, "fill"))

\* No credentials are a pair, and those a user gives are a full one.
LEMMA Pairs ==
  /\ Paired(NoCreds)
  /\ \A u \in Users : FullPair([user |-> u, pass |-> u])
  /\ \A c \in Creds : Full(c) => c # NoCreds
BY LaunchAssumption DEF Paired, FullPair, NoCreds, Creds, Full

\* The path a process uses is one.
LEMMA Located == Typed => \A p \in Procs : Path(p) \in Paths
BY DEF Typed, AllSettings, Path, Paths, Values

\* LoadCredentials returns a pair: both variables, both from the file, or nothing.
LEMMA LoadsPair ==
  ASSUME Typed, Held, NEW p \in Procs
  PROVE  Paired(Loaded(p)) /\ (Full(launch[p].env) /\ Loaded(p) # NoCreds => FullPair(Loaded(p)))
BY Located, Pairs DEF Held, HeldBy, Stored, Loaded, FullPair

\* Beginning and ending leave the credential files to the others.
LEMMA KeepsSteps ==
  ASSUME Typed, NEW p \in Procs, Step(p), ~SavesVault(p)
  PROVE  KeepsVault
<1>. USE DEF Typed, KeepsVault, Filling, At, Path, Goto, SavesVault
<1>1. "config" \notin Paths
  BY LaunchAssumption DEF Paths, Values, ListValues
<1>2. CASE Run(p) \/ Logon(p) \/ Born(p)
  <2>1. pc[p] \in Starting /\ \E l : Begin(p, l)
    BY <1>2 DEF Run, Logon, Born, Free, Starting
  <2>. QED
    BY <2>1 DEF Begin, Entry, End, Blank, Starting, Ended
<1>3. CASE Lock(p) \/ Resolve(p)
  BY <1>3 DEF Lock, Resolve, End, Blank, procVars
<1>4. CASE SaveCredentials(p)
  BY <1>4 DEF SaveCredentials, SaveEnv, NoAnswer, PutFails, SaveFailed, End, Blank, procVars
<1>5. CASE SaveSettings(p)
  <2>1. CASE SaveConfig(p) \/ SaveConfigFails(p)
    BY <2>1 DEF SaveConfig, SaveConfigFails, AfterConfig, End, Blank, procVars
  <2>2. CASE WriteConfig(p) \/ WriteConfigFails(p)
    BY <1>1, <2>2 DEF WriteConfig, WriteConfigFails, AfterConfig, CutIf, End, Blank, procVars
  <2>. QED
    BY <1>5, <2>1, <2>2 DEF SaveSettings
<1>6. CASE Enable(p) \/ Disable(p) \/ SpawnFails(p)
  BY <1>6 DEF Enable, Disable, SpawnFails, End, Blank, procVars
<1>7. CASE Spawn(p)
  BY <1>7 DEF Spawn, Blank, Ended
<1>8. CASE Answer(p) \/ Reload(p) \/ Finish(p)
  BY <1>8 DEF Answer, Reload, Finish, End, Blank, procVars
<1>9. CASE Kill(p) /\ ~At(p, "fill")
  BY <1>1, <1>9 DEF Kill, End, Blank
<1>. QED
  BY <1>2, <1>3, <1>4, <1>5, <1>6, <1>7, <1>8, <1>9 DEF Step, Proceed, Startup

\* The end of a process drops what it held; moving on keeps it.
LEMMA EndHeld ==
  ASSUME Typed, Held, NEW p \in Procs, Stored',
         \/ \E how \in Ended : End(p, how)
         \/ /\ UNCHANGED <<got, procVars>>
            /\ \E l \in Points : Goto(p, l) /\ (l \in {"put", "fill"} => FullPair(got[p]))
  PROVE  Held'
<1>1. ASSUME NEW how \in Ended, End(p, how) PROVE Held'
  <2>1. /\ got' = [got EXCEPT ![p] = NoCreds] /\ launch' = [launch EXCEPT ![p] = NoLaunch]
        /\ pc' = [pc EXCEPT ![p] = how]
    BY <1>1 DEF End, Goto
  <2>2. HeldBy(p)'
    BY <2>1, Pairs DEF Held, HeldBy, Stored, Typed, NoLaunch, NoCreds, Paired, Full, Ended
  <2>3. ASSUME NEW q \in Procs, q # p PROVE HeldBy(q)'
    BY <2>1, <2>3 DEF Held, HeldBy, Stored, Typed, Full
  <2>. QED
    BY <2>1, <2>2, <2>3 DEF Held, HeldBy, Stored
<1>2. ASSUME UNCHANGED <<got, procVars>>, NEW l \in Points, Goto(p, l),
             l \in {"put", "fill"} => FullPair(got[p])
      PROVE  Held'
  BY <1>2 DEF Goto, Held, HeldBy, Stored, Typed, Full, procVars
<1>. QED
  BY <1>1, <1>2

\* So does a start.
LEMMA BeginHeld ==
  ASSUME Typed, Held, NEW p \in Procs, NEW l, Begin(p, l),
         l.env \in Creds, Full(l.env) => Paired(l.env), pc[p] \in Starting
  PROVE  Held'
<1>0. Stored'
  BY DEF Begin, Held, Stored
<1>1. CASE End(p, "fatal")
  BY <1>0, <1>1, EndHeld DEF Ended
<1>2. CASE ~End(p, "fatal")
  BY <1>2 DEF Begin, Goto, Entry, Held, HeldBy, Stored, Typed, Full
<1>. QED
  BY <1>1, <1>2

\* Every step of a process keeps the pairs together.
LEMMA HeldStep ==
  ASSUME Typed, Held, NEW p \in Procs, Step(p)
  PROVE  Held'
<1>. USE DEF Ended, Points, Alone, Saving, Locked
<1>0. UNCHANGED <<stored, vault>> => Stored'
  BY DEF Held, HeldBy, Stored, Stored
<1>1. CASE Run(p)
  <2>1. PICK l \in Launches : Begin(p, l) /\ pc[p] \in Starting
    BY <1>1 DEF Run, Free, Starting
  <2>2. l.env \in Creds /\ (Full(l.env) => Paired(l.env))
    BY <2>1, LaunchAssumption DEF Creds, Full, Paired
  <2>. QED
    BY <2>1, <2>2, BeginHeld
<1>2. CASE Logon(p)
  <2>1. NoCreds \in Creds /\ Paired(NoCreds)
    BY Pairs DEF Paired
  <2>. QED
    BY <1>2, <2>1, BeginHeld DEF Logon, Free, Starting
<1>3. CASE Born(p)
  BY <1>3, BeginHeld DEF Born, At, Held, HeldBy, Stored, Starting
<1>4. CASE Forget(p)
  <2>1. CASE UNCHANGED <<vault, stored>>
    BY <1>0, <1>4, <2>1, EndHeld DEF Forget
  <2>2. CASE /\ vault' = [vault EXCEPT ![Path(p)] = NoFile(NoCreds)]
             /\ stored' = [stored EXCEPT ![Path(p)] = NoCreds]
    <3>1. End(p, "clean") \/ End(p, "fatal")
      BY <1>4 DEF Forget
    <3>2. vault' \in [Paths -> Files] /\ stored' \in [Paths -> Creds]
          /\ \A path \in Paths : Paired(vault'[path].data)
      BY <2>2, Located, Pairs DEF Held, HeldBy, Stored, Files, NoFile, Paired
    <3>. QED
      BY <3>1, <3>2, EndHeld DEF Stored
  <2>. QED
    BY <1>4, <2>1, <2>2 DEF Forget
<1>5. CASE Lock(p)
  BY <1>0, <1>5, EndHeld DEF Lock
<1>6. CASE Resolve(p)
  <2>1. got' = [got EXCEPT ![p] = Loaded(p)] /\ Paired(Loaded(p))
    BY <1>6, LoadsPair DEF Resolve
  <2>2. pc' = [pc EXCEPT ![p] = pc'[p]] /\ (pc'[p] \in {"put", "fill"} => FullPair(Loaded(p)))
    BY <1>6, LoadsPair DEF Resolve, Goto, Typed
  <2>. QED
    BY <1>6, <2>1, <2>2 DEF Resolve, Held, HeldBy, Stored, Typed, Full
<1>7. CASE SaveEnv(p)
  <2>1. launch[p].env \in Creds /\ (Full(launch[p].env) => FullPair(launch[p].env))
    BY Pairs DEF Held, HeldBy, Stored, FullPair
  <2>. QED
    BY <1>7, <2>1 DEF SaveEnv, Goto, Held, HeldBy, Stored, Typed, Full, FullPair
<1>8. CASE NoAnswer(p)
  BY <1>0, <1>8, EndHeld DEF NoAnswer
<1>9. CASE Put(p)
  <2>1. vault' \in [Paths -> Files] /\ \A path \in Paths : Paired(vault'[path].data)
    BY <1>9, Located, Pairs DEF Put, Held, HeldBy, Stored, Files, Truncated, Paired
  <2>. QED
    BY <1>9, <2>1 DEF Put, At, Goto, Held, HeldBy, Stored, Typed, procVars, Full
<1>10. CASE PutFails(p)
  BY <1>0, <1>10, EndHeld DEF PutFails, SaveFailed
<1>11. CASE Fill(p)
  <2>1. PICK file \in Filled(vault[Path(p)], got[p], NoCreds) :
          /\ vault' = [vault EXCEPT ![Path(p)] = file]
          /\ stored' = [stored EXCEPT ![Path(p)] = file.data]
    BY <1>11 DEF Fill
  <2>2. Paired(got[p])
    BY DEF Held, HeldBy, Stored
  <2>3. file \in Files /\ Paired(file.data)
    BY <2>2, Pairs DEF Filled, Intact, Files, Paired
  <2>4. /\ vault' \in [Paths -> Files] /\ stored' \in [Paths -> Creds]
        /\ \A path \in Paths : Paired(vault'[path].data)
    BY <2>1, <2>3, Located DEF Held, HeldBy, Stored, Paired
  <2>. QED
    BY <1>11, <2>4 DEF Fill, Goto, Held, HeldBy, Stored, Typed, procVars, Full
<1>12. CASE FillFails(p)
  BY <1>0, <1>12, EndHeld DEF FillFails, SaveFailed
<1>13. CASE SaveConfig(p)
  BY <1>0, <1>13, EndHeld DEF SaveConfig
<1>14. CASE SaveConfigFails(p) \/ WriteConfig(p) \/ WriteConfigFails(p)
  BY <1>0, <1>14, EndHeld DEF SaveConfigFails, WriteConfig, WriteConfigFails, AfterConfig
<1>15. CASE Enable(p) \/ Disable(p) \/ SpawnFails(p)
  <2>1. CASE Enable(p)
    <3>1. /\ (Goto(p, "config") /\ UNCHANGED <<procVars, got, holder>>) \/ End(p, "fatal")
          /\ UNCHANGED <<stored, vault>>
      BY <2>1 DEF Enable
    <3>. QED
      BY <1>0, <3>1, EndHeld
  <2>2. CASE Disable(p) \/ SpawnFails(p)
    BY <1>0, <2>2, EndHeld DEF Disable, SpawnFails
  <2>. QED
    BY <1>15, <2>1, <2>2
<1>16. CASE Spawn(p)
  <2>1. PICK c \in Procs :
          /\ pc' = [pc EXCEPT ![p] = "clean", ![c] = "born"]
          /\ launch' = [launch EXCEPT ![p] = NoLaunch,
                          ![c] = [modes |-> GuardArgs(eff[p], FALSE).modes,
                                  flags |-> GuardArgs(eff[p], FALSE).flags,
                                  env |-> launch[p].env]]
    BY <1>16 DEF Spawn
  <2>2. \A q \in Procs : launch'[q].env \in {launch[q].env, launch[p].env, NoCreds}
    BY <2>1 DEF NoLaunch, Typed
  <2>3. \A q \in Procs : pc'[q] \in {"put", "fill"} => pc[q] \in {"put", "fill"}
    BY <2>1 DEF Typed
  <2>4. UNCHANGED <<got, vault, stored>>
    BY <1>16 DEF Spawn
  <2>5. ASSUME NEW q \in Procs
        PROVE  launch'[q].env \in Creds /\ (Full(launch'[q].env) => Paired(launch'[q].env))
    BY <2>2, Pairs DEF Held, HeldBy, Stored, Paired
  <2>. QED
    BY <2>3, <2>4, <2>5 DEF Held, HeldBy, Stored, Full
<1>17. CASE Answer(p)
  BY <1>17, Pairs DEF Answer, Goto, Held, HeldBy, Stored, Typed, FullPair, Full
<1>18. CASE Reload(p)
  BY <1>18, LoadsPair DEF Reload, At, Held, HeldBy, Stored, Typed, procVars, Full
<1>19. CASE Finish(p) \/ Kill(p)
  BY <1>0, <1>19, EndHeld DEF Finish, Kill
<1>. QED
  BY <1>1, <1>2, <1>3, <1>4, <1>5, <1>6, <1>7, <1>8, <1>9, <1>10, <1>11, <1>12, <1>13, <1>14,
     <1>15, <1>16, <1>17, <1>18, <1>19
     DEF Step, Proceed, SaveCredentials, SaveSettings, Startup

\* Every step of a process keeps the credential files in line with what was saved.
LEMMA VaultStep ==
  ASSUME Typed, Held, VaultTracks, NEW p \in Procs, Step(p)
  PROVE  VaultTracks'
<1>1. CASE KeepsVault
  BY <1>1 DEF KeepsVault, VaultTracks
<1>2. CASE Put(p)
  <2>1. Filling(p, Path(p))' /\ \A q \in Procs, path \in Paths : Filling(q, path) => Filling(q, path)'
    BY <1>2 DEF Put, Filling, At, Path, Goto, Typed, procVars
  <2>2. /\ UNCHANGED <<stored, cut>>
        /\ \A path \in Paths : vault'[path] = IF path = Path(p) THEN Truncated(vault[path], NoCreds) ELSE vault[path]
    BY <1>2 DEF Put, Held, HeldBy, Stored
  <2>3. Path(p)' = Path(p)
    BY <1>2 DEF Put, Path, procVars
  <2>. QED
    BY <2>1, <2>2, <2>3 DEF VaultTracks, Truncated
<1>3. CASE Fill(p)
  <2>1. PICK file \in Filled(vault[Path(p)], got[p], NoCreds) :
          /\ vault' = [vault EXCEPT ![Path(p)] = file]
          /\ stored' = [stored EXCEPT ![Path(p)] = file.data]
          /\ CutIf(file.state = "torn", Path(p))
    BY <1>3 DEF Fill
  <2>2. /\ got[p] # NoCreds
        /\ \/ file.state = "intact" /\ file.data = got[p]
           \/ file.state = "torn"
    BY <1>3 DEF Fill, At, Held, HeldBy, Stored, FullPair, Filled, Intact
  <2>3. \A q \in Procs, path \in Paths : Filling(q, path) /\ path # Path(p) => Filling(q, path)'
    BY <1>3 DEF Fill, Filling, At, Path, Goto, Typed, procVars
  <2>4. ASSUME NEW path \in Paths, path # Path(p)
        PROVE  vault'[path] = vault[path] /\ stored'[path] = stored[path] /\ (path \in cut => path \in cut')
    BY <2>1, <2>4 DEF Held, HeldBy, Stored, CutIf
  <2>5. vault'[Path(p)] = file /\ stored'[Path(p)] = file.data /\ (file.state = "torn" => Path(p) \in cut')
    BY <2>1, Located DEF Held, HeldBy, Stored, CutIf
  <2>. QED
    BY <2>2, <2>3, <2>4, <2>5 DEF VaultTracks
<1>4. CASE FillFails(p) \/ (Kill(p) /\ At(p, "fill"))
  <2>1. UNCHANGED <<vault, stored>>
    BY <1>4 DEF FillFails, Kill
  <2>2. \A q \in Procs, path \in Paths : Filling(q, path) /\ path # Path(p) => Filling(q, path)'
    BY <1>4 DEF FillFails, SaveFailed, Kill, End, Blank, Filling, At, Path, Goto, Typed, procVars
  <2>3. \A path \in Paths : path \in cut /\ path # Path(p) => path \in cut'
    BY <1>4 DEF FillFails, Kill, CutIf
  <2>4. vault[Path(p)].state # "intact" => Path(p) \in cut'
    BY <1>4 DEF FillFails, Kill, CutIf
  <2>. QED
    BY <2>1, <2>2, <2>3, <2>4 DEF VaultTracks
<1>5. CASE Forget(p)
  <2>1. \A q \in Procs, path \in Paths : Filling(q, path) => Filling(q, path)'
    BY <1>5 DEF Forget, End, Blank, Filling, At, Path, Goto, Typed
  <2>2. CASE UNCHANGED <<vault, stored, cut>>
    BY <2>1, <2>2 DEF VaultTracks
  <2>3. CASE /\ vault' = [vault EXCEPT ![Path(p)] = NoFile(NoCreds)]
             /\ stored' = [stored EXCEPT ![Path(p)] = NoCreds]
             /\ cut' = cut \ {Path(p)}
    <3>1. \A path \in Paths :
            /\ vault'[path] = IF path = Path(p) THEN NoFile(NoCreds) ELSE vault[path]
            /\ stored'[path] = IF path = Path(p) THEN NoCreds ELSE stored[path]
      BY <2>3 DEF Held, HeldBy, Stored
    <3>. QED
      BY <2>1, <2>3, <3>1 DEF VaultTracks, NoFile
  <2>. QED
    BY <1>5, <2>2, <2>3 DEF Forget
<1>. QED
  BY <1>1, <1>2, <1>3, <1>4, <1>5, KeepsSteps DEF SavesVault

\* What holds of the credentials in every reachable state.
CredsInv == Typed /\ Held /\ VaultTracks

LEMMA CredsInvariance == Spec => []CredsInv
<1>1. Init => CredsInv
  <2>. SUFFICES ASSUME Init PROVE CredsInv
    OBVIOUS
  <2>1. NoCreds \in Creds
    BY DEF NoCreds, Creds
  <2>2. Held
    BY <2>1, Pairs DEF Init, Held, HeldBy, Stored, Files, NoFile, NoLaunch, FullPair
  <2>3. VaultTracks
    BY DEF Init, VaultTracks, NoFile
  <2>. QED
    BY <2>2, <2>3, TypedInit DEF CredsInv
<1>2. CredsInv /\ [Next]_vars => CredsInv'
  <2>. SUFFICES ASSUME CredsInv, [Next]_vars PROVE CredsInv'
    OBVIOUS
  <2>1. Typed'
    BY TypedStep DEF CredsInv
  <2>2. CASE \E p \in Procs : Step(p)
    BY <2>1, <2>2, HeldStep, VaultStep DEF CredsInv
  <2>3. CASE UNCHANGED vars
    BY <2>1, <2>3 DEF CredsInv, Held, HeldBy, Stored, VaultTracks, Filling, At, Path, Full, vars, procVars
  <2>. QED
    BY <2>2, <2>3 DEF Next, Stopped
<1>. QED
  BY <1>1, <1>2, PTL DEF Spec

\* A user name never meets another one's password (LoadCredentials, the prompt and
\* CredentialStore), in any process, whatever files were torn or removed.
THEOREM CredsStayTogether == Spec => []CredsBelongTogether
<1>1. CredsInv => CredsBelongTogether
  BY DEF CredsInv, Held, HeldBy, Stored, Paired, CredsBelongTogether
<1>. QED
  BY <1>1, CredsInvariance, PTL

\* A credential file is the last complete save or removal, and whole, unless it is
\* being written or such a write was cut short (CredentialStore.Save and Delete).
THEOREM VaultsAreSaved == Spec => []VaultIsLastSave
<1>1. CredsInv => VaultIsLastSave
  <2>. SUFFICES ASSUME CredsInv, NEW path \in Paths,
                       \A p \in Procs : ~(At(p, "fill") /\ Path(p) = path), path \notin cut
                PROVE  vault[path] = IF stored[path] = NoCreds THEN NoFile(NoCreds)
                                     ELSE Intact(stored[path])
    BY DEF VaultIsLastSave
  <2>1. vault[path] \in Files
    BY DEF CredsInv, Held, HeldBy, Stored
  <2>2. vault[path].state \in {"absent", "intact"}
    BY <2>1 DEF CredsInv, VaultTracks, Filling, Files
  <2>. QED
    BY <2>1, <2>2 DEF CredsInv, VaultTracks, Files, NoFile, Intact
<1>. QED
  BY <1>1, CredsInvariance, PTL

----------------------------------------------------------------------------
(* The rest of the types *)

Purposes == {None, "without", "env", "prompt", "auto"}
Formed ==
  /\ got = [p \in Procs |-> got[p]]
  /\ DOMAIN purpose = Procs /\ \A p \in Procs : purpose[p] \in Purposes
  /\ \A p \in Procs : launch[p].modes \subseteq Modes
  /\ task.args.modes \subseteq Modes
  /\ holder \in Procs \cup {None}
  /\ begun \in 0..MaxLaunches
  /\ cut \subseteq {"config"} \cup Paths

\* The part of it about the processes and the PID file.
FormedProcs ==
  /\ got' = [q \in Procs |-> got'[q]]
  /\ DOMAIN purpose' = Procs /\ \A q \in Procs : purpose'[q] \in Purposes
  /\ \A q \in Procs : launch'[q].modes \subseteq Modes
  /\ holder' \in Procs \cup {None}

\* The modes a child is given are modes.
LEMMA ChildModes ==
  ASSUME NEW cfg, NEW background \in BOOLEAN
  PROVE  GuardArgs(cfg, background).modes \subseteq Modes
BY DEF GuardArgs, Modes

\* The end of a process keeps this part, and so does moving on.
LEMMA EndFormed ==
  ASSUME Typed, Formed, NEW p \in Procs,
         \/ \E how \in Ended : End(p, how)
         \/ UNCHANGED <<procVars, got, holder>>
  PROVE  FormedProcs
BY DEF Typed, Formed, FormedProcs, End, NoLaunch, Purposes, procVars

\* So does the start of one.
LEMMA BeginFormed ==
  ASSUME Typed, Formed, NEW p \in Procs, NEW l, l.modes \subseteq Modes, Begin(p, l)
  PROVE  FormedProcs /\ UNCHANGED <<task, cut>>
<1>1. CASE End(p, "fatal")
  BY <1>1, EndFormed DEF Begin, Ended
<1>2. CASE ~End(p, "fatal")
  BY <1>2 DEF Begin, Typed, Formed, FormedProcs
<1>. QED
  BY <1>1, <1>2

\* Every step of a process keeps them.
LEMMA FormedStep ==
  ASSUME Typed, Formed, NEW p \in Procs, Step(p)
  PROVE  Formed'
<1>. USE DEF Ended
<1>0. FormedProcs /\ UNCHANGED <<task, begun, cut>> => Formed'
  BY DEF Formed, FormedProcs
<1>1. Path(p) \in Paths
  BY Located
<1>2. CASE Run(p)
  <2>1. PICK l \in Launches : Begin(p, l)
    BY <1>2 DEF Run
  <2>2. FormedProcs /\ UNCHANGED <<task, cut>>
    BY <2>1, BeginFormed, LaunchAssumption
  <2>3. begun' \in 0..MaxLaunches
    BY <1>2, LaunchAssumption DEF Run, Free, Formed
  <2>. QED
    BY <2>2, <2>3 DEF Formed, FormedProcs
<1>3. CASE Logon(p)
  <2> DEFINE l == [modes |-> task.args.modes, flags |-> task.args.flags, env |-> NoCreds]
  <2>1. l.modes \subseteq Modes /\ Begin(p, l)
    BY <1>3 DEF Logon, Formed
  <2>. HIDE DEF l
  <2>2. FormedProcs /\ UNCHANGED <<task, cut>>
    BY <2>1, BeginFormed
  <2>3. begun' \in 0..MaxLaunches
    BY <1>3, LaunchAssumption DEF Logon, Free, Formed
  <2>. QED
    BY <2>2, <2>3 DEF Formed, FormedProcs
<1>4. CASE Born(p)
  BY <1>0, <1>4, BeginFormed DEF Born, Formed
<1>5. CASE Forget(p)
  <2>1. FormedProcs /\ UNCHANGED <<task, begun>> /\ cut' \subseteq cut
    BY <1>5, EndFormed DEF Forget
  <2>. QED
    BY <2>1 DEF Formed, FormedProcs
<1>6. CASE Lock(p)
  <2>1. CASE holder' = p /\ UNCHANGED <<procVars, got>>
    BY <1>6, <2>1 DEF Lock, Formed, procVars
  <2>2. CASE End(p, "fatal")
    BY <1>0, <1>6, <2>2, EndFormed DEF Lock
  <2>. QED
    BY <1>6, <2>1, <2>2 DEF Lock
<1>7. CASE Resolve(p) \/ SaveEnv(p) \/ Answer(p) \/ Reload(p)
  BY <1>7 DEF Resolve, SaveEnv, Answer, Reload, procVars, Formed, Purposes
<1>8. CASE NoAnswer(p) \/ PutFails(p) \/ Put(p)
  <2>1. FormedProcs
    BY <1>8, EndFormed DEF NoAnswer, PutFails, SaveFailed, Put
  <2>. QED
    BY <1>0, <1>8, <2>1 DEF NoAnswer, PutFails, Put
<1>9. CASE Fill(p)
  <2>1. FormedProcs /\ UNCHANGED <<task, begun>>
    BY <1>9, EndFormed DEF Fill
  <2>2. cut' \subseteq cut \cup {Path(p)}
    BY <1>9 DEF Fill, CutIf
  <2>. QED
    BY <1>1, <2>1, <2>2 DEF Formed, FormedProcs
<1>10. CASE FillFails(p)
  <2>1. FormedProcs /\ UNCHANGED <<task, begun>>
    BY <1>10, EndFormed DEF FillFails, SaveFailed
  <2>2. cut' \subseteq cut \cup {Path(p)}
    BY <1>10 DEF FillFails, CutIf
  <2>. QED
    BY <1>1, <2>1, <2>2 DEF Formed, FormedProcs
<1>11. CASE SaveConfig(p) \/ SaveConfigFails(p)
  <2>1. FormedProcs
    BY <1>11, EndFormed DEF SaveConfig, SaveConfigFails, AfterConfig
  <2>. QED
    BY <1>0, <1>11, <2>1 DEF SaveConfig, SaveConfigFails
<1>12. CASE WriteConfig(p) \/ WriteConfigFails(p)
  <2>1. FormedProcs /\ UNCHANGED <<task, begun>>
    BY <1>12, EndFormed DEF WriteConfig, WriteConfigFails, AfterConfig
  <2>2. cut' \subseteq cut \cup {"config"}
    BY <1>12 DEF WriteConfig, WriteConfigFails, CutIf
  <2>. QED
    BY <2>1, <2>2 DEF Formed, FormedProcs
<1>13. CASE Enable(p)
  <2>1. FormedProcs /\ UNCHANGED <<begun, cut>>
    BY <1>13, EndFormed DEF Enable
  <2>2. task'.args.modes \subseteq Modes
    <3>1. CASE task' = [on |-> TRUE, args |-> GuardArgs(eff[p], TRUE)]
      <4>1. task'.args = GuardArgs(eff[p], TRUE)
        BY <3>1
      <4>. QED
        BY <4>1, ChildModes
    <3>. QED
      BY <1>13, <3>1 DEF Enable, Formed
  <2>. QED
    BY <2>1, <2>2 DEF Formed, FormedProcs
<1>14. CASE Disable(p)
  <2>1. FormedProcs /\ UNCHANGED <<begun, cut>>
    BY <1>14, EndFormed DEF Disable
  <2>2. task'.args.modes \subseteq Modes
    BY <1>14 DEF Disable, NoTask, Formed
  <2>. QED
    BY <2>1, <2>2 DEF Formed, FormedProcs
<1>15. CASE Spawn(p)
  <2>1. PICK c \in Procs :
          launch' = [launch EXCEPT ![p] = NoLaunch,
                       ![c] = [modes |-> GuardArgs(eff[p], FALSE).modes,
                               flags |-> GuardArgs(eff[p], FALSE).flags,
                               env |-> launch[p].env]]
    BY <1>15 DEF Spawn
  <2>2. GuardArgs(eff[p], FALSE).modes \subseteq Modes
    BY ChildModes
  <2>3. \A q \in Procs : launch'[q].modes \subseteq Modes
    BY <2>1, <2>2 DEF NoLaunch, Typed, Formed
  <2>4. begun' \in 0..MaxLaunches
    BY <1>15, LaunchAssumption DEF Spawn, Formed
  <2>. QED
    BY <1>15, <2>3, <2>4 DEF Spawn, Formed
<1>16. CASE SpawnFails(p) \/ Finish(p)
  BY <1>0, <1>16, EndFormed DEF SpawnFails, Finish
<1>17. CASE Kill(p)
  <2>1. FormedProcs /\ UNCHANGED <<task, begun>>
    BY <1>17, EndFormed DEF Kill
  <2>2. cut' \subseteq cut \cup {"config", Path(p)}
    BY <1>17 DEF Kill
  <2>. QED
    BY <1>1, <2>1, <2>2 DEF Formed, FormedProcs
<1>. QED
  BY <1>2, <1>3, <1>4, <1>5, <1>6, <1>7, <1>8, <1>9, <1>10, <1>11, <1>12, <1>13, <1>14,
     <1>15, <1>16, <1>17
     DEF Step, Proceed, SaveCredentials, SaveSettings, Startup

\* The state of all processes and files keeps its types, however many of them run
\* and whatever fails (all modes of main.go together).
THEOREM LaunchTypes == Spec => []TypeOK
<1>1. Init => Formed
  BY LaunchAssumption DEF Init, Formed, Purposes, NoLaunch, NoTask
<1>2. CredsInv /\ Formed /\ [Next]_vars => Formed'
  <2>1. ASSUME CredsInv, Formed, NEW p \in Procs, Step(p) PROVE Formed'
    BY <2>1, FormedStep DEF CredsInv
  <2>2. ASSUME Formed, UNCHANGED vars PROVE Formed'
    BY <2>2 DEF vars, procVars, Formed
  <2>. QED
    BY <2>1, <2>2 DEF Next, Stopped
<1>3. CredsInv /\ Formed => TypeOK
  <2>. SUFFICES ASSUME CredsInv, Formed PROVE TypeOK
    OBVIOUS
  <2>1. got \in [Procs -> Creds]
    <3>1. \A p \in Procs : got[p] \in Creds
      BY DEF CredsInv, Held, HeldBy, Paired
    <3>. QED
      BY <3>1 DEF Formed
  <2>2. \A path \in Paths : vault[path].state \in {"absent", "empty", "torn", "intact"}
    BY DEF CredsInv, Held, Stored, Files
  <2>. QED
    BY <2>1, <2>2 DEF CredsInv, Typed, Formed, Purposes, IsCommandLine, TypeOK
<1>. QED
  BY <1>1, <1>2, <1>3, CredsInvariance, PTL DEF Spec
=============================================================================
