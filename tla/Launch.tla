------------------------------- MODULE Launch -------------------------------
(***************************************************************************)
(* The processes of the program on one Windows account: the modes of       *)
(* main.go in the order it tries them, and the two files and the startup   *)
(* task they share.  config.json and the credential file are overwritten   *)
(* in place (os.WriteFile truncates, then writes), so opening and writing  *)
(* are two steps and other processes read, write or die in between.        *)
(* Settings says what is read from and written to config.json.             *)
(*                                                                         *)
(* All launches use one configuration file and one PID file; taking the    *)
(* latter is one step here, PidLock has its details.                       *)
(***************************************************************************)
EXTENDS Settings, Naturals, FiniteSets

CONSTANTS
  Procs,        \* processes alive at the same time
  Launches,     \* the command lines users run: modes, flags, environment
  Users,        \* account names; a user name and its password are tagged with one
  Faults,       \* what may go wrong: "open", "write", "dpapi", "os", "kill"
  MaxLaunches   \* bound: processes started in a run

Modes == {"once", "reauth", "save", "forget", "enable", "disable", "background"}
None == "none"
ASSUME LaunchAssumption ==
  /\ None \notin Procs \cup Users /\ "config" \notin Custom
  /\ Faults \subseteq {"open", "write", "dpapi", "os", "kill"}
  /\ \A l \in Launches :
       /\ l.modes \subseteq Modes /\ IsCommandLine(l.flags)
       /\ l.env \in [user : Users \cup {None}, pass : Users \cup {None}]
       /\ l.env.user # None /\ l.env.pass # None => l.env.user = l.env.pass
  /\ MaxLaunches \in Nat

VARIABLES
  pc,        \* what each process does next, or how it ended
  launch,    \* its command line and environment
  eff,       \* its effective settings
  got,       \* the credentials it loaded, was given or is saving
  purpose,   \* why it saves credentials, or that it runs without any
  legacy,    \* history: the settings of the process that spawned it
  config,    \* config.json
  vault,     \* the credential files, by path
  task,      \* the startup task
  holder,    \* the process that holds the PID file
  begun,     \* processes started so far
  saved,     \* history: the settings last saved completely
  stored,    \* history: the credentials last saved completely, by path
  cut        \* history: the files whose writing was cut short, or overlapped

procVars == <<launch, eff, purpose, legacy>>
vars == <<pc, procVars, got, config, vault, task, holder, begun, saved, stored, cut>>

Alone == {"forget", "disable", "enable", "spawn"}
Saving == {"saveEnv", "prompt", "put", "fill", "config", "write"}
Locked == {"lock", "resolve", "run"}
Ended == {"clean", "fatal", "killed"}
Points == {"idle", "born"} \cup Alone \cup Saving \cup Locked \cup Ended

Paths == Values  \* credential files are known by the setting that names them
NoCreds == [user |-> None, pass |-> None]
Creds == [user : Users \cup {None}, pass : Users \cup {None}]
Intact(data) == [state |-> "intact", data |-> data]
NoFile(data) == [state |-> "absent", data |-> data]
NoTask == [on |-> FALSE, args |-> [modes |-> {}, flags |-> NoFlags]]
NoLaunch == [modes |-> {}, flags |-> NoFlags, env |-> NoCreds]

Blank(p, where) == [where EXCEPT ![p] = Nothing]
Init ==
  /\ pc = [p \in Procs |-> "idle"]
  /\ launch = [p \in Procs |-> NoLaunch]
  /\ eff = [p \in Procs |-> Nothing]
  /\ got = [p \in Procs |-> NoCreds]
  /\ purpose = [p \in Procs |-> None]
  /\ legacy = [p \in Procs |-> Nothing]
  /\ config = NoFile(Nothing)
  /\ vault = [path \in Paths |-> NoFile(NoCreds)]
  /\ task = NoTask
  /\ holder = None
  /\ begun = 0
  /\ saved = ParseFlags(NoFlags)
  /\ stored = [path \in Paths |-> NoCreds]
  /\ cut = {}

----------------------------------------------------------------------------
(* Helpers *)

At(p, l) == pc[p] = l
Goto(p, l) == pc' = [pc EXCEPT ![p] = l]
Path(p) == IF "credential_file" \in Fields THEN eff[p]["credential_file"] ELSE "zero"

\* The end of a process: its memory goes, and so does its claim to the PID file.
End(p, how) ==
  /\ Goto(p, how)
  /\ launch' = [launch EXCEPT ![p] = NoLaunch]
  /\ eff' = Blank(p, eff) /\ legacy' = Blank(p, legacy)
  /\ got' = [got EXCEPT ![p] = NoCreds]
  /\ purpose' = [purpose EXCEPT ![p] = None]
  /\ holder' = IF holder = p THEN None ELSE holder

\* os.WriteFile in two steps.  A text written into a file another process filled
\* in the meantime may leave the tail of the longer one behind.
Truncated(file, data) == [state |-> "empty", data |-> data]
Filled(file, data, nothing) ==
  IF file.state = "empty" THEN {Intact(data)}
  ELSE {Intact(data), [state |-> "torn", data |-> nothing]}
CutIf(bad, what) == cut' = IF bad THEN cut \cup {what} ELSE cut \ {what}

\* Validate's rules for modes, and the first step of each mode in main's order.
Setup == {"save", "forget", "enable", "disable", "reauth"}
Excluded(modes, cfg) ==
  \/ \E a, b \in modes \cap Setup : a # b
  \/ "background" \in modes /\ modes \cap (Setup \cup {"once"}) # {}
  \/ "once" \in modes /\ modes \cap {"enable", "reauth"} # {}
  \/ /\ modes \cap {"enable", "disable"} # {}
     /\ "startup_task_name" \in Fields /\ cfg["startup_task_name"] \in {"zero", "blank"}
Entry(modes) ==
  IF "forget" \in modes THEN "forget" ELSE IF "save" \in modes THEN "saveEnv"
  ELSE IF "disable" \in modes THEN "disable" ELSE IF "enable" \in modes THEN "enable"
  ELSE IF "background" \in modes THEN "config" ELSE "lock"
Daemon(p) == launch[p].modes \cap {"once", "reauth"} = {}

----------------------------------------------------------------------------
(* Start *)

\* ParseFlags reads config.json; an unreadable one counts as none.  A launch that
\* Validate refuses ends there.
Begin(p, l) ==
  LET cfg == Effective(config.data, l.flags) IN
  /\ IF Validate(cfg) /\ ~Excluded(l.modes, cfg)
     THEN /\ Goto(p, Entry(l.modes))
          /\ launch' = [launch EXCEPT ![p] = l] /\ eff' = [eff EXCEPT ![p] = cfg]
          /\ UNCHANGED <<got, purpose, legacy, holder>>
     ELSE End(p, "fatal")
  /\ UNCHANGED <<config, vault, task, saved, stored, cut>>

Free(p) == pc[p] \in {"idle"} \cup Ended /\ begun < MaxLaunches

\* Somebody runs the program.
Run(p) ==
  /\ Free(p) /\ begun' = begun + 1
  /\ \E l \in Launches : Begin(p, l)

\* The startup task runs it at logon.
Logon(p) ==
  /\ Free(p) /\ begun' = begun + 1 /\ task.on
  /\ Begin(p, [modes |-> task.args.modes, flags |-> task.args.flags, env |-> NoCreds])

\* A spawned process starts.
Born(p) == At(p, "born") /\ Begin(p, launch[p]) /\ UNCHANGED begun

----------------------------------------------------------------------------
(* Credentials *)

\* -forget-credentials.  Windows does not remove a file another process has open.
Forget(p) ==
  /\ At(p, "forget")
  /\ IF \E q \in Procs : At(q, "fill") /\ Path(q) = Path(p)
     THEN End(p, "fatal") /\ UNCHANGED <<vault, stored, cut>>
     ELSE /\ End(p, "clean")
          /\ vault' = [vault EXCEPT ![Path(p)] = NoFile(NoCreds)]
          /\ stored' = [stored EXCEPT ![Path(p)] = NoCreds]
          /\ cut' = cut \ {Path(p)}
  /\ UNCHANGED <<config, task, begun, saved>>

Full(env) == env.user # None /\ env.pass # None
Partial(env) == ~Full(env) /\ env # NoCreds

\* LoadCredentials: both variables, or the file; one variable is an error.
Loaded_Mixed(p) ==
  LET env == launch[p].env  file == vault[Path(p)].data IN
  [user |-> IF env.user # None THEN env.user ELSE file.user,
   pass |-> IF env.pass # None THEN env.pass ELSE file.pass]
Loaded(p) ==
  IF Full(launch[p].env) THEN launch[p].env
  ELSE IF Partial(launch[p].env) THEN NoCreds
  ELSE vault[Path(p)].data

\* -save-credentials, from the environment if both variables are set.
SaveEnv(p) ==
  /\ At(p, "saveEnv")
  /\ IF Full(launch[p].env)
     THEN /\ got' = [got EXCEPT ![p] = launch[p].env]
          /\ purpose' = [purpose EXCEPT ![p] = "env"] /\ Goto(p, "put")
     ELSE Goto(p, "prompt") /\ UNCHANGED <<got, purpose>>
  /\ UNCHANGED <<launch, eff, legacy, config, vault, task, holder, begun, saved, stored, cut>>

\* A daemon or a one-shot run resolves its credentials: those of the environment
\* are saved, a daemon without any prompts.
Resolve(p) ==
  /\ At(p, "resolve")
  /\ got' = [got EXCEPT ![p] = Loaded(p)]
  /\ IF Loaded(p) = NoCreds
     THEN /\ Goto(p, IF Daemon(p) THEN "prompt" ELSE "config")
          /\ purpose' = [purpose EXCEPT ![p] = "without"]
     ELSE IF Full(launch[p].env)
     THEN Goto(p, "put") /\ purpose' = [purpose EXCEPT ![p] = "auto"]
     ELSE Goto(p, "config") /\ UNCHANGED purpose
  /\ UNCHANGED <<launch, eff, legacy, config, vault, task, holder, begun, saved, stored, cut>>

\* The user answers the prompt, in the foreground only: a child has no stdin.
Answer(p) ==
  /\ At(p, "prompt") /\ legacy[p] = Nothing
  /\ \E u \in Users : got' = [got EXCEPT ![p] = [user |-> u, pass |-> u]]
  /\ purpose' = [purpose EXCEPT ![p] = "prompt"] /\ Goto(p, "put")
  /\ UNCHANGED <<launch, eff, legacy, config, vault, task, holder, begun, saved, stored, cut>>

\* No answer: -save-credentials fails, a daemon runs without credentials.
NoAnswer(p) ==
  /\ At(p, "prompt")
  /\ IF "save" \in launch[p].modes THEN End(p, "fatal")
     ELSE Goto(p, "config") /\ UNCHANGED <<procVars, got, holder>>
  /\ UNCHANGED <<config, vault, task, begun, saved, stored, cut>>

\* An error of CredentialStore.Save: -save-credentials falls back to the prompt,
\* prompted credentials must be saved, the automatic save is optional.
SaveFailed(p) ==
  IF purpose[p] = "prompt" THEN End(p, "fatal")
  ELSE /\ Goto(p, IF purpose[p] = "env" THEN "prompt" ELSE "config")
       /\ UNCHANGED <<procVars, got, holder>>

\* CredentialStore.Save, first the encryption and the truncation.
Put(p) ==
  /\ At(p, "put") /\ Goto(p, "fill")
  /\ vault' = [vault EXCEPT ![Path(p)] = Truncated(@, NoCreds)]
  /\ UNCHANGED <<procVars, got, config, task, holder, begun, saved, stored, cut>>
PutFails_Truncated(p) ==
  /\ At(p, "put") /\ Faults \cap {"open", "dpapi"} # {}
  /\ SaveFailed(p)
  /\ vault' = [vault EXCEPT ![Path(p)] = Truncated(@, NoCreds)]
  /\ UNCHANGED <<config, task, begun, saved, stored, cut>>
PutFails(p) ==
  /\ At(p, "put") /\ Faults \cap {"open", "dpapi"} # {}
  /\ SaveFailed(p)
  /\ UNCHANGED <<config, vault, task, begun, saved, stored, cut>>

\* Then the text.
Fill(p) ==
  /\ At(p, "fill") /\ Goto(p, "config")
  /\ \E file \in Filled(vault[Path(p)], got[p], NoCreds) :
       /\ vault' = [vault EXCEPT ![Path(p)] = file]
       /\ stored' = [stored EXCEPT ![Path(p)] = file.data]
       /\ CutIf(file.state = "torn", Path(p))
  /\ UNCHANGED <<procVars, got, config, task, holder, begun, saved>>
FillFails(p) ==
  /\ At(p, "fill") /\ "write" \in Faults
  /\ SaveFailed(p)
  /\ CutIf(vault[Path(p)].state # "intact", Path(p))
  /\ UNCHANGED <<config, vault, task, begun, saved, stored>>

----------------------------------------------------------------------------
(* Startup task, background process, settings *)

Disable(p) ==
  /\ At(p, "disable")
  /\ \/ End(p, "clean") /\ task' = NoTask
     \/ "os" \in Faults /\ End(p, "fatal") /\ UNCHANGED task
  /\ UNCHANGED <<config, vault, begun, saved, stored, cut>>

\* -enable-startup registers the task before it saves the settings.
Enable(p) ==
  /\ At(p, "enable")
  /\ \/ /\ task' = [on |-> TRUE, args |-> GuardArgs(eff[p], TRUE)]
        /\ Goto(p, "config") /\ UNCHANGED <<procVars, got, holder>>
     \/ "os" \in Faults /\ End(p, "fatal") /\ UNCHANGED task
  /\ UNCHANGED <<config, vault, begun, saved, stored, cut>>

\* After SaveConfigFile, whose errors are only logged.
AfterConfig(p) ==
  IF launch[p].modes \cap {"save", "enable"} # {} THEN End(p, "clean")
  ELSE /\ Goto(p, IF "background" \in launch[p].modes THEN "spawn" ELSE "run")
       /\ UNCHANGED <<procVars, got, holder>>

SaveConfig(p) ==
  /\ At(p, "config") /\ Goto(p, "write")
  /\ config' = Truncated(config, Nothing)
  /\ UNCHANGED <<procVars, got, vault, task, holder, begun, saved, stored, cut>>
SaveConfigFails(p) ==
  /\ At(p, "config") /\ "open" \in Faults
  /\ AfterConfig(p)
  /\ UNCHANGED <<config, vault, task, begun, saved, stored, cut>>
WriteConfig(p) ==
  /\ At(p, "write")
  /\ \E file \in Filled(config, Payload(eff[p]), Nothing) :
       /\ config' = file
       /\ saved' = IF file.state = "intact" THEN eff[p] ELSE saved
       /\ CutIf(file.state = "torn", "config")
  /\ AfterConfig(p)
  /\ UNCHANGED <<vault, task, begun, stored>>
WriteConfigFails(p) ==
  /\ At(p, "write") /\ "write" \in Faults
  /\ AfterConfig(p)
  /\ CutIf(config.state # "intact", "config")
  /\ UNCHANGED <<config, vault, task, begun, saved, stored>>

\* StartBackground: the child gets GuardArgs and the environment, no stdin.
Spawn(p) ==
  /\ At(p, "spawn") /\ begun < MaxLaunches /\ begun' = begun + 1
  /\ \E c \in Procs : LET args == GuardArgs(eff[p], FALSE) IN
       /\ pc[c] \in {"idle"} \cup Ended
       /\ pc' = [pc EXCEPT ![p] = "clean", ![c] = "born"]
       /\ launch' = [launch EXCEPT ![p] = NoLaunch,
                       ![c] = [modes |-> args.modes, flags |-> args.flags,
                               env |-> launch[p].env]]
       /\ legacy' = [legacy EXCEPT ![c] = eff[p], ![p] = Nothing]
       /\ eff' = Blank(p, eff)
  /\ UNCHANGED <<got, purpose, config, vault, task, holder, saved, stored, cut>>
SpawnFails(p) ==
  /\ At(p, "spawn") /\ "os" \in Faults
  /\ End(p, "fatal")
  /\ UNCHANGED <<config, vault, task, begun, saved, stored, cut>>

----------------------------------------------------------------------------
(* The guard *)

\* acquirePidFile.
Lock(p) ==
  /\ At(p, "lock")
  /\ IF holder = None
     THEN Goto(p, "resolve") /\ holder' = p /\ UNCHANGED <<procVars, got>>
     ELSE End(p, "fatal")
  /\ UNCHANGED <<config, vault, task, begun, saved, stored, cut>>

\* credLoader: the credentials are loaded again for each login; a guard that was
\* started without any never logs in.
Reload(p) ==
  /\ At(p, "run") /\ purpose[p] # "without" /\ Loaded(p) # got[p]
  /\ got' = [got EXCEPT ![p] = Loaded(p)]
  /\ UNCHANGED <<pc, procVars, config, vault, task, holder, begun, saved, stored, cut>>

\* A daemon returns on a signal; a one-shot run ends well or not, and -reauth not
\* without credentials.
Finish(p) ==
  /\ At(p, "run")
  /\ \/ ~("reauth" \in launch[p].modes /\ purpose[p] = "without") /\ End(p, "clean")
     \/ ~Daemon(p) /\ End(p, "fatal")
  /\ UNCHANGED <<config, vault, task, begun, saved, stored, cut>>

\* A process is killed anywhere: the machine goes down, or an early signal.
Kill(p) ==
  /\ pc[p] \notin {"idle"} \cup Ended /\ "kill" \in Faults
  /\ End(p, "killed")
  /\ cut' = cut \cup (IF At(p, "write") /\ config.state # "intact" THEN {"config"} ELSE {})
                \cup (IF At(p, "fill") /\ vault[Path(p)].state # "intact" THEN {Path(p)} ELSE {})
  /\ UNCHANGED <<config, vault, task, begun, saved, stored>>

----------------------------------------------------------------------------
(* The specification *)

SaveCredentials(p) ==
  SaveEnv(p) \/ NoAnswer(p) \/ Put(p) \/ PutFails(p) \/ Fill(p) \/ FillFails(p)
SaveSettings(p) ==
  SaveConfig(p) \/ SaveConfigFails(p) \/ WriteConfig(p) \/ WriteConfigFails(p)
Startup(p) == Enable(p) \/ Disable(p) \/ Spawn(p) \/ SpawnFails(p)
Proceed(p) ==
  \/ Born(p) \/ Forget(p) \/ Lock(p) \/ Resolve(p)
  \/ SaveCredentials(p) \/ SaveSettings(p) \/ Startup(p)
Step(p) == Proceed(p) \/ Run(p) \/ Logon(p) \/ Answer(p) \/ Reload(p) \/ Finish(p) \/ Kill(p)
Stopped == (\A p \in Procs : pc[p] \in {"idle", "run", "spawn"} \cup Ended) /\ UNCHANGED vars

Next == (\E p \in Procs : Step(p)) \/ Stopped
Spec == Init /\ [][Next]_vars

\* A process proceeds on its own, except that it waits for a user at a prompt: a
\* child has none, and its read of the null device fails at once.
FairSpec ==
  /\ Spec
  /\ \A p \in Procs : WF_vars(Proceed(p) /\ (At(p, "prompt") => legacy[p] # Nothing))

----------------------------------------------------------------------------
(* Properties *)

TypeOK ==
  /\ pc \in [Procs -> Points]
  /\ \A p \in Procs : /\ launch[p].modes \subseteq Modes
                      /\ DOMAIN launch[p].flags \subseteq Fields
                      /\ purpose[p] \in {None, "without", "env", "prompt", "auto"}
  /\ eff \in [Procs -> AllSettings] /\ legacy \in [Procs -> AllSettings]
  /\ got \in [Procs -> Creds]
  /\ config.state \in {"absent", "empty", "torn", "intact"} /\ config.data \in AllSettings
  /\ \A path \in Paths : vault[path].state \in {"absent", "empty", "torn", "intact"}
  /\ holder \in Procs \cup {None} /\ begun \in 0..MaxLaunches
  /\ cut \subseteq {"config"} \cup Paths

\* In every launch, of a user, the startup task or a parent, a flag that is not the
\* default wins, and a setting without a flag is the one last saved, where the file
\* can carry it (ParseFlags); unless just then another process is writing the file
\* or its last writing was cut short.
LaunchSeesLastSave ==
  [][\A p \in Procs :
       /\ pc[p] \in {"idle", "born"} \cup Ended /\ eff'[p] # Nothing
       /\ \A q \in Procs : ~At(q, "write")
       /\ "config" \notin cut
       => Arrives(saved, launch'[p].flags, eff'[p])]_vars

\* A child looks for credentials where its parent did, even when config.json could
\* not be saved, was torn or was changed in between (GuardArgs): only a parent with
\* the default path relies on the file.
ChildKeepsVault ==
  \A p \in Procs :
    "credential_file" \in Fields /\ eff[p] # Nothing
      /\ legacy[p]["credential_file"] # "zero" => Path(p) = legacy[p]["credential_file"]

\* User name and password in hand always belong together: both from the
\* environment, both from the prompt or both from one save (LoadCredentials).
CredsBelongTogether == \A p \in Procs : got[p].user = got[p].pass

\* The credential file is what the last complete save or removal left, and can be
\* loaded, but while somebody writes it and after such a write was cut short.
VaultIsLastSave ==
  \A path \in Paths :
    (\A p \in Procs : ~(At(p, "fill") /\ Path(p) = path)) /\ path \notin cut =>
      vault[path] = IF stored[path] = NoCreds THEN NoFile(NoCreds) ELSE Intact(stored[path])

\* A spawned process comes to run as a guard, unless it is refused, killed or its
\* settings are: it neither waits for a user nor goes into the background again.
ChildGuards == \A p \in Procs : pc[p] = "born" ~> pc[p] \in {"run", "fatal", "killed"}

----------------------------------------------------------------------------
(* What the documents say and the code does not do *)

\* src/startup.go:3: the child runs with the same configuration.
ChildSameConfig ==
  \A p \in Procs : eff[p] # Nothing /\ legacy[p] # Nothing => eff[p] = legacy[p]
=============================================================================
