------------------------------ MODULE Settings ------------------------------
(***************************************************************************)
(* The settings of one launch and their way to the next one (src/config.go *)
(* and GuardArgs in src/startup.go): flags, defaults, config.json, merge,  *)
(* validation and saving.  These are functions; module Launch runs them in *)
(* the processes that share the file.                                      *)
(*                                                                         *)
(* A value is known by what the code tells apart: "zero" is Go's zero      *)
(* value (0, "", an empty list), "default" the hardcoded default, "bad" a  *)
(* value Validate refuses, and Custom any others.  "blank" is a list of    *)
(* one empty URL, or a name of spaces.  A list of probe URLs may also be   *)
(* one URL with a comma in it: "joined" if what it is cut into at the      *)
(* comma are URLs again, then "split", and "query" if they are not.        *)
(***************************************************************************)
CONSTANTS
  Fields,  \* the settings considered, by their names in config.json
  Custom   \* values that are neither zero nor the default

ListValues == {"blank", "joined", "query", "split"}
ASSUME SettingsAssumption == Custom \cap ({"zero", "default", "bad"} \cup ListValues) = {}

Values == {"zero", "default", "bad"} \cup ListValues \cup Custom
AllSettings == [Fields -> Values]

\* Command lines: some of the settings, each given a value.
IsCommandLine(flags) ==
  /\ DOMAIN flags \subseteq Fields
  /\ \A f \in DOMAIN flags : flags[f] \in Values

\* Settings whose default is the zero value.
ZeroDefault == {"domain", "credential_file", "log_file", "dry_run", "pid_file"}
\* Settings that are not in configFilePayload at all.
NeverSaved == {"dry_run", "pid_file"}
\* Settings that are written to the file but not read from it.
NeverLoaded == {"retry_max", "retry_base_delay"}
\* Settings that Validate wants non-zero, and those it parses or wants not negative.
Required == {"base_url", "ac_id", "interval", "timeout", "probe_timeout"}
Checked == Required \cup {"probe_urls", "log_max_size", "log_max_backups",
                          "max_probe_fails", "retry_max", "retry_base_delay"}

Default(f) == IF f \in ZeroDefault THEN "zero" ELSE "default"
Nothing == [f \in Fields |-> "zero"]

----------------------------------------------------------------------------
(* The command line *)

\* ParseFlags up to the merge: a flag not given has its default, and a log file
\* not given is already the default path.
Resolved(f, v) == IF f = "log_file" /\ v = "zero" THEN "default" ELSE v
ParseFlags(flags) ==
  [f \in Fields |-> Resolved(f, IF f \in DOMAIN flags THEN flags[f] ELSE Default(f))]

\* Validate, but for the flags that exclude each other (Launch!Excluded).
Validate(cfg) ==
  \A f \in Fields :
    /\ f \in Required => cfg[f] # "zero"
    /\ f \in Checked => cfg[f] # "bad"

----------------------------------------------------------------------------
(* config.json *)

\* strings.Join and omitempty: a list of one empty URL leaves nothing in the file.
Text(f, v) == IF f = "probe_urls" /\ v = "blank" THEN "zero" ELSE v
\* strings.Split: a comma inside a URL separates two, which Validate parses apart.
Parsed(f, v) ==
  IF f # "probe_urls" THEN v
  ELSE IF v = "joined" THEN "split" ELSE IF v = "query" THEN "bad" ELSE v

\* SaveConfigFile: what differs from the default, unless it is zero.
Payload(cfg) ==
  [f \in Fields |->
     IF f \in NeverSaved \/ cfg[f] = Default(f) THEN "zero" ELSE Text(f, cfg[f])]

\* LoadConfigFile.
LoadConfigFile(text) ==
  [f \in Fields |-> IF f \in NeverLoaded THEN "zero" ELSE Parsed(f, text[f])]

\* mergeConfig: a flag wins when it differs from the default.
MergeConfig_FileWins(file, cli) ==
  [f \in Fields |-> IF f \notin NeverSaved /\ file[f] # "zero" THEN file[f] ELSE cli[f]]
MergeConfig(file, cli) ==
  [f \in Fields |->
     IF f \notin NeverSaved /\ cli[f] = Default(f) /\ file[f] # "zero"
     THEN file[f] ELSE cli[f]]

\* ParseFlags as a whole, given the text of the file.
Effective(text, flags) == MergeConfig(LoadConfigFile(text), ParseFlags(flags))

----------------------------------------------------------------------------
(* The command line of a child *)

NoFlags == [f \in {} |-> "zero"]

\* GuardArgs: besides the path of config.json, the same for all, only the
\* credential file travels as a flag.
GuardArgs_NoPath(cfg, includeBackground) ==
  [modes |-> IF includeBackground THEN {"background"} ELSE {}, flags |-> NoFlags]
GuardArgs_Misspelt(cfg, includeBackground) ==
  [modes |-> IF includeBackground THEN {"background"} ELSE {},
   flags |-> [f \in {"credentials_file"} |-> "default"]]
GuardArgs_Background(cfg, includeBackground) ==
  [modes |-> {"background"}, flags |-> NoFlags]
GuardArgs(cfg, includeBackground) ==
  [modes |-> IF includeBackground THEN {"background"} ELSE {},
   flags |-> IF "credential_file" \in Fields /\ cfg["credential_file"] # "zero"
             THEN [f \in {"credential_file"} |-> cfg[f]] ELSE NoFlags]

----------------------------------------------------------------------------
(* What gets across *)

\* The settings a launch leaves to the next one through the file alone.
Relaunch(cfg) == Effective(Payload(cfg), NoFlags)

\* A value the file carries: not one of a setting that is never saved, never
\* loaded or resolved before the merge, not a zero where that is not the default,
\* and not a list that Join and Split do not give back.
Carried(f, v) ==
  /\ f \notin NeverSaved \cup NeverLoaded \cup {"log_file"}
  /\ v # "zero" \/ f \in ZeroDefault
  /\ ~(f = "probe_urls" /\ v \in {"blank", "joined", "query"})

\* A launch with these flags after one that saved cfg: the flags that differ from
\* their default have won, and the carried values have arrived.  Nothing is said of
\* a flag given with its default value, which mergeConfig takes for one not given.
Arrives(cfg, flags, next) ==
  \A f \in Fields :
    IF f \in DOMAIN flags THEN flags[f] # Default(f) => next[f] = flags[f]
    ELSE Carried(f, cfg[f]) => next[f] = cfg[f]
=============================================================================
