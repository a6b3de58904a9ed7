--------------------------- MODULE SettingsProofs ---------------------------
(***************************************************************************)
(* Theorems about Settings, for every set of settings and of values: what  *)
(* a launch leaves to the next one.                                        *)
(***************************************************************************)
EXTENDS Settings, TLAPS

\* ParseFlags, SaveConfigFile, LoadConfigFile and mergeConfig map settings to
\* settings.
LEMMA SettingsTypes ==
  ASSUME NEW cfg \in AllSettings, NEW flags, IsCommandLine(flags)
  PROVE  /\ ParseFlags(flags) \in AllSettings
         /\ Payload(cfg) \in AllSettings
         /\ LoadConfigFile(cfg) \in AllSettings
         /\ Effective(cfg, flags) \in AllSettings
<1>. USE DEF AllSettings, Values, ListValues
<1>1. ParseFlags(flags) \in AllSettings
  BY DEF ParseFlags, Resolved, Default, IsCommandLine
<1>2. Payload(cfg) \in AllSettings
  BY DEF Payload, Text
<1>3. LoadConfigFile(cfg) \in AllSettings
  BY DEF LoadConfigFile, Parsed
<1>4. Effective(cfg, flags) \in AllSettings
  BY <1>1, <1>3 DEF Effective, MergeConfig
<1>. QED
  BY <1>1, <1>2, <1>3, <1>4

\* What mergeConfig makes of the flags, the settings saved and the defaults.  A flag
\* given with its default value counts as not given, against the comment at
\* src/config.go:333-334: theorem LaunchSettings says what the code does.
Merged(cfg, flags, f) ==
  IF f \in DOMAIN flags /\ flags[f] # Default(f) THEN flags[f]
  ELSE IF Carried(f, cfg[f]) THEN cfg[f]
  ELSE IF f = "probe_urls" /\ cfg[f] = "joined" THEN "split"
  ELSE IF f = "probe_urls" /\ cfg[f] = "query" THEN "bad"
  ELSE Resolved(f, Default(f))

\* The settings of a launch after one that saved cfg are, field by field, the
\* flag if it differs from the default, else the saved value if the file can
\* carry it, else the default, but for the lists of URLs that Split takes apart
\* (ParseFlags, SaveConfigFile, mergeConfig).
THEOREM LaunchSettings ==
  ASSUME NEW cfg \in AllSettings, NEW flags, IsCommandLine(flags), NEW f \in Fields
  PROVE  Effective(Payload(cfg), flags)[f] = Merged(cfg, flags, f)
BY SettingsAssumption
   DEF AllSettings, IsCommandLine, Values, ListValues, Effective, MergeConfig, LoadConfigFile, Parsed,
       Payload, Text, ParseFlags, Resolved, Default, Merged, Carried, NeverSaved, NeverLoaded,
       ZeroDefault

\* A relaunch without flags, field by field.
LEMMA RelaunchFields ==
  ASSUME NEW cfg \in AllSettings
  PROVE  /\ Relaunch(cfg) \in AllSettings
         /\ Relaunch(cfg) = [f \in Fields |-> Merged(cfg, NoFlags, f)]
<1>1. IsCommandLine(NoFlags)
  BY DEF NoFlags, IsCommandLine
<1>2. Relaunch(cfg) \in AllSettings
  BY <1>1, SettingsTypes DEF Relaunch
<1>3. \A f \in Fields : Relaunch(cfg)[f] = Merged(cfg, NoFlags, f)
  BY <1>1, LaunchSettings DEF Relaunch
<1>. QED
  BY <1>2, <1>3 DEF AllSettings

\* A setting the file carries reaches a launch without flags unchanged.
THEOREM CarriedReaches ==
  ASSUME NEW cfg \in AllSettings, NEW f \in Fields, Carried(f, cfg[f])
  PROVE  Relaunch(cfg)[f] = cfg[f]
BY RelaunchFields DEF Merged, NoFlags

\* Launching again and again without flags changes nothing after the first time,
\* so the chain of startup task, launcher and child settles.
THEOREM RelaunchSettles ==
  ASSUME NEW cfg \in AllSettings
  PROVE  Relaunch(Relaunch(cfg)) = Relaunch(cfg)
<1> DEFINE again == Relaunch(cfg)
<1>1. again \in AllSettings
  BY RelaunchFields
<1>2. \A f \in Fields : Merged(again, NoFlags, f) = again[f]
  <2>. SUFFICES ASSUME NEW f \in Fields PROVE Merged(again, NoFlags, f) = again[f]
    OBVIOUS
  <2>1. again[f] = Merged(cfg, NoFlags, f)
    BY RelaunchFields
  <2>. HIDE DEF again
  <2>. QED
    BY <2>1 DEF Merged, NoFlags, Carried, Resolved, Default, ZeroDefault, NeverSaved, NeverLoaded
<1>3. Relaunch(again) = [f \in Fields |-> Merged(again, NoFlags, f)]
  BY <1>1, RelaunchFields
<1>. QED
  BY <1>1, <1>2, <1>3 DEF AllSettings

\* Settings that were validated are still valid when they come back, but for a
\* probe URL whose comma cuts it into what is not a URL: then, and only then, a
\* launch without flags dies of what an earlier one saved.
THEOREM RelaunchValid ==
  ASSUME NEW cfg \in AllSettings, Validate(cfg)
  PROVE  Validate(Relaunch(cfg)) <=>
           ~("probe_urls" \in Fields /\ cfg["probe_urls"] = "query")
<1>1. \A f \in Fields : Relaunch(cfg)[f] = Merged(cfg, NoFlags, f)
  BY RelaunchFields
<1>2. ASSUME "probe_urls" \in Fields, cfg["probe_urls"] = "query"
      PROVE  ~Validate(Relaunch(cfg))
  <2>1. Relaunch(cfg)["probe_urls"] = "bad"
    BY <1>1, <1>2 DEF Merged, NoFlags, Carried
  <2>. QED
    BY <1>2, <2>1 DEF Validate, Checked
<1>3. ASSUME NEW f \in Fields, f = "probe_urls" => cfg[f] # "query"
      PROVE  /\ f \in Required => Relaunch(cfg)[f] # "zero"
             /\ f \in Checked => Relaunch(cfg)[f] # "bad"
  BY <1>1, <1>3 DEF Validate, Merged, NoFlags, Carried, Resolved, Default, ZeroDefault, NeverSaved,
     NeverLoaded, Required, Checked
<1>. QED
  BY <1>2, <1>3 DEF Validate
=============================================================================
