------------------------------ MODULE MCLaunch ------------------------------
(***************************************************************************)
(* Instances of Launch for TLC.                                            *)
(***************************************************************************)
EXTENDS Launch, TLC

Cmd(modes, flags, user, pass) ==
  [modes |-> modes, flags |-> flags, env |-> [user |-> user, pass |-> pass]]

\* One command line per mode, with flags and environments that matter to it.
AllModes ==
  { Cmd({}, "max_probe_fails" :> "a", "u", "u"),
    Cmd({}, NoFlags, "w", None),
    Cmd({"once"}, "interval" :> "zero", None, None),
    Cmd({"once", "background"}, NoFlags, None, None),
    Cmd({"reauth"}, NoFlags, None, None),
    Cmd({"save"}, "credential_file" :> "a", "u", "u"),
    Cmd({"forget"}, NoFlags, None, None),
    Cmd({"enable"}, "probe_urls" :> "query", None, None),
    Cmd({"enable"}, "startup_task_name" :> "blank", None, None),
    Cmd({"disable"}, NoFlags, None, None),
    Cmd({"background"}, "max_probe_fails" :> "zero", None, None) }

\* A background launch with one unusual setting, after nothing or another launch.
Background ==
  { Cmd({"background"}, f :> v, None, None) : f \in Fields, v \in {"zero", "a"} }
=============================================================================
