------------------------------ MODULE MCGuard ------------------------------
(***************************************************************************)
(* Launch configurations on which TLC checks Guard.                        *)
(***************************************************************************)
EXTENDS Guard

\* An ordinary Windows daemon with saved credentials and threshold n.
Daemon(n) ==
  [mode |-> "daemon", maxProbeFails |-> n, ssid |-> TRUE, probes |-> "some",
   dryRun |-> FALSE, windows |-> TRUE, env |-> "none"]

\* Daemons of both platforms and one-shot runs, with the settings that matter to them.
AllConfigs ==
  { Daemon(2),
    [Daemon(1) EXCEPT !.ssid = FALSE, !.env = "full"],
    [Daemon(0) EXCEPT !.windows = FALSE, !.env = "full"],
    [Daemon(2) EXCEPT !.env = "partial", !.dryRun = TRUE],
    [Daemon(2) EXCEPT !.probes = "blank", !.windows = FALSE],
    [Daemon(2) EXCEPT !.probes = "none"],
    [Daemon(1) EXCEPT !.mode = "once"],
    [Daemon(2) EXCEPT !.mode = "reauth"],
    [Daemon(1) EXCEPT !.mode = "reauth", !.env = "full", !.dryRun = TRUE],
    [Daemon(1) EXCEPT !.mode = "once", !.env = "partial"] }

OnceDryRun == {[Daemon(2) EXCEPT !.mode = "once", !.dryRun = TRUE]}
HalfEnvironment == {[Daemon(2) EXCEPT !.env = "partial"]}
=============================================================================
