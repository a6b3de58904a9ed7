------------------------------- MODULE Guard -------------------------------
(***************************************************************************)
(* One guard process (main.go from resolveCredentials on, src/guard.go)    *)
(* against a campus portal that may be unreachable, drop requests, lose    *)
(* replies and change the session behind the guard's back.                 *)
(*                                                                         *)
(* Every HTTP exchange, credential load and netsh call is one step, so the *)
(* environment may act between any two of them.  Between two such calls    *)
(* the code touches only its own memory and belongs to the earlier step.   *)
(***************************************************************************)
EXTENDS Naturals

CONSTANTS
  Configs,  \* the launches considered: a set of Config records
  CountCap  \* bound: counters stop growing here, above every threshold

\* The fields of Config that decide control flow, and the platform.  "probes":
\* ProbeURLs is empty, holds only "", or names some URL.  "env": both, one or
\* none of the two credential environment variables are set.
Config == [mode: {"daemon", "once", "reauth"}, maxProbeFails: Nat,
           ssid: BOOLEAN, probes: {"none", "blank", "some"},
           dryRun: BOOLEAN, windows: BOOLEAN, env: {"full", "partial", "none"}]

ASSUME ConfigsAssumption == Configs \subseteq Config
ASSUME CountCapAssumption ==
  /\ CountCap \in Nat
  /\ \A c \in Configs : c.maxProbeFails <= CountCap

VARIABLES
  cfg,             \* this launch's configuration; never changes
  pc,              \* what the guard does next
  hasCreds,        \* Guard.hasCreds, fixed at startup
  probeFailCount,  \* Guard.probeFailCount
  caller,          \* who is waiting for DoLogin: handleOffline, handleProbeFail, -reauth
  creds,           \* loaded Credentials not yet Clear()ed: main's, Reauth's, DoLogin's
  result,          \* error returned by the last round: "none" while it runs
  ticked,          \* ticker.C holds a tick (its buffer is one)
  signalled,       \* sigCh holds a signal (its buffer is one)
  stored,          \* the credential file exists and decrypts
  net,             \* the way to the portal
  uplink,          \* the campus network reaches the internet
  session,         \* the portal's session for this client
  streak,          \* history: internet probes failed since one last succeeded
  believed         \* history: what the portal last told this round

guardVars == <<cfg, hasCreds, caller>>
loopVars == <<ticked, signalled>>
portalVars == <<stored, net, uplink, session>>
vars == <<cfg, pc, hasCreds, probeFailCount, caller, creds, result, ticked,
          signalled, stored, net, uplink, session, streak, believed>>

\* Program points, named for the call the guard is about to make.
StatusPoints == {"check", "retry1", "retry2"}
ReauthPoints == {"reauthLoad", "reauthIP", "logout"}
LoginPoints == {"load", "ip", "agree", "challenge", "submit"}
Terminal == {"clean", "fatal", "killed"}
Points == {"resolve", "prompt", "reconnect", "probe", "select"}
            \cup StatusPoints \cup ReauthPoints \cup LoginPoints \cup Terminal

RoundTypeOK ==
  /\ pc \in Points
  /\ caller \in {"none", "offline", "forced", "cli"}
  /\ creds \subseteq {"startup", "reauth", "login"}
  /\ result \in {"none", "ok", "err"}
  /\ believed \in {"unknown", "off", "online", "accepted"}
CountTypeOK == cfg \in Configs /\ probeFailCount \in 0..CountCap /\ streak \in 0..CountCap
LoopTypeOK == hasCreds \in BOOLEAN /\ ticked \in BOOLEAN /\ signalled \in BOOLEAN
PortalTypeOK ==
  /\ stored \in BOOLEAN /\ uplink \in BOOLEAN
  /\ net \in {"lost", "down", "flaky", "up"}
  /\ session \in {"off", "on", "stuck"}
TypeOK == RoundTypeOK /\ CountTypeOK /\ LoopTypeOK /\ PortalTypeOK

Init ==
  /\ cfg \in Configs
  /\ pc = "resolve" /\ hasCreds = FALSE /\ probeFailCount = 0
  /\ caller = "none" /\ creds = {} /\ result = "none"
  /\ ticked = FALSE /\ signalled = FALSE
  /\ stored \in BOOLEAN /\ (stored => cfg.windows)
  /\ net \in {"lost", "down", "flaky", "up"} /\ uplink \in BOOLEAN
  /\ session \in {"off", "on", "stuck"}
  /\ streak = 0 /\ believed = "unknown"

----------------------------------------------------------------------------
(* Helpers *)

\* "lost": disassociated from the WLAN.  "down": associated, portal silent.
\* "flaky": any request, or its reply, may be lost.  "up": the portal answers
\* every request and grants a login whenever the client has no session.
CanReach == net \in {"flaky", "up"}
CanFail == net # "up"

\* LoadCredentials: the environment wins, half an environment is an error, and
\* the DPAPI store is readable on Windows only.
Loadable ==
  \/ cfg.env = "full"
  \/ cfg.env = "none" /\ cfg.windows /\ stored

CountUp_Unbounded(n) == n + 1
CountUp(n) == IF n < CountCap THEN n + 1 ELSE n

\* What main does with the error a round returned.
Return_RetryOnce(r) ==
  /\ result' = r
  /\ pc' = IF cfg.mode = "daemon" THEN "select"
           ELSE IF r = "ok" THEN "clean" ELSE "check"
Return(r) ==
  /\ result' = r
  /\ pc' = IF cfg.mode = "daemon" THEN "select"
           ELSE IF r = "ok" THEN "clean" ELSE "fatal"

\* DoLogin returns, and Reauth with it when Reauth called it: the deferred
\* Clear()s run, and handleProbeFail resets its counter on success only.
LoginReturns_ClearOnSuccess(r) ==
  /\ creds' = IF r = "ok" THEN creds \ {"reauth", "login"} ELSE creds
  /\ probeFailCount' = IF caller = "forced" /\ r = "ok" THEN 0 ELSE probeFailCount
  /\ Return(r)
LoginReturns(r) ==
  /\ creds' = creds \ {"reauth", "login"}
  /\ probeFailCount' = IF caller = "forced" /\ r = "ok" THEN 0 ELSE probeFailCount
  /\ Return(r)

----------------------------------------------------------------------------
(* Startup: main.go, before the guard loop *)

\* -reauth insists on credentials; the other modes start with a status check.
\* main's own copy of the credentials is never cleared.
Dispatch(has) ==
  /\ hasCreds' = has
  /\ creds' = IF has THEN {"startup"} ELSE {}
  /\ IF cfg.mode # "reauth" THEN pc' = "check" /\ caller' = "none"
     ELSE IF has THEN pc' = "reauthLoad" /\ caller' = "cli"
     ELSE pc' = "fatal" /\ caller' = "none"

\* Credentials found.  Those of the environment are saved as well; a failed
\* save is only logged, and may have truncated the file.
ResolveFound ==
  /\ pc = "resolve" /\ Loadable
  /\ stored' \in IF cfg.env = "full" /\ cfg.windows THEN BOOLEAN ELSE {stored}
  /\ Dispatch(TRUE)
  /\ UNCHANGED <<cfg, probeFailCount, result, loopVars, net, uplink, session,
                 streak, believed>>

ResolveMissing ==
  /\ pc = "resolve" /\ ~Loadable
  /\ IF cfg.mode = "daemon" THEN pc' = "prompt" /\ UNCHANGED <<hasCreds, caller, creds>>
     ELSE Dispatch(FALSE)
  /\ UNCHANGED <<cfg, probeFailCount, result, loopVars, portalVars,
                 streak, believed>>

\* The user answers the prompt and the answer is saved.
PromptAnswered ==
  /\ pc = "prompt" /\ cfg.windows
  /\ stored' = TRUE
  /\ Dispatch(TRUE)
  /\ UNCHANGED <<cfg, probeFailCount, result, loopVars, net, uplink, session,
                 streak, believed>>

\* The prompt fails (no stdin, empty answer): the guard runs without credentials.
PromptFailed ==
  /\ pc = "prompt"
  /\ Dispatch(FALSE)
  /\ UNCHANGED <<cfg, probeFailCount, result, loopVars, portalVars,
                 streak, believed>>

\* The prompt is answered but saving fails: fatal.
PromptSaveFailed ==
  /\ pc = "prompt"
  /\ pc' = "fatal"
  /\ stored' \in {stored, FALSE}
  /\ UNCHANGED <<guardVars, probeFailCount, creds, result, loopVars, net,
                 uplink, session, streak, believed>>

----------------------------------------------------------------------------
(* EnsureConnected *)

\* No reply, an HTTP error or no JSON: handleUnreachable, or its next attempt.
OnUnreachable_NoReconnect ==
  \/ pc = "check" /\ ~cfg.ssid /\ pc' = "reconnect" /\ UNCHANGED result
  \/ pc = "check" /\ cfg.ssid /\ Return("err")
  \/ pc = "retry1" /\ pc' = "retry2" /\ UNCHANGED result
  \/ pc = "retry2" /\ Return("err")
OnUnreachable ==
  \/ pc = "check" /\ cfg.ssid /\ pc' = "reconnect" /\ UNCHANGED result
  \/ pc = "check" /\ ~cfg.ssid /\ Return("err")
  \/ pc = "retry1" /\ pc' = "retry2" /\ UNCHANGED result
  \/ pc = "retry2" /\ Return("err")

StatusError ==
  /\ pc \in StatusPoints /\ CanFail
  /\ OnUnreachable
  /\ UNCHANGED <<guardVars, probeFailCount, creds, loopVars, portalVars,
                 streak, believed>>

StatusOnline ==
  /\ pc \in StatusPoints /\ CanReach /\ session # "off"
  /\ believed' = "online"
  /\ pc' = "probe"
  /\ UNCHANGED <<guardVars, probeFailCount, creds, result, loopVars,
                 portalVars, streak>>

\* The portal reports no session: handleOffline.  Any answer but "ok" counts as
\* that, a portal in trouble included.
StatusOffline ==
  /\ pc \in StatusPoints /\ CanReach /\ (session = "off" \/ CanFail)
  /\ believed' = "off"
  /\ IF hasCreds
     THEN /\ probeFailCount' = 0 /\ caller' = "offline" /\ pc' = "load"
          /\ UNCHANGED result
     ELSE Return("err") /\ UNCHANGED <<probeFailCount, caller>>
  /\ UNCHANGED <<cfg, hasCreds, creds, loopVars, portalVars, streak>>

\* netsh wlan connect succeeds (Windows only), and the link may come back.
ReconnectOK ==
  /\ pc = "reconnect" /\ cfg.windows
  /\ net' = IF net = "lost" THEN "flaky" ELSE net
  /\ pc' = "retry1"
  /\ UNCHANGED <<guardVars, probeFailCount, creds, result, loopVars, stored,
                 uplink, session, streak, believed>>

\* Profile missing, adapter off, or no netsh at all: logged, then the retries run.
ReconnectFails ==
  /\ pc = "reconnect"
  /\ pc' = "retry1"
  /\ UNCHANGED <<guardVars, probeFailCount, creds, result, loopVars,
                 portalVars, streak, believed>>

\* internetReachable: no URL configured means reachable, only blank URLs means
\* unreachable; otherwise some URL must answer.
MayReachInternet ==
  \/ cfg.probes = "none"
  \/ cfg.probes = "some" /\ CanReach /\ session = "on" /\ uplink
MustReachInternet ==
  \/ cfg.probes = "none"
  \/ cfg.probes = "some" /\ net = "up" /\ session = "on" /\ uplink

ProbeOK_KeepCount ==
  /\ pc = "probe" /\ MayReachInternet
  /\ streak' = 0
  /\ Return("ok")
  /\ UNCHANGED <<guardVars, probeFailCount, creds, loopVars, portalVars, believed>>
ProbeOK ==
  /\ pc = "probe" /\ MayReachInternet
  /\ probeFailCount' = 0 /\ streak' = 0
  /\ Return("ok")
  /\ UNCHANGED <<guardVars, creds, loopVars, portalVars, believed>>

\* handleProbeFail's threshold, on the counter just incremented.
AtThreshold_Equal(n) == cfg.maxProbeFails > 0 /\ n = cfg.maxProbeFails
AtThreshold(n) == cfg.maxProbeFails > 0 /\ n >= cfg.maxProbeFails

\* The internet probe fails: handleProbeFail forces a re-login or skips the round.
ProbeFail_ResetFirst ==
  /\ pc = "probe" /\ ~MustReachInternet
  /\ streak' = CountUp(streak)
  /\ IF AtThreshold(CountUp(probeFailCount)) /\ hasCreds
     THEN /\ probeFailCount' = 0
          /\ caller' = "forced" /\ pc' = "reauthLoad" /\ UNCHANGED result
     ELSE /\ probeFailCount' = CountUp(probeFailCount)
          /\ Return("ok") /\ UNCHANGED caller
  /\ UNCHANGED <<cfg, hasCreds, creds, loopVars, portalVars, believed>>
ProbeFail ==
  /\ pc = "probe" /\ ~MustReachInternet
  /\ probeFailCount' = CountUp(probeFailCount)
  /\ streak' = CountUp(streak)
  /\ IF AtThreshold(CountUp(probeFailCount)) /\ hasCreds
     THEN caller' = "forced" /\ pc' = "reauthLoad" /\ UNCHANGED result
     ELSE Return("ok") /\ UNCHANGED caller
  /\ UNCHANGED <<cfg, hasCreds, creds, loopVars, portalVars, believed>>

----------------------------------------------------------------------------
(* Reauth *)

ReauthLoad ==
  /\ pc = "reauthLoad"
  /\ IF Loadable
     THEN creds' = creds \cup {"reauth"} /\ pc' = "reauthIP" /\ UNCHANGED <<probeFailCount, result>>
     ELSE LoginReturns("err")
  /\ UNCHANGED <<guardVars, loopVars, portalVars, streak, believed>>

\* detectClientIP: the portal page, then the challenge reply as a fallback.
ReauthIP ==
  /\ pc = "reauthIP"
  /\ \/ /\ CanReach
        /\ pc' = "logout" /\ UNCHANGED <<probeFailCount, creds, result>>
     \/ CanFail /\ LoginReturns("err")
  /\ UNCHANGED <<guardVars, loopVars, portalVars, streak, believed>>

\* portalLogout is accepted, refused, or its request or reply is lost; the
\* login follows whatever happened.
Logout_StopsOnError ==
  /\ pc = "logout"
  /\ \/ /\ CanReach /\ session' = "off" /\ believed' = "off"
        /\ pc' = "load" /\ UNCHANGED <<probeFailCount, creds, result>>
     \/ /\ CanFail \/ session = "off"
        /\ believed' = "unknown" /\ UNCHANGED session
        /\ LoginReturns("err")
     \/ net = "flaky" /\ session' = "off" /\ believed' = "unknown" /\ LoginReturns("err")
  /\ UNCHANGED <<guardVars, loopVars, stored, net, uplink, streak>>
Logout ==
  /\ pc = "logout"
  /\ \/ CanReach /\ session' = "off" /\ believed' = "off"
     \/ (CanFail \/ session = "off") /\ believed' = "unknown" /\ UNCHANGED session
     \/ net = "flaky" /\ session' = "off" /\ believed' = "unknown"
  /\ pc' = "load"
  /\ UNCHANGED <<guardVars, probeFailCount, creds, result, loopVars, stored,
                 net, uplink, streak>>

----------------------------------------------------------------------------
(* DoLogin *)

LoginLoad ==
  /\ pc = "load"
  /\ IF hasCreds /\ Loadable
     THEN /\ creds' = creds \cup {"login"} /\ pc' = "ip"
          /\ UNCHANGED <<probeFailCount, result>>
     ELSE LoginReturns("err")
  /\ UNCHANGED <<guardVars, loopVars, portalVars, streak, believed>>

LoginIP ==
  /\ pc = "ip"
  /\ \/ CanReach /\ pc' = "agree" /\ UNCHANGED <<probeFailCount, creds, result>>
     \/ CanFail /\ LoginReturns("err")
  /\ UNCHANGED <<guardVars, loopVars, portalVars, streak, believed>>

\* agreePortalProtocol: its failure is logged and otherwise ignored.
Agree ==
  /\ pc = "agree"
  /\ pc' = "challenge"
  /\ UNCHANGED <<guardVars, probeFailCount, creds, result, loopVars,
                 portalVars, streak, believed>>

Challenge ==
  /\ pc = "challenge"
  /\ \/ CanReach /\ pc' = "submit" /\ UNCHANGED <<probeFailCount, creds, result>>
     \/ CanFail /\ LoginReturns("err")
  /\ UNCHANGED <<guardVars, loopVars, portalVars, streak, believed>>

SubmitAccepted ==
  /\ pc = "submit" /\ CanReach
  /\ session' = "on" /\ believed' = "accepted"
  /\ LoginReturns("ok")
  /\ UNCHANGED <<guardVars, loopVars, stored, net, uplink, streak>>

\* The portal answers no (bad password, stale token, or the address is online
\* already, by a request sent before whose reply was lost: doWithRetry repeats it).
\* A dry run has submitted the form all the same and does not read the answer.
SubmitRejected_NotChecked ==
  /\ pc = "submit" /\ CanReach /\ (CanFail \/ session # "off")
  /\ LoginReturns("ok")
  /\ session' \in IF net = "flaky" THEN {session, "on"} ELSE {session}
  /\ UNCHANGED <<guardVars, loopVars, stored, net, uplink, streak, believed>>
SubmitRejected ==
  /\ pc = "submit" /\ CanReach /\ (CanFail \/ session # "off")
  /\ LoginReturns(IF cfg.dryRun THEN "ok" ELSE "err")
  /\ session' \in IF net = "flaky" THEN {session, "on"} ELSE {session}
  /\ UNCHANGED <<guardVars, loopVars, stored, net, uplink, streak, believed>>

\* The request, or the reply to an accepted one, is lost.
SubmitLost ==
  /\ pc = "submit" /\ CanFail
  /\ \/ UNCHANGED session
     \/ net = "flaky" /\ session' = "on"
  /\ believed' = "unknown"
  /\ LoginReturns("err")
  /\ UNCHANGED <<guardVars, loopVars, stored, net, uplink, streak>>

----------------------------------------------------------------------------
(* The daemon's select loop *)

Tick ==
  /\ pc = "select" /\ ticked
  /\ ticked' = FALSE
  /\ pc' = "check" /\ result' = "none" /\ believed' = "unknown" /\ caller' = "none"
  /\ UNCHANGED <<cfg, hasCreds, probeFailCount, creds, signalled, portalVars, streak>>

Shutdown_TickFirst ==
  /\ pc = "select" /\ signalled /\ ~ticked
  /\ pc' = "clean" /\ signalled' = FALSE
  /\ UNCHANGED <<guardVars, probeFailCount, creds, result, ticked, portalVars,
                 streak, believed>>
Shutdown ==
  /\ pc = "select" /\ signalled
  /\ pc' = "clean" /\ signalled' = FALSE
  /\ UNCHANGED <<guardVars, probeFailCount, creds, result, ticked, portalVars,
                 streak, believed>>

----------------------------------------------------------------------------
(* The environment *)

\* The ticker and signal.Notify are set up just before the first check.
Looping == cfg.mode = "daemon" /\ pc \notin {"resolve", "prompt"} \cup Terminal

\* A full channel drops the tick.
TimerFires ==
  /\ Looping /\ ~ticked /\ ticked' = TRUE
  /\ UNCHANGED <<guardVars, pc, probeFailCount, creds, result, signalled,
                 portalVars, streak, believed>>

\* SIGINT or SIGTERM: queued once the handler is installed, deadly before.
Interrupt ==
  /\ pc \notin Terminal
  /\ IF Looping
     THEN ~signalled /\ signalled' = TRUE /\ UNCHANGED pc
     ELSE pc' = "killed" /\ UNCHANGED signalled
  /\ UNCHANGED <<guardVars, probeFailCount, creds, result, ticked, portalVars,
                 streak, believed>>

NetChanges ==
  /\ net' \in {"lost", "down", "flaky", "up"} \ {net}
  /\ UNCHANGED <<stored, uplink, session>>
UplinkChanges == uplink' = ~uplink /\ UNCHANGED <<stored, net, session>>
\* The portal drops the session, keeps one that carries no traffic, or the user
\* logs in with a browser.
SessionChanges ==
  /\ \/ session # "off" /\ session' = "off"
     \/ session = "on" /\ session' = "stuck"
     \/ session = "off" /\ session' = "on"
  /\ UNCHANGED <<stored, net, uplink>>
\* Another command runs -save-credentials or -forget-credentials.
StoreChanges == cfg.windows /\ stored' = ~stored /\ UNCHANGED <<net, uplink, session>>

WorldChanges ==
  /\ pc \notin Terminal
  /\ NetChanges \/ UplinkChanges \/ SessionChanges \/ StoreChanges
  /\ UNCHANGED <<guardVars, pc, probeFailCount, creds, result, loopVars,
                 streak, believed>>

----------------------------------------------------------------------------
(* The specification *)

Resolve == ResolveFound \/ ResolveMissing
Prompt == PromptAnswered \/ PromptFailed \/ PromptSaveFailed
Status == StatusError \/ StatusOnline \/ StatusOffline
Reconnect == ReconnectOK \/ ReconnectFails
Probe == ProbeOK \/ ProbeFail
Reauth == ReauthLoad \/ ReauthIP \/ Logout
DoLogin == LoginLoad \/ LoginIP \/ Agree \/ Challenge
             \/ SubmitAccepted \/ SubmitRejected \/ SubmitLost
GuardStep == Resolve \/ Status \/ Reconnect \/ Probe \/ Reauth \/ DoLogin \/ Tick \/ Shutdown
Environment == Prompt \/ TimerFires \/ Interrupt \/ WorldChanges
Exited == pc \in Terminal /\ UNCHANGED vars

Next == GuardStep \/ Environment \/ Exited

Spec == Init /\ [][Next]_vars

\* Every exchange times out, so the guard never hangs in one; the ticker keeps
\* ticking; select picks at random among ready channels, so a pending signal is
\* not passed over for ever; netsh, tried again and again, works at some time.
Fairness ==
  /\ WF_vars(GuardStep)
  /\ WF_vars(TimerFires)
  /\ SF_vars(Shutdown)
  /\ SF_vars(ReconnectOK)

FairSpec == Spec /\ Fairness

----------------------------------------------------------------------------
(* Safety *)

\* A forced re-login, which throws the user off the portal, starts only with
\* credentials in hand and after max-probe-fails internet probes failed with no
\* successful one in between, whatever unreachable or offline rounds lay between
\* them (handleProbeFail).
ReauthJustified ==
  pc \in ReauthPoints =>
    \/ cfg.mode = "reauth"
    \/ hasCreds /\ cfg.maxProbeFails > 0 /\ streak >= cfg.maxProbeFails

\* Credentials loaded in a round live exactly while a login needs them: DoLogin's
\* copy from its load to its return, Reauth's from its load to the end of the
\* DoLogin it calls, and none once the round has returned, by whatever path.
CredsLifecycle ==
  pc # "killed" =>
  /\ "login" \in creds <=> pc \in LoginPoints \ {"load"}
  /\ "reauth" \in creds <=>
       \/ pc \in ReauthPoints \ {"reauthLoad"}
       \/ pc \in LoginPoints /\ caller \in {"forced", "cli"}

\* A round that returns nil leaves the user on the portal as far as the portal
\* said: its last answer was "online" or an accepted login.  In particular no
\* round that logged the user out ends well without a login.
RoundOkMeansOnline ==
  result = "ok" /\ ~cfg.dryRun => believed \in {"online", "accepted"}

\* The failure counter falls only on evidence: the internet answered, the portal
\* reported the user offline, or a login that follows was accepted (or was a dry
\* run).  A failed forced re-login therefore leaves it at the threshold, and the
\* next failing round tries again.
ResetNeedsEvidence ==
  [][probeFailCount' < probeFailCount =>
       \/ streak' = 0
       \/ believed' \in {"off", "accepted"} /\ caller' # "forced"
       \/ caller' = "forced" /\ (believed' = "accepted" \/ cfg.dryRun)]_vars

\* The guard is a watchdog: see there for what its rounds promise.  Its counter is
\* compared with the threshold only, and "leaving" is where portalLogout is called.
Strikes == IF probeFailCount < cfg.maxProbeFails THEN probeFailCount ELSE cfg.maxProbeFails
Phase(point) ==
  CASE point \in {"resolve", "prompt"} -> "starting"
    [] point \in StatusPoints \cup {"reconnect", "probe"} -> "looking"
    [] point \in {"reauthLoad", "reauthIP"} -> "breaking"
    [] point = "logout" -> "leaving"
    [] point \in LoginPoints -> "joining"
    [] point = "select" -> "idle"
    [] OTHER -> "ended"
Dog == INSTANCE Watchdog WITH
  mode <- cfg.mode, limit <- cfg.maxProbeFails, able <- hasCreds,
  phase <- Phase(pc), strikes <- Strikes, outcome <- result
KeepsWatch == Dog!Spec

----------------------------------------------------------------------------
(* Liveness *)

\* -once and -reauth always end: there is no loop in a round.
OneShotEnds == cfg.mode # "daemon" ~> pc \in Terminal

\* A signal that arrives during a round is acted on after it.
SignalStops == signalled ~> pc = "clean"

\* With the portal answering, credentials loadable and no signal, a daemon that
\* holds credentials and has a probe threshold brings the session back again and
\* again: it logs in when the portal says offline and breaks a session that the
\* portal reports online but that carries no traffic.
Healthy ==
  /\ Looping /\ hasCreds /\ Loadable
  /\ cfg.maxProbeFails > 0 /\ cfg.probes = "some"
  /\ net = "up" /\ uplink /\ ~signalled
SessionRecovers == <>[]Healthy => []<>(session = "on")

\* A Windows daemon with a WLAN profile does not stay off the WLAN.
WlanRecovers ==
  <>[](Looping /\ cfg.windows /\ cfg.ssid /\ ~signalled) => []<>(net # "lost")

----------------------------------------------------------------------------
(* What the documents say and the code does not do *)

\* README.md:189 and the flag's help text: a dry run builds the login parameters
\* and does not submit them, so the portal never accepts a login from one.
DryRunSubmitsNothing == cfg.dryRun => believed # "accepted"

\* README.md:258: with credentials given at the first-run prompt, authentication
\* recovers by itself from then on, so a guard that took them can load them while
\* their file is intact.
SavedCredsUsable == hasCreds /\ stored => Loadable
=============================================================================
