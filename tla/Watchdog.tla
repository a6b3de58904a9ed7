------------------------------ MODULE Watchdog ------------------------------
(***************************************************************************)
(* What the guard promises its user.  It looks after the session in        *)
(* rounds.  A round throws the user off the portal at most once, only with *)
(* credentials at hand and after the configured number of strikes, and     *)
(* tries to log in again whenever it did; it logs in at most once; strikes *)
(* are forgotten only when they have been answered; a daemon dies only     *)
(* between rounds, and a single run makes one.                             *)
(***************************************************************************)
EXTENDS Naturals

VARIABLES
  mode,     \* "daemon", "once" or "reauth"; never changes
  limit,    \* strikes that break the session, 0 for never; never changes
  able,     \* it holds credentials
  phase,    \* what it is at
  strikes,  \* failed looks at the internet, up to limit
  outcome   \* how the last round ended: "none" while it runs

terms == <<mode, limit>>
vars == <<terms, able, phase, strikes, outcome>>

Phases == {"starting", "idle", "looking", "breaking", "leaving", "joining", "ended"}

Init ==
  /\ mode \in {"daemon", "once", "reauth"} /\ limit \in Nat
  /\ able = FALSE /\ phase = "starting" /\ strikes = 0 /\ outcome = "none"

\* A run without credentials that was to break the session ends at once.
Start ==
  /\ phase = "starting"
  /\ able' \in BOOLEAN
  /\ phase' = IF mode # "reauth" THEN "looking" ELSE IF able' THEN "breaking" ELSE "ended"
  /\ UNCHANGED <<terms, strikes, outcome>>

Wake ==
  /\ phase = "idle"
  /\ phase' = "looking" /\ outcome' = "none"
  /\ UNCHANGED <<terms, able, strikes>>

EndRound(r) == outcome' = r /\ phase' = IF mode = "daemon" THEN "idle" ELSE "ended"

\* The internet answers.
Fine == phase = "looking" /\ strikes' = 0 /\ EndRound("ok") /\ UNCHANGED <<terms, able>>

\* There is nothing to see, or nothing to be done about it.
Blind == phase = "looking" /\ EndRound("err") /\ UNCHANGED <<terms, able, strikes>>

\* The portal knows no session.
Offline ==
  /\ phase = "looking" /\ able
  /\ phase' = "joining" /\ strikes' = 0
  /\ UNCHANGED <<terms, able, outcome>>

\* The session carries no traffic; it is broken as soon as that is due, and as long
\* as it stays due.
Strike ==
  /\ phase = "looking"
  /\ strikes' = IF strikes < limit THEN strikes + 1 ELSE limit
  /\ IF able /\ limit > 0 /\ strikes' = limit
     THEN phase' = "breaking" /\ UNCHANGED outcome
     ELSE EndRound("ok")
  /\ UNCHANGED <<terms, able>>

\* Breaking may be given up before anything was sent to the portal; once a logout
\* was, a login follows.
Leave == phase = "breaking" /\ phase' = "leaving" /\ UNCHANGED <<terms, able, strikes, outcome>>
GiveUp == phase = "breaking" /\ EndRound("err") /\ UNCHANGED <<terms, able, strikes>>
Join == phase = "leaving" /\ phase' = "joining" /\ UNCHANGED <<terms, able, strikes, outcome>>

\* Strikes are answered by a login that works; one that fails leaves them as they are.
Joined == phase = "joining" /\ strikes' = 0 /\ EndRound("ok") /\ UNCHANGED <<terms, able>>
NotJoined == phase = "joining" /\ EndRound("err") /\ UNCHANGED <<terms, able, strikes>>

\* A daemon stops at start-up or between rounds, a single run may be killed anywhere.
Stop ==
  /\ IF mode = "daemon" THEN phase \in {"starting", "idle"} ELSE phase # "ended"
  /\ phase' = "ended"
  /\ UNCHANGED <<terms, able, strikes, outcome>>

Next ==
  \/ Start \/ Wake \/ Stop
  \/ Fine \/ Blind \/ Offline \/ Strike
  \/ Leave \/ GiveUp \/ Join \/ Joined \/ NotJoined

Spec == Init /\ [][Next]_vars
=============================================================================
