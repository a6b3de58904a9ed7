---------------------------- MODULE PortalClient ----------------------------
(***************************************************************************)
(* The portal client at work on one job (src/retry.go, src/srun.go): a     *)
(* list of exchanges, each sent by doWithRetry up to retryMax + 1 times    *)
(* with doubling pauses.  Every exchange must succeed (challenge, then     *)
(* login; fetch the agreement, then accept it) or any (the probe URLs).    *)
(* Login and logout run under context.Background(), probes under a context *)
(* that expires; each attempt is also bounded by the client's own timeout. *)
(*                                                                         *)
(* Time counts in ticks and passes only while the client waits.  A request *)
(* the client gave up may still reach the server, and within one attempt   *)
(* the transport below the client resends a GET whose reused connection    *)
(* dies before the answer.                                                 *)
(***************************************************************************)
EXTENDS Naturals

CONSTANT Jobs  \* the jobs considered

\* deadline 0: no deadline.  retryMax 0: doWithRetry's shortcut, one attempt.
\* gets: all exchanges up to it are GETs (the agreement is accepted by a POST).
\* idle: the idle connections an attempt may find and see die, at most 2 by default.
Job == [need : {"all", "any"}, exchanges : Nat \ {0}, retryMax : Nat, base : Nat,
        timeout : Nat \ {0}, deadline : Nat, gets : Nat, idle : Nat]
ASSUME JobsAssumption == Jobs \subseteq Job

VARIABLES
  job,       \* never changes
  phase,     \* "send", "flight", "backoff" or "done"
  step,      \* the exchange at hand
  attempt,   \* doWithRetry's attempt
  delay,     \* doWithRetry's delay
  now,       \* time since the job began
  since,     \* when this flight or pause began
  request,   \* the current attempt's request: "none", "sent" or "executed"
  late,      \* requests given up that the server may still carry out, by exchange
  sent,      \* history: requests sent, by exchange
  resent,    \* how often the transport has resent this attempt's request
  executed,  \* history: requests carried out, by exchange
  outcome,   \* "pending", "ok" or "failed"
  cause      \* history: what ended the last failed attempt

callVars == <<step, attempt, delay>>
timeVars == <<now, since>>
serverVars == <<late, executed>>
sentVars == <<sent, resent>>
vars == <<job, phase, callVars, timeVars, request, serverVars, sentVars, outcome, cause>>

Exchanges == 1..job.exchanges
Causes == {"none", "timeout", "deadline", "error"}

TypeOK ==
  /\ job \in Jobs
  /\ phase \in {"send", "flight", "backoff", "done"}
  /\ step \in Exchanges /\ attempt \in 0..job.retryMax /\ delay \in Nat
  /\ now \in Nat /\ since \in 0..now
  /\ request \in {"none", "sent", "executed"}
  /\ late \in [Exchanges -> Nat] /\ sent \in [Exchanges -> Nat]
  /\ executed \in [Exchanges -> Nat] /\ resent \in 0..job.idle
  /\ outcome \in {"pending", "ok", "failed"} /\ cause \in Causes

Init ==
  /\ job \in Jobs
  /\ phase = "send" /\ step = 1 /\ attempt = 0 /\ delay = job.base
  /\ now = 0 /\ since = 0 /\ request = "none"
  /\ late = [i \in Exchanges |-> 0] /\ sent = [i \in Exchanges |-> 0]
  /\ executed = [i \in Exchanges |-> 0] /\ resent = 0
  /\ outcome = "pending" /\ cause = "none"

----------------------------------------------------------------------------
(* Helpers *)

Expired == job.deadline > 0 /\ now >= job.deadline
TimedOut == phase = "flight" /\ now >= since + job.timeout
PauseOver == phase = "backoff" /\ now >= since + delay

\* The next exchange starts with a fresh doWithRetry.
NextExchange ==
  /\ phase' = "send" /\ step' = step + 1 /\ attempt' = 0 /\ delay' = job.base
  /\ UNCHANGED outcome
Finish(how) == phase' = "done" /\ outcome' = how /\ UNCHANGED callVars

\* An exchange succeeds: the job does, unless it needs them all.
ExchangeOK ==
  IF job.need = "all" /\ step < job.exchanges THEN NextExchange ELSE Finish("ok")

\* doWithRetry, or what its caller makes of the response, fails: the next probe
\* URL is tried, anything else gives up.
ExchangeFails_First == Finish("failed")
ExchangeFails ==
  IF job.need = "any" /\ step < job.exchanges THEN NextExchange ELSE Finish("failed")

\* The end of an attempt's request, whether the server saw it or not.
GiveUp(why) ==
  /\ request' = "none" /\ cause' = why
  /\ late' = IF request = "sent" THEN [late EXCEPT ![step] = @ + 1] ELSE late

\* The loop in doWithRetry, after an error isRetryable calls transient.
RetryOrFail_OneMore ==
  IF attempt <= job.retryMax
  THEN phase' = "backoff" /\ attempt' = attempt + 1 /\ since' = now
       /\ UNCHANGED <<step, delay, outcome>>
  ELSE ExchangeFails /\ UNCHANGED since
RetryOrFail ==
  IF attempt < job.retryMax
  THEN phase' = "backoff" /\ attempt' = attempt + 1 /\ since' = now
       /\ UNCHANGED <<step, delay, outcome>>
  ELSE ExchangeFails /\ UNCHANGED since

----------------------------------------------------------------------------
(* The client *)

\* factory() and http.Do, on a context that has not expired.
Send ==
  /\ phase = "send" /\ ~Expired
  /\ phase' = "flight" /\ request' = "sent" /\ since' = now
  /\ sent' = [sent EXCEPT ![step] = @ + 1] /\ resent' = 0
  /\ UNCHANGED <<job, callVars, now, serverVars, outcome, cause>>

\* On an expired one http.Do fails before anything is sent.
SendExpired ==
  /\ phase = "send" /\ Expired
  /\ ExchangeFails /\ cause' = "deadline"
  /\ UNCHANGED <<job, timeVars, request, serverVars, sentVars>>

\* http.Do sends a GET once more, in the same attempt and without telling, when an
\* idle connection it reused dies before the answer: the server may have carried it
\* out already, or do so later.
Resend ==
  /\ phase = "flight" /\ ~TimedOut /\ ~Expired
  /\ step <= job.gets /\ resent < job.idle
  /\ request' = "sent" /\ resent' = resent + 1
  /\ late' = IF request = "sent" THEN [late EXCEPT ![step] = @ + 1] ELSE late
  /\ sent' = [sent EXCEPT ![step] = @ + 1]
  /\ UNCHANGED <<job, phase, callVars, timeVars, executed, outcome, cause>>

\* The reply arrives, with a good status and a body that can be read and parsed.
Reply_Any ==
  /\ phase = "flight"
  /\ request' = "none" /\ ExchangeOK
  /\ UNCHANGED <<job, timeVars, serverVars, sentVars, cause>>
Reply ==
  /\ phase = "flight" /\ request = "executed"
  /\ request' = "none" /\ ExchangeOK
  /\ UNCHANGED <<job, timeVars, serverVars, sentVars, cause>>

\* A bad status, an unreadable body or no JSON: final, and the server, or a proxy
\* before it, may or may not have done what was asked.
BadReply ==
  /\ phase = "flight"
  /\ ExchangeFails /\ GiveUp("error")
  /\ UNCHANGED <<job, timeVars, executed, sentVars>>

\* A network error, transient to isRetryable or not.
TransientError ==
  /\ phase = "flight"
  /\ RetryOrFail /\ GiveUp("error")
  /\ UNCHANGED <<job, now, executed, sentVars>>
FinalError ==
  /\ phase = "flight"
  /\ ExchangeFails /\ GiveUp("error")
  /\ UNCHANGED <<job, timeVars, executed, sentVars>>

\* http.Client.Timeout.  Its error says Timeout(), and with newer Go versions also
\* that it is a DeadlineExceeded: isRetryable may call it transient or final.
ClientTimeout_Unset == FALSE
ClientTimeout ==
  /\ TimedOut
  /\ RetryOrFail \/ (ExchangeFails /\ UNCHANGED since)
  /\ GiveUp("timeout")
  /\ UNCHANGED <<job, now, executed, sentVars>>

\* The caller's context expires during a request: final.
FlightExpired ==
  /\ phase = "flight" /\ Expired
  /\ ExchangeFails /\ GiveUp("deadline")
  /\ UNCHANGED <<job, timeVars, executed, sentVars>>

\* The select between attempts: the pause ends, or the context does.
Resume_NoDoubling ==
  /\ PauseOver
  /\ phase' = "send"
  /\ UNCHANGED <<job, step, attempt, delay, timeVars, request, serverVars, sentVars, outcome, cause>>
Resume ==
  /\ PauseOver
  /\ phase' = "send" /\ delay' = 2 * delay
  /\ UNCHANGED <<job, step, attempt, timeVars, request, serverVars, sentVars, outcome, cause>>
PauseExpired ==
  /\ phase = "backoff" /\ Expired
  /\ ExchangeFails /\ cause' = "deadline"
  /\ UNCHANGED <<job, timeVars, request, serverVars, sentVars>>

----------------------------------------------------------------------------
(* The server and the clock *)

Serve ==
  /\ request = "sent"
  /\ request' = "executed"
  /\ executed' = [executed EXCEPT ![step] = @ + 1]
  /\ UNCHANGED <<job, phase, callVars, timeVars, late, sentVars, outcome, cause>>

ServeLate(i) ==
  /\ late[i] > 0
  /\ late' = [late EXCEPT ![i] = @ - 1]
  /\ executed' = [executed EXCEPT ![i] = @ + 1]
  /\ UNCHANGED <<job, phase, callVars, timeVars, request, sentVars, outcome, cause>>

\* Time passes while the client waits for a reply or between attempts, until a
\* timer it set is due: http.Do watches its context, the select both channels.
Watched == TimedOut \/ PauseOver \/ (phase \in {"flight", "backoff"} /\ Expired)
Tick ==
  /\ phase \in {"flight", "backoff"} /\ ~Watched
  /\ now' = now + 1
  /\ UNCHANGED <<job, phase, callVars, since, request, serverVars, sentVars, outcome, cause>>

----------------------------------------------------------------------------
(* The specification *)

Attempt == Send \/ SendExpired \/ Resend \/ Reply \/ BadReply \/ TransientError \/ FinalError
Timer == ClientTimeout \/ FlightExpired \/ Resume \/ PauseExpired
Server == Serve \/ \E i \in Exchanges : ServeLate(i)
Returned == phase = "done" /\ UNCHANGED vars

Next == Attempt \/ Timer \/ Server \/ Tick \/ Returned
Spec == Init /\ [][Next]_vars

\* The clock ticks and the client acts when a timer is due; nothing is asked of
\* the server or the network.
FairSpec == Spec /\ WF_vars(Tick) /\ WF_vars(Timer) /\ WF_vars(Send \/ SendExpired)

----------------------------------------------------------------------------
(* Properties *)

\* A probe that finds no URL reachable has asked every one of them at least once,
\* unless its context expired before it could (internetReachable, probeContext): one
\* dead or slow URL does not make the guard log in again.
VerdictIsEarned ==
  job.need = "any" /\ outcome = "failed" => Expired \/ \A i \in Exchanges : sent[i] > 0

\* A login has no deadline, but every attempt has the client's timeout and the
\* pauses double a bounded number of times (doWithRetry): it takes no longer than
\* all exchanges with all their attempts and pauses can.
ExchangeTime == (job.retryMax + 1) * job.timeout + job.base * (2 ^ job.retryMax - 1)
LoginEndsInTime == now <= job.exchanges * ExchangeTime

\* A success was earned, by the portal carrying out what the job needed, in order
\* (a login only with a challenge); and nothing is carried out more often than the
\* attempts of doWithRetry and the transport's resends allow, whether the client got
\* the answer, gave up or has long returned.
Terms == [exchanges |-> job.exchanges, all |-> job.need = "all",
          limit |-> (job.retryMax + 1) * (job.idle + 1)]
Promise == INSTANCE Exchange WITH terms <- Terms
KeepsPromise == Promise!Spec

\* Every job returns, whatever the server and the network do.
Returns == <>(phase = "done")

\* Before attempt n + 1 of an exchange the client has paused base * 2^(n-1) ticks,
\* however long the attempts took and however many exchanges came before.
PausesDouble ==
  [][phase = "backoff" /\ phase' = "send" /\ step' = step
     => now - since >= job.base * 2 ^ (attempt - 1)]_vars

----------------------------------------------------------------------------
(* What the documents say and the code does not do *)

\* README.md:174: the probe timeout does not depend on the login timeout.
ProbeTimeoutIndependent == job.deadline > 0 => cause # "timeout"
=============================================================================
