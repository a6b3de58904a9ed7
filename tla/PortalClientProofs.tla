------------------------- MODULE PortalClientProofs -------------------------
(***************************************************************************)
(* Theorems about PortalClient, for every set of jobs: any number of       *)
(* exchanges and retries, any pauses, timeouts and deadlines.              *)
(***************************************************************************)
EXTENDS PortalClient, DataLemmas, TLAPS

\* A job's parameters have their types.
LEMMA JobTypes ==
  ASSUME job \in Jobs
  PROVE  /\ job.need \in {"all", "any"}
         /\ job.exchanges \in Nat \ {0}
         /\ job.retryMax \in Nat /\ job.base \in Nat
         /\ job.timeout \in Nat \ {0} /\ job.deadline \in Nat
         /\ job.gets \in Nat /\ job.idle \in Nat
BY JobsAssumption DEF Job

\* The initial state of a job has the right types.
LEMMA TypeInit == Init => TypeOK
BY JobTypes DEF Init, TypeOK, Exchanges, Causes

\* What ends an attempt leaves the exchange, the attempt and the pause in range.
LEMMA CallTypes ==
  ASSUME TypeOK, UNCHANGED job,
         \/ ExchangeOK
         \/ ExchangeFails
         \/ RetryOrFail
  PROVE  /\ phase' \in {"send", "backoff", "done"}
         /\ step' \in Exchanges /\ attempt' \in 0..job.retryMax /\ delay' \in Nat
         /\ outcome' \in {"pending", "ok", "failed"}
<1>. USE JobTypes DEF TypeOK, Exchanges
<1>1. CASE step < job.exchanges /\ NextExchange
  BY <1>1 DEF NextExchange
<1>2. CASE Finish("ok") \/ Finish("failed")
  BY <1>2 DEF Finish, callVars
<1>3. CASE attempt < job.retryMax /\ RetryOrFail
  BY <1>3 DEF RetryOrFail
<1>. QED
  BY <1>1, <1>2, <1>3 DEF ExchangeOK, ExchangeFails, RetryOrFail

\* Giving a request up keeps the counters' types.
LEMMA GiveUpTypes ==
  ASSUME TypeOK, NEW why \in Causes, GiveUp(why)
  PROVE  request' \in {"none", "sent", "executed"} /\ late' \in [Exchanges -> Nat] /\ cause' \in Causes
BY DEF TypeOK, GiveUp, Exchanges

\* Every step of client, server and clock keeps the types.
LEMMA TypeStep == TypeOK /\ [Next]_vars => TypeOK'
<1>. SUFFICES ASSUME TypeOK, [Next]_vars PROVE TypeOK'
  OBVIOUS
<1>. USE JobTypes
<1>1. CASE Send
  <2>1. sent' \in [Exchanges -> Nat]
    BY <1>1 DEF Send, TypeOK
  <2>. QED
    BY <1>1, <2>1 DEF Send, TypeOK, Exchanges, callVars, serverVars
<1>2. CASE SendExpired
  BY <1>2, CallTypes DEF SendExpired, TypeOK, Exchanges, Causes, timeVars, serverVars, sentVars
<1>3. CASE Reply
  BY <1>3, CallTypes DEF Reply, TypeOK, Exchanges, timeVars, serverVars, sentVars
<1>4. CASE BadReply
  BY <1>4, CallTypes, GiveUpTypes DEF BadReply, TypeOK, Exchanges, Causes, timeVars, sentVars
<1>5. CASE TransientError
  <2>1. since' \in 0..now'
    BY <1>5 DEF TransientError, RetryOrFail, TypeOK
  <2>. QED
    BY <1>5, <2>1, CallTypes, GiveUpTypes DEF TransientError, TypeOK, Exchanges, Causes, sentVars
<1>6. CASE FinalError
  BY <1>6, CallTypes, GiveUpTypes DEF FinalError, TypeOK, Exchanges, Causes, timeVars, sentVars
<1>7. CASE ClientTimeout
  <2>1. since' \in 0..now'
    BY <1>7 DEF ClientTimeout, RetryOrFail, TypeOK
  <2>. QED
    BY <1>7, <2>1, CallTypes, GiveUpTypes DEF ClientTimeout, TypeOK, Exchanges, Causes, sentVars
<1>8. CASE FlightExpired
  BY <1>8, CallTypes, GiveUpTypes DEF FlightExpired, TypeOK, Exchanges, Causes, timeVars, sentVars
<1>9. CASE Resume
  BY <1>9 DEF Resume, TypeOK, Exchanges, timeVars, serverVars, sentVars
<1>10. CASE PauseExpired
  BY <1>10, CallTypes DEF PauseExpired, TypeOK, Exchanges, Causes, timeVars, serverVars, sentVars
<1>11. CASE Serve
  BY <1>11 DEF Serve, TypeOK, Exchanges, callVars, timeVars, sentVars
<1>12. ASSUME NEW i \in Exchanges, ServeLate(i) PROVE TypeOK'
  <2>1. late' \in [Exchanges -> Nat] /\ executed' \in [Exchanges -> Nat]
    BY <1>12 DEF ServeLate, TypeOK
  <2>. QED
    BY <1>12, <2>1 DEF ServeLate, TypeOK, Exchanges, callVars, timeVars, sentVars
<1>13. CASE Tick
  BY <1>13 DEF Tick, TypeOK, Exchanges, callVars, serverVars, sentVars
<1>14. CASE UNCHANGED vars
  BY <1>14 DEF TypeOK, Exchanges, vars, callVars, timeVars, serverVars, sentVars
<1>15. CASE Resend
  <2>1. sent' \in [Exchanges -> Nat] /\ late' \in [Exchanges -> Nat]
    BY <1>15 DEF Resend, TypeOK
  <2>2. resent' \in 0..job.idle
    BY <1>15 DEF Resend, TypeOK
  <2>. QED
    BY <1>15, <2>1, <2>2 DEF Resend, TypeOK, Exchanges, callVars, timeVars
<1>. QED
  BY <1>1, <1>2, <1>3, <1>4, <1>5, <1>6, <1>7, <1>8, <1>9, <1>10, <1>11, <1>12, <1>13, <1>14, <1>15
     DEF Next, Attempt, Timer, Server, Returned

\* The variables of the client keep their types (portalClient.doWithRetry).
THEOREM TypeCorrect == Spec => []TypeOK
<1>1. Init => TypeOK
  BY TypeInit
<1>2. TypeOK /\ [Next]_vars => TypeOK'
  BY TypeStep
<1>. QED
  BY <1>1, <1>2, PTL DEF Spec

----------------------------------------------------------------------------
(* The verdict of a probe *)

\* Unless the context has expired, every exchange before this one was tried, this one
\* too if an attempt has begun, and all of them if a probe has failed.
Tried ==
  ~Expired =>
    /\ \A i \in Exchanges : i < step => sent[i] > 0
    /\ phase \in {"flight", "backoff"} => sent[step] > 0
    /\ job.need = "any" /\ outcome = "failed" => \A i \in Exchanges : sent[i] > 0

\* What has expired stays so, and what was sent stays sent.
LEMMA Lasting ==
  ASSUME TypeOK, [Next]_vars
  PROVE  /\ UNCHANGED job /\ (Expired => Expired')
         /\ \A i \in Exchanges : sent[i] > 0 => sent'[i] > 0
<1>. USE JobTypes DEF TypeOK
<1>1. UNCHANGED job
  BY DEF Next, Attempt, Timer, Server, Returned, Send, SendExpired, Resend, Reply, BadReply,
     TransientError, FinalError, ClientTimeout, FlightExpired, Resume, PauseExpired, Serve,
     ServeLate, Tick, vars
<1>2. now' = now \/ now' = now + 1
  BY DEF Next, Attempt, Timer, Server, Returned, Send, SendExpired, Resend, Reply, BadReply,
     TransientError, FinalError, ClientTimeout, FlightExpired, Resume, PauseExpired, Serve,
     ServeLate, Tick, vars, timeVars
<1>3. sent' = sent \/ sent' = [sent EXCEPT ![step] = @ + 1]
  BY DEF Next, Attempt, Timer, Server, Returned, Send, SendExpired, Resend, Reply, BadReply,
     TransientError, FinalError, ClientTimeout, FlightExpired, Resume, PauseExpired, Serve,
     ServeLate, Tick, vars, sentVars
<1>4. Expired => Expired'
  BY <1>1, <1>2 DEF Expired
<1>5. ASSUME NEW i \in Exchanges, sent[i] > 0 PROVE sent'[i] > 0
  BY <1>3, <1>5
<1>. QED
  BY <1>1, <1>4, <1>5

\* An exchange whose request was sent ends, or is tried again.
LEMMA TriedStep ==
  ASSUME TypeOK, Tried, [Next]_vars, phase = "flight", UNCHANGED job,
         (ExchangeOK /\ request = "executed") \/ ExchangeFails \/ RetryOrFail
  PROVE  Tried'
<1>. SUFFICES ASSUME ~Expired'
              PROVE  /\ \A i \in Exchanges : i < step' => sent'[i] > 0
                     /\ phase' \in {"flight", "backoff"} => sent'[step'] > 0
                     /\ job.need = "any" /\ outcome' = "failed" => \A i \in Exchanges : sent'[i] > 0
  BY DEF Tried, Exchanges
<1>. USE JobTypes
<1>1. ~Expired /\ \A i \in Exchanges : sent[i] > 0 => sent'[i] > 0
  BY Lasting
<1>2. step \in Exchanges /\ \A i \in Exchanges : i <= step => sent'[i] > 0
  BY <1>1 DEF Tried, TypeOK, Exchanges
<1>3. job.need = "any" /\ outcome = "failed" => \A i \in Exchanges : sent'[i] > 0
  BY <1>1 DEF Tried
<1>4. CASE NextExchange
  <2>1. \A i \in Exchanges : i < step' => i <= step
    BY <1>2, <1>4 DEF NextExchange, Exchanges
  <2>. QED
    BY <1>2, <1>3, <1>4, <2>1 DEF NextExchange
<1>5. CASE Finish("ok")
  BY <1>2, <1>5 DEF Finish, callVars, Exchanges
<1>6. CASE Finish("failed") /\ ~(job.need = "any" /\ step < job.exchanges)
  <2>1. step \in Nat /\ (step < job.exchanges \/ \A i \in Exchanges : i <= step)
    BY <1>2 DEF Exchanges, TypeOK
  <2>2. phase' = "done" /\ step' = step
    BY <1>6 DEF Finish, callVars
  <2>3. \A i \in Exchanges : i < step => i <= step
    BY <2>1 DEF Exchanges
  <2>. QED
    BY <1>2, <1>6, <2>1, <2>2, <2>3
<1>7. CASE phase' = "backoff" /\ UNCHANGED <<step, outcome>>
  BY <1>2, <1>3, <1>7 DEF Exchanges
<1>. QED
  BY <1>4, <1>5, <1>6, <1>7 DEF ExchangeOK, ExchangeFails, RetryOrFail

\* A probe that finds nothing reachable has asked every URL, or its time was up
\* (internetReachable, doWithRetry, probeContext).
THEOREM VerdictsEarned == Spec => []VerdictIsEarned
<1>1. Init => Tried
  BY JobTypes DEF Init, Tried, Exchanges
<1>2. TypeOK /\ Tried /\ [Next]_vars => Tried'
  <2>. SUFFICES ASSUME TypeOK, Tried, [Next]_vars PROVE Tried'
    OBVIOUS
  <2>0. /\ UNCHANGED job /\ (Expired => Expired')
        /\ \A i \in Exchanges : sent[i] > 0 => sent'[i] > 0
    BY Lasting
  <2>1. CASE Send
    BY <2>0, <2>1, JobTypes DEF Send, Tried, TypeOK, Exchanges, callVars
  <2>2. CASE SendExpired \/ PauseExpired \/ FlightExpired
    BY <2>0, <2>2 DEF SendExpired, PauseExpired, FlightExpired, Tried
  <2>3. CASE Reply \/ BadReply \/ TransientError \/ FinalError \/ ClientTimeout
    BY <2>0, <2>3, TriedStep
       DEF Reply, BadReply, TransientError, FinalError, ClientTimeout, TimedOut
  <2>4. CASE Resend \/ Serve \/ Tick \/ (\E i \in Exchanges : ServeLate(i)) \/ UNCHANGED vars
    <3>1. UNCHANGED <<phase, step, outcome>>
      BY <2>4 DEF Resend, Serve, Tick, ServeLate, vars, callVars
    <3>2. step \in Exchanges /\ Exchanges' = Exchanges
      BY <2>0 DEF TypeOK, Exchanges
    <3>. QED
      BY <2>0, <3>1, <3>2 DEF Tried
  <2>5. CASE Resume
    BY <2>0, <2>5 DEF Resume, Tried, Exchanges
  <2>. QED
    BY <2>1, <2>2, <2>3, <2>4, <2>5 DEF Next, Attempt, Timer, Server, Returned
<1>3. Tried => VerdictIsEarned
  BY DEF Tried, VerdictIsEarned
<1>. QED
  BY <1>1, <1>2, <1>3, TypeCorrect, PTL DEF Spec

----------------------------------------------------------------------------
(* The promise *)

\* A flight has a request, and nothing else has; a job that is done has an outcome.
Phases ==
  /\ request # "none" <=> phase = "flight"
  /\ outcome = "pending" <=> phase # "done"

\* What n attempts may send.
Most(n) == n * (job.idle + 1)

\* What is carried out or still may be was sent, and each attempt sends once, and again
\* for every idle connection that died.
InFlight(i) == IF request = "sent" /\ i = step THEN 1 ELSE 0
Begun == IF phase \in {"send", "backoff"} THEN 0 ELSE resent + 1
Counted(i) ==
  /\ executed[i] + late[i] + InFlight(i) <= sent[i]
  /\ i < step => sent[i] <= Most(job.retryMax + 1)
  /\ i = step => sent[i] <= Most(attempt) + Begun
  /\ i > step => sent[i] = 0
Conserved == \A i \in Exchanges : Counted(i)

\* The client moves on with answers only.
Answered ==
  /\ request = "executed" => executed[step] > 0
  /\ job.need = "all" => \A i \in Exchanges : i < step => executed[i] > 0

Inv == TypeOK /\ Phases /\ Conserved /\ Answered

\* The numbers the count speaks about.
LEMMA Numbers ==
  ASSUME TypeOK, NEW i \in Exchanges
  PROVE  /\ i \in Nat /\ step \in Nat /\ attempt \in Nat
         /\ job.retryMax \in Nat /\ attempt <= job.retryMax
         /\ executed[i] \in Nat /\ late[i] \in Nat /\ sent[i] \in Nat
         /\ resent \in Nat /\ job.idle \in Nat /\ resent <= job.idle
BY JobTypes DEF TypeOK, Exchanges

\* What an attempt may send fits into what all of them may.
LEMMA MostGrows ==
  ASSUME TypeOK
  PROVE  /\ Most(0) = 0 /\ Most(attempt) \in Nat
         /\ Most(attempt + 1) = Most(attempt) + job.idle + 1
         /\ Most(job.retryMax + 1) \in Nat /\ Most(attempt + 1) <= Most(job.retryMax + 1)
<1>1. attempt \in Nat /\ job.retryMax + 1 \in Nat /\ attempt + 1 \in Nat
      /\ attempt + 1 <= job.retryMax + 1 /\ job.idle \in Nat
  BY JobTypes DEF TypeOK
<1> DEFINE z == job.idle + 1
<1>2. z \in Nat /\ z = job.idle + 1
  BY <1>1
<1>. HIDE DEF z
<1>3. 0 * z = 0
  BY <1>2
<1>4. attempt * z \in Nat /\ (attempt + 1) * z = attempt * z + z
      /\ (job.retryMax + 1) * z \in Nat /\ (attempt + 1) * z <= (job.retryMax + 1) * z
  BY <1>1, <1>2, Products, Zenon
<1>5. /\ Most(0) = 0 * z /\ Most(attempt) = attempt * z
      /\ Most(attempt + 1) = (attempt + 1) * z /\ Most(job.retryMax + 1) = (job.retryMax + 1) * z
  BY DEF Most, z
<1>. QED
  BY <1>1, <1>2, <1>3, <1>4, <1>5

\* Nothing was sent, carried out or answered initially.
LEMMA InvInit == Init => Inv
<1>. SUFFICES ASSUME Init PROVE Inv
  OBVIOUS
<1>1. TypeOK
  BY TypeInit
<1>2. Phases /\ Answered
  BY JobTypes DEF Init, Phases, Answered, Exchanges
<1>3. Conserved
  <2>1. Most(attempt) = 0
    BY <1>1, MostGrows DEF Init
  <2>. QED
    BY <2>1, JobTypes DEF Init, Conserved, Counted, InFlight, Begun, Exchanges
<1>. QED
  BY <1>1, <1>2, <1>3 DEF Inv

\* The end of an attempt, with or without an answer, counts it.
LEMMA EndCounted ==
  ASSUME Inv, TypeOK', NEW i \in Exchanges, ExchangeOK \/ ExchangeFails \/ RetryOrFail,
         UNCHANGED <<job, executed, sentVars>>,
         executed[i] + late'[i] <= sent[i], request' = "none", phase # "done"
  PROVE  Counted(i)'
<1>. USE Numbers, MostGrows DEF Inv
<1>1. UNCHANGED <<job, executed, sent, resent>> /\ \A n : UNCHANGED Most(n)
  BY DEF sentVars, Most
<1>2. /\ i < step => sent[i] <= Most(job.retryMax + 1)
      /\ i = step => sent[i] <= Most(attempt) + Begun /\ sent[i] <= Most(attempt + 1)
      /\ i > step => sent[i] = 0
  BY DEF Conserved, Counted, Begun
<1>3. (executed[i] + late[i] + InFlight(i))' <= sent'[i]
  BY <1>1 DEF InFlight, TypeOK
<1>4. CASE NextExchange
  <2>1. step' = step + 1 /\ sent'[i] = sent[i] /\ i \in Nat /\ step \in Nat
    BY <1>1, <1>4 DEF NextExchange
  <2>2. Most(job.retryMax + 1)' = Most(job.retryMax + 1) /\ Most(attempt)' = 0 /\ Begun' = 0
    BY <1>1, <1>4 DEF NextExchange, Begun
  <2>3. /\ i < step' => i <= step
        /\ i = step' => i > step
        /\ i > step' => i > step
    BY <2>1
  <2>4. sent[i] <= Most(job.retryMax + 1) \/ i > step
    BY <1>2, <2>1
  <2>. QED
    BY <1>2, <1>3, <2>1, <2>2, <2>3, <2>4 DEF Counted
<1>5. CASE phase' = "done" /\ UNCHANGED callVars
  <2>1. step' = step /\ attempt' = attempt /\ Begun' = resent + 1
    BY <1>1, <1>5 DEF callVars, Begun
  <2>2. Most(attempt)' = Most(attempt) /\ Begun <= resent + 1 /\ Begun \in Nat
    BY <1>1, <2>1 DEF Begun
  <2>. QED
    BY <1>1, <1>2, <1>3, <2>1, <2>2 DEF Counted
<1>6. CASE phase' = "backoff" /\ attempt' = attempt + 1 /\ UNCHANGED step
  <2>1. step' = step /\ Begun' = 0
    BY <1>6 DEF Begun
  <2>2. Most(attempt)' = Most(attempt + 1)
    BY <1>1, <1>6
  <2>. QED
    BY <1>1, <1>2, <1>3, <2>1, <2>2 DEF Counted
<1>. QED
  BY <1>4, <1>5, <1>6 DEF ExchangeOK, ExchangeFails, RetryOrFail, Finish

\* An attempt that ends without an answer moves a request the server has not
\* carried out to the late ones, and counts an attempt before the next is sent.
LEMMA FailureStep ==
  ASSUME Inv, TypeOK', NEW why, GiveUp(why), phase = "flight",
         RetryOrFail \/ ExchangeFails,
         UNCHANGED <<job, executed, sentVars>>
  PROVE  Inv'
<1>. USE JobTypes
<1>1. Phases'
  BY DEF Inv, Phases, TypeOK, GiveUp, RetryOrFail, ExchangeFails, NextExchange, Finish
<1>2. Answered'
  BY DEF Inv, Phases, Answered, TypeOK, GiveUp, RetryOrFail, ExchangeFails, NextExchange, Finish,
         callVars, Exchanges
<1>3. ASSUME NEW i \in Exchanges PROVE Counted(i)'
  <2>1. late \in [Exchanges -> Nat] /\ request' = "none"
    BY DEF Inv, TypeOK, GiveUp
  <2>2. late'[i] = late[i] + InFlight(i)
    BY <2>1, Numbers DEF Inv, GiveUp, InFlight
  <2>3. executed[i] + late'[i] <= sent[i]
    BY <2>2, Numbers DEF Inv, Conserved, Counted, InFlight
  <2>. QED
    BY <2>1, <2>3, EndCounted
<1>. QED
  BY <1>1, <1>2, <1>3 DEF Inv, Conserved, Exchanges

\* An expired context ends an exchange before its next request.
LEMMA ExpiredStep ==
  ASSUME Inv, TypeOK', ExchangeFails, phase \in {"send", "backoff"},
         UNCHANGED <<job, request, late, executed, sentVars>>
  PROVE  Inv'
<1>. USE JobTypes
<1>1. request = "none"
  BY DEF Inv, Phases, TypeOK
<1>2. Phases'
  BY <1>1 DEF Inv, Phases, TypeOK, ExchangeFails, NextExchange, Finish
<1>3. Answered'
  BY <1>1 DEF Inv, Answered, TypeOK, ExchangeFails, NextExchange, Finish, callVars, Exchanges
<1>4. ASSUME NEW i \in Exchanges PROVE Counted(i)'
  <2>1. executed[i] + late'[i] <= sent[i]
    BY <1>1, Numbers DEF Inv, Conserved, Counted, InFlight
  <2>. QED
    BY <1>1, <2>1, EndCounted
<1>. QED
  BY <1>2, <1>3, <1>4 DEF Inv, Conserved, Exchanges

\* A request is sent, by the client or once more by the transport.
LEMMA SendStep ==
  ASSUME Inv, TypeOK', Send \/ Resend
  PROVE  Inv'
<1>. USE JobTypes
<1>0. TypeOK /\ step \in Exchanges /\ Exchanges' = Exchanges
      /\ UNCHANGED <<job, step, attempt, executed>> /\ request' = "sent" /\ phase' = "flight"
  BY DEF Inv, TypeOK, Send, Resend, callVars, serverVars, Exchanges
<1>1. Phases' /\ Answered'
  BY <1>0 DEF Send, Resend, Inv, Phases, Answered
<1>2. ASSUME NEW i \in Exchanges PROVE Counted(i)'
  <2>1. /\ late'[i] = late[i] + InFlight(i)
        /\ sent'[i] = IF i = step THEN sent[i] + 1 ELSE sent[i]
    <3>1. CASE Send
      BY <1>0, <3>1, Numbers DEF Send, serverVars, Inv, Phases, InFlight, TypeOK
    <3>2. CASE Resend
      BY <1>0, <3>2, Numbers DEF Resend, InFlight, TypeOK
    <3>. QED
      BY <3>1, <3>2
  <2>2. Begun' = Begun + 1 /\ Begun \in Nat
    BY <1>0, Numbers DEF Send, Resend, Begun
  <2>3. \A n : UNCHANGED Most(n)
    BY <1>0 DEF Most
  <2>4. Most(attempt)' = Most(attempt) /\ Most(job.retryMax + 1)' = Most(job.retryMax + 1)
    BY <1>0, <2>3
  <2>5. (InFlight(i))' = IF i = step THEN 1 ELSE 0
    BY <1>0 DEF InFlight
  <2>6. /\ executed[i] + late[i] + InFlight(i) <= sent[i] /\ InFlight(i) \in Nat
        /\ i < step => sent[i] <= Most(job.retryMax + 1)
        /\ i = step => sent[i] <= Most(attempt) + Begun
        /\ i > step => sent[i] = 0
    BY DEF Inv, Conserved, Counted, InFlight
  <2>. QED
    BY <1>0, <2>1, <2>2, <2>4, <2>5, <2>6, Numbers, MostGrows DEF Counted
<1>. QED
  BY <1>0, <1>1, <1>2 DEF Inv, Conserved

\* A step that sends nothing and keeps the exchange and the attempt keeps the bounds.
LEMMA BoundsKept ==
  ASSUME Inv, NEW i \in Exchanges, UNCHANGED <<job, sent, resent, step, attempt, Begun>>
  PROVE  /\ i < step' => sent'[i] <= Most(job.retryMax + 1)'
         /\ i = step' => sent'[i] <= Most(attempt)' + Begun'
         /\ i > step' => sent'[i] = 0
<1>1. \A n : UNCHANGED Most(n)
  BY DEF Most
<1>2. Most(attempt)' = Most(attempt) /\ Most(job.retryMax + 1)' = Most(job.retryMax + 1)
  BY <1>1
<1>. QED
  BY <1>2 DEF Inv, Conserved, Counted

\* Every step keeps the count of requests.
LEMMA InvStep == Inv /\ [Next]_vars => Inv'
<1>. SUFFICES ASSUME Inv, [Next]_vars PROVE Inv'
  OBVIOUS
<1>. USE JobTypes
<1>0. TypeOK /\ TypeOK'
  BY TypeStep DEF Inv
<1>1. CASE Send \/ Resend
  BY <1>0, <1>1, SendStep
<1>2. CASE SendExpired
  BY <1>0, <1>2, ExpiredStep DEF SendExpired, serverVars
<1>3. CASE Reply
  <2>. USE <1>0, <1>3 DEF Reply, ExchangeOK, NextExchange, Finish, callVars, serverVars
  <2>1. Phases'
    BY DEF Inv, Phases, TypeOK
  <2>2. Answered'
    BY DEF Inv, Answered, TypeOK, Exchanges
  <2>3. ASSUME NEW i \in Exchanges PROVE Counted(i)'
    <3>1. executed[i] + late'[i] <= sent[i]
      BY Numbers DEF Inv, Conserved, Counted, InFlight
    <3>. QED
      BY <3>1, EndCounted
  <2>. QED
    BY <2>1, <2>2, <2>3 DEF Inv, Conserved, Exchanges
<1>4. CASE BadReply
  BY <1>0, <1>4, FailureStep DEF BadReply
<1>5. CASE TransientError
  BY <1>0, <1>5, FailureStep DEF TransientError
<1>6. CASE FinalError
  BY <1>0, <1>6, FailureStep DEF FinalError
<1>7. CASE ClientTimeout
  BY <1>0, <1>7, FailureStep DEF ClientTimeout, TimedOut
<1>8. CASE FlightExpired
  BY <1>0, <1>8, FailureStep DEF FlightExpired
<1>9. CASE PauseExpired
  BY <1>0, <1>9, ExpiredStep DEF PauseExpired, serverVars
<1>10. CASE Resume \/ Tick \/ UNCHANGED vars
  <2>1. /\ UNCHANGED <<job, step, attempt, request, late, executed, sent, resent, outcome>>
        /\ phase' = phase \/ (phase = "backoff" /\ phase' = "send")
    BY <1>10 DEF Resume, PauseOver, Tick, vars, callVars, serverVars, sentVars
  <2>2. UNCHANGED <<Begun, Exchanges>> /\ Phases' /\ Answered'
    BY <2>1 DEF Begun, Exchanges, Inv, Phases, Answered
  <2>3. ASSUME NEW i \in Exchanges PROVE Counted(i)'
    BY <2>1, <2>2, BoundsKept DEF Counted, Inv, Conserved, InFlight
  <2>. QED
    BY <1>0, <2>2, <2>3 DEF Inv, Conserved
<1>11. CASE Serve
  <2>. USE <1>0, <1>11 DEF Serve, callVars, sentVars
  <2>0. /\ step \in Exchanges /\ executed \in [Exchanges -> Nat] /\ Exchanges' = Exchanges
        /\ \A i \in Exchanges : executed'[i] = IF i = step THEN executed[i] + 1 ELSE executed[i]
    BY DEF TypeOK, Exchanges
  <2>1. Phases' /\ Answered'
    <3>1. Phases'
      BY DEF Inv, Phases
    <3>2. \A i \in Exchanges : executed[i] > 0 => executed'[i] > 0
      BY <2>0, Numbers
    <3>3. executed'[step] > 0
      BY <2>0, Numbers
    <3>. QED
      BY <2>0, <3>1, <3>2, <3>3 DEF Inv, Answered
  <2>2. ASSUME NEW i \in Exchanges PROVE Counted(i)'
    <3>1. UNCHANGED <<job, sent, resent, step, attempt, Begun>>
      BY DEF Begun
    <3>2. (executed[i] + late[i] + InFlight(i))' <= sent'[i]
      BY <2>0, Numbers DEF Inv, Conserved, Counted, InFlight
    <3>. QED
      BY <3>1, <3>2, BoundsKept DEF Counted
  <2>. QED
    BY <2>0, <2>1, <2>2 DEF Inv, Conserved
<1>12. ASSUME NEW i \in Exchanges, ServeLate(i) PROVE Inv'
  <2>. USE <1>0, <1>12 DEF ServeLate, callVars, sentVars
  <2>0. /\ executed \in [Exchanges -> Nat] /\ late \in [Exchanges -> Nat] /\ Exchanges' = Exchanges
        /\ \A j \in Exchanges :
             /\ executed'[j] = IF i = j THEN executed[j] + 1 ELSE executed[j]
             /\ late'[j] = IF i = j THEN late[j] - 1 ELSE late[j]
    BY DEF TypeOK, Exchanges
  <2>1. Phases' /\ Answered'
    <3>1. Phases'
      BY DEF Inv, Phases
    <3>2. \A j \in Exchanges : executed[j] > 0 => executed'[j] > 0
      BY <2>0, Numbers
    <3>3. step \in Exchanges
      BY DEF TypeOK
    <3>. QED
      BY <2>0, <3>1, <3>2, <3>3 DEF Inv, Answered
  <2>2. ASSUME NEW j \in Exchanges PROVE Counted(j)'
    <3>1. UNCHANGED <<job, sent, resent, step, attempt, Begun>>
      BY DEF Begun
    <3>2. (executed[j] + late[j] + InFlight(j))' <= sent'[j]
      BY <2>0, Numbers DEF Inv, Conserved, Counted, InFlight
    <3>. QED
      BY <3>1, <3>2, BoundsKept DEF Counted
  <2>. QED
    BY <2>0, <2>1, <2>2 DEF Inv, Conserved
<1>. QED
  BY <1>1, <1>2, <1>3, <1>4, <1>5, <1>6, <1>7, <1>8, <1>9, <1>10, <1>11, <1>12
     DEF Next, Attempt, Timer, Server, Returned

\* No request is unaccounted for, in any reachable state.
LEMMA Invariance == Spec => []Inv
<1>1. Init => Inv
  BY InvInit
<1>2. Inv /\ [Next]_vars => Inv'
  BY InvStep
<1>. QED
  BY <1>1, <1>2, PTL DEF Spec

\* A failed exchange is a failure of the job or nothing the caller sees yet.
LEMMA FailuresMap ==
  ASSUME Inv, phase # "done", RetryOrFail \/ ExchangeFails, UNCHANGED <<job, executed>>
  PROVE  Promise!Fail \/ UNCHANGED <<Terms, executed, outcome>>
BY DEF Inv, Phases, RetryOrFail, ExchangeFails, NextExchange, Finish, Promise!Fail, Terms

\* A request is carried out only as often as it may be, and in order.
LEMMA ServesMap ==
  ASSUME Inv, NEW i \in Exchanges, executed' = [executed EXCEPT ![i] = @ + 1],
         late[i] > 0 \/ (request = "sent" /\ i = step),
         UNCHANGED <<job, outcome>>
  PROVE  Promise!Execute(i)
<1>. USE JobTypes
<1>0. Promise!Exchanges = Exchanges
  BY DEF Promise!Exchanges, Exchanges, Terms
<1>1. executed[i] < Terms.limit /\ i <= step
  <2>1. executed[i] + late[i] + InFlight(i) <= sent[i]
    BY DEF Inv, Conserved, Counted
  <2>2. executed[i] < sent[i]
    BY <2>1, Numbers DEF Inv, InFlight
  <2>3. /\ i < step => sent[i] <= Most(job.retryMax + 1)
        /\ i = step => sent[i] <= Most(attempt) + Begun
        /\ i > step => sent[i] = 0
    BY DEF Inv, Conserved, Counted
  <2>4. Terms.limit = Most(job.retryMax + 1)
    BY DEF Terms, Most
  <2>5. Begun \in Nat /\ Begun <= job.idle + 1
    BY Numbers DEF Inv, Begun
  <2>. QED
    BY <2>2, <2>3, <2>4, <2>5, Numbers, MostGrows DEF Inv
<1>2. Terms.all => \A j \in Promise!Exchanges : j < i => j \in Promise!Done
  <2>. SUFFICES ASSUME Terms.all, NEW j \in Exchanges, j < i PROVE executed[j] > 0
    BY <1>0 DEF Promise!Done
  <2>1. j < step
    BY <1>1, Numbers DEF Inv
  <2>. QED
    BY <2>1 DEF Inv, Answered, Terms
<1>. QED
  BY <1>1, <1>2 DEF Promise!Execute, Terms

\* An answer to the last exchange needed is a success that was earned.
LEMMA RepliesMap ==
  ASSUME Inv, Reply
  PROVE  Promise!Succeed \/ UNCHANGED <<Terms, executed, outcome>>
<1>. USE JobTypes DEF Reply, ExchangeOK, NextExchange, Finish, serverVars, Terms
<1>1. CASE job.need = "all" /\ step < job.exchanges
  BY <1>1
<1>2. CASE job.need = "all" /\ ~(step < job.exchanges)
  <2>1. step = job.exchanges
    BY <1>2 DEF Inv, TypeOK, Exchanges
  <2>2. Promise!Done = Promise!Exchanges
    BY <1>2, <2>1 DEF Inv, TypeOK, Answered, Exchanges, Promise!Done, Promise!Exchanges
  <2>. QED
    BY <1>2, <2>2 DEF Inv, Phases, Promise!Succeed
<1>3. CASE job.need # "all"
  <2>1. step \in Promise!Done
    BY DEF Inv, TypeOK, Answered, Exchanges, Promise!Done, Promise!Exchanges
  <2>. QED
    BY <1>3, <2>1 DEF Inv, Phases, Promise!Succeed
<1>. QED
  BY <1>1, <1>2, <1>3

\* The client keeps the promise of module Exchange to the guard: it implements the
\* abstract job, with no more executions of an exchange than doWithRetry's attempts
\* and the transport's resends can make, and no success that was not earned.
THEOREM PromiseKept == Spec => KeepsPromise
<1>1. Init => Promise!Init
  <2>. SUFFICES ASSUME Init PROVE Promise!Init
    OBVIOUS
  <2>1. (job.retryMax + 1) * (job.idle + 1) \in Nat
    BY TypeInit, MostGrows DEF Most
  <2>2. Terms \in Promise!Terms
    BY <2>1, JobTypes DEF Init, Terms, Promise!Terms
  <2>. QED
    BY <2>2 DEF Init, Promise!Init, Terms, Promise!Exchanges, Exchanges
<1>2. Inv /\ [Next]_vars => [Promise!Next]_<<Terms, executed, outcome>>
  <2>. SUFFICES ASSUME Inv, [Next]_vars
                PROVE  Promise!Next \/ UNCHANGED <<Terms, executed, outcome>>
    OBVIOUS
  <2>1. CASE SendExpired \/ PauseExpired
    BY <2>1, FailuresMap DEF SendExpired, PauseExpired, serverVars, Promise!Next
  <2>2. CASE BadReply \/ TransientError \/ FinalError \/ ClientTimeout \/ FlightExpired
    <3>1. phase = "flight" /\ (RetryOrFail \/ ExchangeFails) /\ UNCHANGED <<job, executed>>
      BY <2>2 DEF BadReply, TransientError, FinalError, ClientTimeout, TimedOut, FlightExpired
    <3>. QED
      BY <3>1, FailuresMap DEF Promise!Next
  <2>3. CASE Reply
    BY <2>3, RepliesMap DEF Promise!Next
  <2>4. CASE Serve
    <3>1. step \in Exchanges /\ step \in Promise!Exchanges
      BY DEF Inv, TypeOK, Exchanges, Promise!Exchanges, Terms
    <3>. QED
      BY <2>4, <3>1, ServesMap DEF Serve, Promise!Next
  <2>5. ASSUME NEW i \in Exchanges, ServeLate(i) PROVE Promise!Next
    <3>1. i \in Promise!Exchanges
      BY DEF Exchanges, Promise!Exchanges, Terms
    <3>. QED
      BY <2>5, <3>1, ServesMap DEF ServeLate, Promise!Next
  <2>6. CASE Send \/ Resend \/ Resume \/ Tick \/ UNCHANGED vars
    BY <2>6 DEF Send, Resend, Resume, Tick, vars, serverVars, Terms
  <2>. QED
    BY <2>1, <2>2, <2>3, <2>4, <2>5, <2>6 DEF Next, Attempt, Timer, Server, Returned
<1>. QED
  BY <1>1, <1>2, Invariance, PTL DEF Spec, KeepsPromise, Promise!Spec

----------------------------------------------------------------------------
(* Time *)

\* The pause before the n-th retry, from 0, and how often it has doubled by now.
Wait(n) == job.base * 2 ^ n
Doublings == IF phase = "backoff" THEN attempt - 1 ELSE attempt
Doubled ==
  phase # "done" =>
    /\ phase = "backoff" => attempt > 0
    /\ delay = Wait(Doublings)

\* The time the exchanges and the attempts before this one can have taken.
Spent == (step - 1) * ExchangeTime + attempt * job.timeout + (delay - job.base)
OnTime ==
  /\ phase = "send" => now <= Spent
  /\ phase = "flight" => since <= Spent /\ now <= since + job.timeout
  /\ phase = "backoff" => since <= Spent /\ now <= since + delay
  /\ phase = "done" => now <= step * ExchangeTime

TimeInv == TypeOK /\ Doubled /\ OnTime

\* Each pause is twice the one before it.
LEMMA Waits ==
  ASSUME job \in Jobs
  PROVE  /\ Wait(0) = job.base
         /\ \A n \in Nat : Wait(n) \in Nat /\ job.base <= Wait(n) /\ Wait(n + 1) = 2 * Wait(n)
         /\ \A m, n \in Nat : m <= n => Wait(m) <= Wait(n)
<1>. job.base \in Nat
  BY JobTypes
<1>1. Wait(0) = job.base
  BY Powers DEF Wait
<1>2. ASSUME NEW m \in Nat, NEW n \in Nat, m <= n PROVE Wait(m) <= Wait(n)
  <2>1. 2 ^ m \in Nat /\ 2 ^ n \in Nat /\ 2 ^ m <= 2 ^ n
    BY <1>2, Powers
  <2>. QED
    BY <2>1 DEF Wait
<1>3. ASSUME NEW n \in Nat
      PROVE  Wait(n) \in Nat /\ job.base <= Wait(n) /\ Wait(n + 1) = 2 * Wait(n)
  <2>1. 2 ^ n \in Nat /\ 2 ^ (n + 1) = 2 * 2 ^ n
    BY Powers, PowerDoubles
  <2>2. Wait(n) \in Nat /\ Wait(n + 1) = 2 * Wait(n)
    BY <2>1 DEF Wait
  <2>3. Wait(0) <= Wait(n)
    BY <1>2
  <2>. QED
    BY <1>1, <2>2, <2>3
<1>. QED
  BY <1>1, <1>2, <1>3

\* The attempts of one exchange, with their pauses, fit into ExchangeTime.
LEMMA AttemptsFit ==
  ASSUME job \in Jobs, NEW n \in 0..job.retryMax
  PROVE  /\ ExchangeTime \in Nat
         /\ n * job.timeout \in Nat
         /\ (n + 1) * job.timeout = n * job.timeout + job.timeout
         /\ n * job.timeout + job.timeout + (Wait(n) - job.base) <= ExchangeTime
<1>. job.base \in Nat /\ job.retryMax \in Nat /\ job.timeout \in Nat /\ n \in Nat /\ n <= job.retryMax
  BY JobTypes
<1>1. /\ n * job.timeout \in Nat
      /\ (n + 1) * job.timeout = n * job.timeout + job.timeout
      /\ (n + 1) * job.timeout <= (job.retryMax + 1) * job.timeout
      /\ (job.retryMax + 1) * job.timeout \in Nat
  <2>1. n * job.timeout \in Nat /\ (n + 1) * job.timeout = n * job.timeout + job.timeout
    BY Products
  <2>2. n + 1 \in Nat /\ job.retryMax + 1 \in Nat /\ n + 1 <= job.retryMax + 1
    OBVIOUS
  <2>3. /\ (n + 1) * job.timeout <= (job.retryMax + 1) * job.timeout
        /\ (job.retryMax + 1) * job.timeout \in Nat
    BY <2>2, Products, Zenon
  <2>. QED
    BY <2>1, <2>3
<1>2. Wait(n) \in Nat /\ Wait(n) <= Wait(job.retryMax) /\ Wait(job.retryMax) \in Nat
      /\ job.base <= Wait(job.retryMax)
  BY Waits
<1>3. job.base * (2 ^ job.retryMax - 1) = Wait(job.retryMax) - job.base
  <2>1. 2 ^ job.retryMax \in Nat
    BY Powers
  <2>. QED
    BY <2>1 DEF Wait
<1>4. ExchangeTime = (job.retryMax + 1) * job.timeout + (Wait(job.retryMax) - job.base)
  BY <1>3 DEF ExchangeTime
<1>. QED
  BY <1>1, <1>2, <1>4

\* So do the exchanges of the job.
LEMMA ExchangesFit ==
  ASSUME job \in Jobs, NEW i \in Exchanges
  PROVE  /\ (i - 1) * ExchangeTime \in Nat
         /\ i * ExchangeTime = (i - 1) * ExchangeTime + ExchangeTime
         /\ i * ExchangeTime <= job.exchanges * ExchangeTime
         /\ job.exchanges * ExchangeTime \in Nat
<1>0. ExchangeTime \in Nat
  <2>1. 0 \in 0..job.retryMax
    BY JobTypes
  <2>. QED
    BY <2>1, AttemptsFit
<1>1. ExchangeTime \in Nat /\ job.exchanges \in Nat /\ i \in Nat /\ i - 1 \in Nat /\ i <= job.exchanges
  BY <1>0, JobTypes DEF Exchanges
<1>. HIDE DEF ExchangeTime
<1>2. ((i - 1) + 1) * ExchangeTime = (i - 1) * ExchangeTime + ExchangeTime
  BY <1>1, Products
<1>3. (i - 1) * ExchangeTime \in Nat /\ i * ExchangeTime <= job.exchanges * ExchangeTime
      /\ job.exchanges * ExchangeTime \in Nat
  BY <1>1, Products
<1>. QED
  BY <1>1, <1>2, <1>3

\* The numbers this part speaks about, as one sum.
LEMMA Sums ==
  ASSUME TimeInv
  PROVE  /\ now \in Nat /\ since \in Nat /\ delay \in Nat /\ job.base \in Nat /\ job.timeout \in Nat
         /\ ExchangeTime \in Nat /\ (step - 1) * ExchangeTime \in Nat
         /\ step * ExchangeTime = (step - 1) * ExchangeTime + ExchangeTime
         /\ attempt \in Nat /\ attempt * job.timeout \in Nat
         /\ (attempt + 1) * job.timeout = attempt * job.timeout + job.timeout
         /\ Wait(attempt) \in Nat
         /\ attempt * job.timeout + job.timeout + (Wait(attempt) - job.base) <= ExchangeTime
<1>1. job \in Jobs /\ step \in Exchanges /\ attempt \in 0..job.retryMax /\ attempt \in Nat
      /\ job.base \in Nat /\ job.timeout \in Nat /\ now \in Nat /\ since \in Nat /\ delay \in Nat
  BY JobTypes DEF TimeInv, TypeOK
<1>2. /\ ExchangeTime \in Nat /\ attempt * job.timeout \in Nat
      /\ (attempt + 1) * job.timeout = attempt * job.timeout + job.timeout
      /\ attempt * job.timeout + job.timeout + (Wait(attempt) - job.base) <= ExchangeTime
  BY <1>1, AttemptsFit
<1>3. (step - 1) * ExchangeTime \in Nat /\ step * ExchangeTime = (step - 1) * ExchangeTime + ExchangeTime
  BY <1>1, ExchangesFit
<1>4. Wait(attempt) \in Nat
  BY <1>1, Waits
<1>. QED
  BY <1>1, <1>2, <1>3, <1>4

\* An exchange that is over has taken its time at most.
LEMMA WithinExchange ==
  ASSUME TimeInv, phase # "done"
  PROVE  now <= step * ExchangeTime
<1>1. CASE phase \in {"send", "flight"}
  <2>1. delay = Wait(attempt)
    BY <1>1 DEF TimeInv, Doubled, Doublings
  <2>. QED
    BY <1>1, <2>1, Sums DEF TimeInv, OnTime, Spent
<1>2. CASE phase = "backoff"
  <2>1. attempt - 1 \in Nat /\ delay = Wait(attempt - 1)
    BY <1>2, Sums DEF TimeInv, Doubled, Doublings
  <2>2. Wait((attempt - 1) + 1) = 2 * Wait(attempt - 1)
    BY <2>1, Waits DEF TimeInv, TypeOK
  <2>3. Wait(attempt) = 2 * delay
    BY <2>1, <2>2, Sums
  <2>. QED
    BY <1>2, <2>3, Sums DEF TimeInv, OnTime, Spent
<1>. QED
  BY <1>1, <1>2 DEF TimeInv, TypeOK

\* The end of an exchange is within the job's time.
LEMMA EndStep ==
  ASSUME TimeInv, ExchangeOK \/ ExchangeFails, phase # "done", UNCHANGED <<job, now>>
  PROVE  Doubled' /\ OnTime'
<1>0. UNCHANGED ExchangeTime /\ \A n : UNCHANGED Wait(n)
  BY DEF ExchangeTime, Wait
<1>1. now <= step * ExchangeTime
  BY WithinExchange
<1>2. Wait(0) = job.base
  BY Waits DEF TimeInv, TypeOK
<1>3. step \in Nat
  BY JobTypes DEF TimeInv, TypeOK, Exchanges
<1>4. CASE NextExchange
  <2>1. phase' = "send" /\ step' = step + 1 /\ attempt' = 0 /\ delay' = job.base
    BY <1>4 DEF NextExchange
  <2>2. Doubled'
    BY <1>0, <1>2, <2>1 DEF Doubled, Doublings
  <2>3. Spent' = step * ExchangeTime
    BY <1>0, <1>3, <2>1, Sums DEF Spent
  <2>. QED
    BY <1>1, <2>1, <2>2, <2>3 DEF OnTime
<1>5. CASE phase' = "done" /\ UNCHANGED callVars
  BY <1>0, <1>1, <1>5 DEF Doubled, OnTime, callVars
<1>. QED
  BY <1>4, <1>5 DEF ExchangeOK, ExchangeFails, Finish

\* A pause begins when the attempt has taken its timeout at most.
LEMMA RetryStep ==
  ASSUME TimeInv, RetryOrFail, phase = "flight", UNCHANGED <<job, now>>
  PROVE  Doubled' /\ OnTime'
<1>0. UNCHANGED ExchangeTime /\ \A n : UNCHANGED Wait(n)
  BY DEF ExchangeTime, Wait
<1>1. CASE ExchangeFails
  BY <1>1, EndStep
<1>2. CASE ~ExchangeFails
  <2>1. /\ phase' = "backoff" /\ attempt' = attempt + 1 /\ since' = now
        /\ UNCHANGED <<step, delay>>
    BY <1>2 DEF RetryOrFail
  <2>2. Doubled'
    <3>1. delay = Wait(attempt)
      BY DEF TimeInv, Doubled, Doublings
    <3>2. (attempt + 1) - 1 = attempt /\ attempt + 1 > 0
      BY Sums
    <3>. QED
      BY <1>0, <2>1, <3>1, <3>2 DEF Doubled, Doublings
  <2>3. now <= Spent + job.timeout
    BY Sums DEF TimeInv, OnTime, Spent
  <2>4. Spent' = Spent + job.timeout
    BY <1>0, <2>1, Sums DEF Spent
  <2>. QED
    BY <2>1, <2>2, <2>3, <2>4, Sums DEF OnTime
<1>. QED
  BY <1>1, <1>2

\* Every step keeps the client within its time.
LEMMA TimeStep == TimeInv /\ [Next]_vars => TimeInv'
<1>. SUFFICES ASSUME TimeInv, [Next]_vars PROVE TimeInv'
  OBVIOUS
<1>1. TypeOK'
  BY TypeStep DEF TimeInv
<1>. SUFFICES Doubled' /\ OnTime'
  BY <1>1 DEF TimeInv
<1>0. UNCHANGED job => UNCHANGED ExchangeTime /\ \A n : UNCHANGED Wait(n)
  BY DEF ExchangeTime, Wait
<1>2. CASE Send
  <2>1. Doubled'
    BY <1>0, <1>2 DEF Send, callVars, TimeInv, Doubled, Doublings
  <2>2. Spent' = Spent /\ since' = now /\ now' = now /\ phase' = "flight" /\ now <= Spent
    BY <1>0, <1>2 DEF Send, callVars, TimeInv, OnTime, Spent
  <2>. QED
    BY <1>2, <2>1, <2>2, Sums DEF Send, OnTime
<1>3. CASE SendExpired \/ Reply \/ BadReply \/ FinalError \/ FlightExpired \/ PauseExpired
  <2>1. (ExchangeOK \/ ExchangeFails) /\ phase # "done" /\ UNCHANGED <<job, now>>
    BY <1>3 DEF SendExpired, Reply, BadReply, FinalError, FlightExpired, PauseExpired, timeVars
  <2>. QED
    BY <2>1, EndStep
<1>4. CASE TransientError \/ ClientTimeout
  <2>1. (RetryOrFail \/ ExchangeFails) /\ phase = "flight" /\ UNCHANGED <<job, now>>
    BY <1>4 DEF TransientError, ClientTimeout, TimedOut
  <2>. QED
    BY <2>1, EndStep, RetryStep
<1>5. CASE Resume
  <2>1. /\ phase = "backoff" /\ phase' = "send" /\ delay' = 2 * delay
        /\ UNCHANGED <<job, step, attempt, now, since>>
    BY <1>5 DEF Resume, PauseOver, timeVars
  <2>2. attempt - 1 \in Nat /\ delay = Wait(attempt - 1)
    BY <2>1, Sums DEF TimeInv, Doubled, Doublings
  <2>3. Wait((attempt - 1) + 1) = 2 * Wait(attempt - 1)
    BY <2>2, Waits DEF TimeInv, TypeOK
  <2>4. Doubled'
    BY <1>0, <2>1, <2>2, <2>3, Sums DEF Doubled, Doublings
  <2>5. now <= Spent + delay
    BY <2>1, Sums DEF TimeInv, OnTime, Spent
  <2>6. Spent' = Spent + delay
    BY <1>0, <2>1, Sums DEF Spent
  <2>. QED
    BY <2>1, <2>4, <2>5, <2>6 DEF OnTime
<1>6. CASE Tick
  <2>1. /\ UNCHANGED <<job, phase, step, attempt, delay, since>> /\ now' = now + 1
        /\ phase \in {"flight", "backoff"}
        /\ phase = "flight" => ~(now >= since + job.timeout)
        /\ phase = "backoff" => ~(now >= since + delay)
    BY <1>6 DEF Tick, Watched, TimedOut, PauseOver, callVars
  <2>2. Doubled'
    BY <1>0, <2>1 DEF TimeInv, Doubled, Doublings
  <2>3. Spent' = Spent
    BY <1>0, <2>1 DEF Spent
  <2>. QED
    BY <2>1, <2>2, <2>3, Sums DEF TimeInv, OnTime
<1>7. CASE Resend \/ Server \/ Returned \/ UNCHANGED vars
  <2>1. UNCHANGED <<job, phase, step, attempt, delay, now, since>>
    BY <1>7 DEF Resend, Server, Serve, ServeLate, Returned, vars, callVars, timeVars
  <2>. QED
    BY <1>0, <2>1 DEF TimeInv, Doubled, Doublings, OnTime, Spent
<1>. QED
  BY <1>2, <1>3, <1>4, <1>5, <1>6, <1>7 DEF Next, Attempt, Timer

LEMMA TimeInvariance == Spec => []TimeInv
<1>1. Init => TimeInv
  <2>. SUFFICES ASSUME Init PROVE TimeInv
    OBVIOUS
  <2>1. TypeOK
    BY TypeInit
  <2>2. Doubled
    BY <2>1, Waits DEF TypeOK, Init, Doubled, Doublings
  <2>3. ExchangeTime \in Nat
    <3>1. 0 \in 0..job.retryMax
      BY <2>1, JobTypes DEF TypeOK
    <3>. QED
      BY <2>1, <3>1, AttemptsFit DEF TypeOK
  <2>4. Spent = 0
    BY <2>1, <2>3, JobTypes DEF TypeOK, Init, Spent
  <2>. QED
    BY <2>1, <2>2, <2>4 DEF TimeInv, Init, OnTime
<1>2. TimeInv /\ [Next]_vars => TimeInv'
  BY TimeStep
<1>. QED
  BY <1>1, <1>2, PTL DEF Spec

\* A login, or any job without a deadline, takes no longer than its exchanges with
\* all their attempts, timeouts and doubling pauses can (doWithRetry): it is over,
\* well or not, by then, whatever the server and the network do.
THEOREM LoginsEnd == Spec => []LoginEndsInTime
<1>1. TimeInv => LoginEndsInTime
  <2>. SUFFICES ASSUME TimeInv PROVE LoginEndsInTime
    OBVIOUS
  <2>1. step * ExchangeTime <= job.exchanges * ExchangeTime /\ job.exchanges * ExchangeTime \in Nat
    <3>1. job \in Jobs /\ step \in Exchanges
      BY DEF TimeInv, TypeOK
    <3>. QED
      BY <3>1, ExchangesFit
  <2>2. now <= step * ExchangeTime
    BY WithinExchange DEF TimeInv, OnTime
  <2>. QED
    BY <2>1, <2>2, Sums DEF LoginEndsInTime
<1>. QED
  BY <1>1, TimeInvariance, PTL

\* Before every retry of an exchange the client has paused twice as long as before
\* the one before it (the select and delay *= 2 in doWithRetry).
THEOREM PausesGrow == Spec => PausesDouble
<1>1. TimeInv /\ [Next]_vars =>
        [phase = "backoff" /\ phase' = "send" /\ step' = step
           => now - since >= job.base * 2 ^ (attempt - 1)]_vars
  <2>. SUFFICES ASSUME TimeInv, [Next]_vars, phase = "backoff", phase' = "send", step' = step
                PROVE  now - since >= job.base * 2 ^ (attempt - 1)
    OBVIOUS
  <2>1. PauseOver
    <3>1. ~ExchangeFails
      BY JobTypes DEF TimeInv, TypeOK, Exchanges, ExchangeFails, NextExchange, Finish
    <3>. QED
      BY <3>1 DEF Next, Attempt, Timer, Server, Returned, Send, SendExpired, Resend, Reply,
         BadReply, TransientError, FinalError, ClientTimeout, TimedOut, FlightExpired, Resume, PauseExpired,
         Serve, ServeLate, Tick, vars
  <2>2. delay = job.base * 2 ^ (attempt - 1)
    BY DEF TimeInv, Doubled, Doublings, Wait
  <2>. QED
    BY <2>1, <2>2, Sums DEF PauseOver
<1>. QED
  BY <1>1, TimeInvariance, PTL DEF Spec, PausesDouble
=============================================================================
