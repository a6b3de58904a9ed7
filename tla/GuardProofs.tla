---------------------------- MODULE GuardProofs ----------------------------
(***************************************************************************)
(* Proofs about Guard, for every set of launch configurations.             *)
(*                                                                         *)
(* TypeOK is inductive.  ReauthJustified, CredsLifecycle and               *)
(* RoundOkMeansOnline become inductive together with four facts about      *)
(* where the guard stands in a round, collected in RoundFacts.             *)
(***************************************************************************)
EXTENDS Guard, TLAPS

\* The counter never runs ahead of the failures it stands for; the internet is
\* probed only after the portal said "online"; a round has no result before it
\* returns; Reauth runs for handleProbeFail or for -reauth.
RoundFacts ==
  /\ probeFailCount <= streak
  /\ pc = "probe" => believed = "online"
  /\ pc \notin {"select"} \cup Terminal => result = "none"
  /\ pc \in ReauthPoints => caller \in {"forced", "cli"}

IInv == TypeOK /\ RoundFacts /\ ReauthJustified /\ CredsLifecycle /\ RoundOkMeansOnline

\* What a proof needs to know of a configuration.
LEMMA ConfigFields ==
  ASSUME NEW c \in Configs
  PROVE  /\ c.maxProbeFails \in Nat /\ c.maxProbeFails <= CountCap
         /\ c.mode \in {"daemon", "once", "reauth"} /\ c.dryRun \in BOOLEAN
BY ConfigsAssumption, CountCapAssumption DEF Config

\* The capped counters stay in range, grow, and keep their order.
LEMMA CountUpCounts ==
  ASSUME NEW n \in 0..CountCap, NEW m \in 0..CountCap, n <= m
  PROVE  /\ CountUp(n) \in 0..CountCap /\ n <= CountUp(n)
         /\ CountUp(n) <= CountUp(m)
BY CountCapAssumption DEF CountUp

\* The initial states are well typed.
LEMMA InitTypeOK == Init => TypeOK
<1>. SUFFICES ASSUME Init PROVE TypeOK
  OBVIOUS
<1>1. 0 \in 0..CountCap
  BY CountCapAssumption
<1>. QED
  BY <1>1 DEF Init, TypeOK, RoundTypeOK, CountTypeOK, LoopTypeOK, PortalTypeOK, Points

\* Every step keeps every variable in its type.
LEMMA NextTypeOK == TypeOK /\ [Next]_vars => TypeOK'
<1>. SUFFICES ASSUME TypeOK, [Next]_vars PROVE TypeOK'
  OBVIOUS
<1>. USE DEF TypeOK, guardVars, loopVars, portalVars
<1>0. 0 \in 0..CountCap
  BY CountCapAssumption
<1>1. CASE ResolveFound
  <2>. USE <1>1 DEF ResolveFound, Dispatch
  <2>1. RoundTypeOK'
    BY DEF RoundTypeOK, Points, StatusPoints, ReauthPoints, LoginPoints, Terminal
  <2>2. CountTypeOK'
    BY <1>0 DEF CountTypeOK
  <2>3. LoopTypeOK'
    BY DEF LoopTypeOK
  <2>4. PortalTypeOK'
    BY DEF PortalTypeOK
  <2>. QED
    BY <2>1, <2>2, <2>3, <2>4
<1>2. CASE ResolveMissing
  <2>. USE <1>2 DEF ResolveMissing, Dispatch
  <2>1. RoundTypeOK'
    BY DEF RoundTypeOK, Points, StatusPoints, ReauthPoints, LoginPoints, Terminal
  <2>2. CountTypeOK'
    BY <1>0 DEF CountTypeOK
  <2>3. LoopTypeOK'
    BY DEF LoopTypeOK
  <2>4. PortalTypeOK'
    BY DEF PortalTypeOK
  <2>. QED
    BY <2>1, <2>2, <2>3, <2>4
<1>3. CASE PromptAnswered
  <2>. USE <1>3 DEF PromptAnswered, Dispatch
  <2>1. RoundTypeOK'
    BY DEF RoundTypeOK, Points, StatusPoints, ReauthPoints, LoginPoints, Terminal
  <2>2. CountTypeOK'
    BY <1>0 DEF CountTypeOK
  <2>3. LoopTypeOK'
    BY DEF LoopTypeOK
  <2>4. PortalTypeOK'
    BY DEF PortalTypeOK
  <2>. QED
    BY <2>1, <2>2, <2>3, <2>4
<1>4. CASE PromptFailed
  <2>. USE <1>4 DEF PromptFailed, Dispatch
  <2>1. RoundTypeOK'
    BY DEF RoundTypeOK, Points, StatusPoints, ReauthPoints, LoginPoints, Terminal
  <2>2. CountTypeOK'
    BY <1>0 DEF CountTypeOK
  <2>3. LoopTypeOK'
    BY DEF LoopTypeOK
  <2>4. PortalTypeOK'
    BY DEF PortalTypeOK
  <2>. QED
    BY <2>1, <2>2, <2>3, <2>4
<1>5. CASE PromptSaveFailed
  <2>. USE <1>5 DEF PromptSaveFailed
  <2>1. RoundTypeOK'
    BY DEF RoundTypeOK, Points, StatusPoints, ReauthPoints, LoginPoints, Terminal
  <2>2. CountTypeOK'
    BY <1>0 DEF CountTypeOK
  <2>3. LoopTypeOK'
    BY DEF LoopTypeOK
  <2>4. PortalTypeOK'
    BY DEF PortalTypeOK
  <2>. QED
    BY <2>1, <2>2, <2>3, <2>4
<1>6. CASE StatusError
  <2>. USE <1>6 DEF StatusError, OnUnreachable, Return
  <2>1. RoundTypeOK'
    BY DEF RoundTypeOK, Points, StatusPoints, ReauthPoints, LoginPoints, Terminal
  <2>2. CountTypeOK'
    BY <1>0 DEF CountTypeOK
  <2>3. LoopTypeOK'
    BY DEF LoopTypeOK
  <2>4. PortalTypeOK'
    BY DEF PortalTypeOK
  <2>. QED
    BY <2>1, <2>2, <2>3, <2>4
<1>7. CASE StatusOnline
  <2>. USE <1>7 DEF StatusOnline
  <2>1. RoundTypeOK'
    BY DEF RoundTypeOK, Points, StatusPoints, ReauthPoints, LoginPoints, Terminal
  <2>2. CountTypeOK'
    BY <1>0 DEF CountTypeOK
  <2>3. LoopTypeOK'
    BY DEF LoopTypeOK
  <2>4. PortalTypeOK'
    BY DEF PortalTypeOK
  <2>. QED
    BY <2>1, <2>2, <2>3, <2>4
<1>8. CASE StatusOffline
  <2>. USE <1>8 DEF StatusOffline, Return
  <2>1. RoundTypeOK'
    BY DEF RoundTypeOK, Points, StatusPoints, ReauthPoints, LoginPoints, Terminal
  <2>2. CountTypeOK'
    BY <1>0 DEF CountTypeOK
  <2>3. LoopTypeOK'
    BY DEF LoopTypeOK
  <2>4. PortalTypeOK'
    BY DEF PortalTypeOK
  <2>. QED
    BY <2>1, <2>2, <2>3, <2>4
<1>9. CASE ReconnectOK
  <2>. USE <1>9 DEF ReconnectOK
  <2>1. RoundTypeOK'
    BY DEF RoundTypeOK, Points, StatusPoints, ReauthPoints, LoginPoints, Terminal
  <2>2. CountTypeOK'
    BY <1>0 DEF CountTypeOK
  <2>3. LoopTypeOK'
    BY DEF LoopTypeOK
  <2>4. PortalTypeOK'
    BY DEF PortalTypeOK
  <2>. QED
    BY <2>1, <2>2, <2>3, <2>4
<1>10. CASE ReconnectFails
  <2>. USE <1>10 DEF ReconnectFails
  <2>1. RoundTypeOK'
    BY DEF RoundTypeOK, Points, StatusPoints, ReauthPoints, LoginPoints, Terminal
  <2>2. CountTypeOK'
    BY <1>0 DEF CountTypeOK
  <2>3. LoopTypeOK'
    BY DEF LoopTypeOK
  <2>4. PortalTypeOK'
    BY DEF PortalTypeOK
  <2>. QED
    BY <2>1, <2>2, <2>3, <2>4
<1>11. CASE ProbeOK
  <2>. USE <1>11 DEF ProbeOK, Return
  <2>1. RoundTypeOK'
    BY DEF RoundTypeOK, Points, StatusPoints, ReauthPoints, LoginPoints, Terminal
  <2>2. CountTypeOK'
    BY <1>0 DEF CountTypeOK
  <2>3. LoopTypeOK'
    BY DEF LoopTypeOK
  <2>4. PortalTypeOK'
    BY DEF PortalTypeOK
  <2>. QED
    BY <2>1, <2>2, <2>3, <2>4
<1>12. CASE ProbeFail
  <2>. USE <1>12 DEF ProbeFail, Return
  <2>1. RoundTypeOK'
    BY DEF RoundTypeOK, Points, StatusPoints, ReauthPoints, LoginPoints, Terminal
  <2>2. CountTypeOK'
    BY CountUpCounts DEF CountTypeOK
  <2>3. LoopTypeOK'
    BY DEF LoopTypeOK
  <2>4. PortalTypeOK'
    BY DEF PortalTypeOK
  <2>. QED
    BY <2>1, <2>2, <2>3, <2>4
<1>13. CASE ReauthLoad
  <2>. USE <1>13 DEF ReauthLoad, LoginReturns, Return
  <2>1. RoundTypeOK'
    BY DEF RoundTypeOK, Points, StatusPoints, ReauthPoints, LoginPoints, Terminal
  <2>2. CountTypeOK'
    BY <1>0 DEF CountTypeOK
  <2>3. LoopTypeOK'
    BY DEF LoopTypeOK
  <2>4. PortalTypeOK'
    BY DEF PortalTypeOK
  <2>. QED
    BY <2>1, <2>2, <2>3, <2>4
<1>14. CASE ReauthIP
  <2>. USE <1>14 DEF ReauthIP, LoginReturns, Return
  <2>1. RoundTypeOK'
    BY DEF RoundTypeOK, Points, StatusPoints, ReauthPoints, LoginPoints, Terminal
  <2>2. CountTypeOK'
    BY <1>0 DEF CountTypeOK
  <2>3. LoopTypeOK'
    BY DEF LoopTypeOK
  <2>4. PortalTypeOK'
    BY DEF PortalTypeOK
  <2>. QED
    BY <2>1, <2>2, <2>3, <2>4
<1>15. CASE Logout
  <2>. USE <1>15 DEF Logout
  <2>1. RoundTypeOK'
    BY DEF RoundTypeOK, Points, StatusPoints, ReauthPoints, LoginPoints, Terminal
  <2>2. CountTypeOK'
    BY <1>0 DEF CountTypeOK
  <2>3. LoopTypeOK'
    BY DEF LoopTypeOK
  <2>4. PortalTypeOK'
    BY DEF PortalTypeOK
  <2>. QED
    BY <2>1, <2>2, <2>3, <2>4
<1>16. CASE LoginLoad
  <2>. USE <1>16 DEF LoginLoad, LoginReturns, Return
  <2>1. RoundTypeOK'
    BY DEF RoundTypeOK, Points, StatusPoints, ReauthPoints, LoginPoints, Terminal
  <2>2. CountTypeOK'
    BY <1>0 DEF CountTypeOK
  <2>3. LoopTypeOK'
    BY DEF LoopTypeOK
  <2>4. PortalTypeOK'
    BY DEF PortalTypeOK
  <2>. QED
    BY <2>1, <2>2, <2>3, <2>4
<1>17. CASE LoginIP
  <2>. USE <1>17 DEF LoginIP, LoginReturns, Return
  <2>1. RoundTypeOK'
    BY DEF RoundTypeOK, Points, StatusPoints, ReauthPoints, LoginPoints, Terminal
  <2>2. CountTypeOK'
    BY <1>0 DEF CountTypeOK
  <2>3. LoopTypeOK'
    BY DEF LoopTypeOK
  <2>4. PortalTypeOK'
    BY DEF PortalTypeOK
  <2>. QED
    BY <2>1, <2>2, <2>3, <2>4
<1>18. CASE Agree
  <2>. USE <1>18 DEF Agree
  <2>1. RoundTypeOK'
    BY DEF RoundTypeOK, Points, StatusPoints, ReauthPoints, LoginPoints, Terminal
  <2>2. CountTypeOK'
    BY <1>0 DEF CountTypeOK
  <2>3. LoopTypeOK'
    BY DEF LoopTypeOK
  <2>4. PortalTypeOK'
    BY DEF PortalTypeOK
  <2>. QED
    BY <2>1, <2>2, <2>3, <2>4
<1>19. CASE Challenge
  <2>. USE <1>19 DEF Challenge, LoginReturns, Return
  <2>1. RoundTypeOK'
    BY DEF RoundTypeOK, Points, StatusPoints, ReauthPoints, LoginPoints, Terminal
  <2>2. CountTypeOK'
    BY <1>0 DEF CountTypeOK
  <2>3. LoopTypeOK'
    BY DEF LoopTypeOK
  <2>4. PortalTypeOK'
    BY DEF PortalTypeOK
  <2>. QED
    BY <2>1, <2>2, <2>3, <2>4
<1>20. CASE SubmitAccepted
  <2>. USE <1>20 DEF SubmitAccepted, LoginReturns, Return
  <2>1. RoundTypeOK'
    BY DEF RoundTypeOK, Points, StatusPoints, ReauthPoints, LoginPoints, Terminal
  <2>2. CountTypeOK'
    BY <1>0 DEF CountTypeOK
  <2>3. LoopTypeOK'
    BY DEF LoopTypeOK
  <2>4. PortalTypeOK'
    BY DEF PortalTypeOK
  <2>. QED
    BY <2>1, <2>2, <2>3, <2>4
<1>21. CASE SubmitRejected
  <2>. USE <1>21 DEF SubmitRejected, LoginReturns, Return
  <2>1. RoundTypeOK'
    BY DEF RoundTypeOK, Points, StatusPoints, ReauthPoints, LoginPoints, Terminal
  <2>2. CountTypeOK'
    BY <1>0 DEF CountTypeOK
  <2>3. LoopTypeOK'
    BY DEF LoopTypeOK
  <2>4. PortalTypeOK'
    BY DEF PortalTypeOK
  <2>. QED
    BY <2>1, <2>2, <2>3, <2>4
<1>22. CASE SubmitLost
  <2>. USE <1>22 DEF SubmitLost, LoginReturns, Return
  <2>1. RoundTypeOK'
    BY DEF RoundTypeOK, Points, StatusPoints, ReauthPoints, LoginPoints, Terminal
  <2>2. CountTypeOK'
    BY <1>0 DEF CountTypeOK
  <2>3. LoopTypeOK'
    BY DEF LoopTypeOK
  <2>4. PortalTypeOK'
    BY DEF PortalTypeOK
  <2>. QED
    BY <2>1, <2>2, <2>3, <2>4
<1>23. CASE Tick
  <2>. USE <1>23 DEF Tick
  <2>1. RoundTypeOK'
    BY DEF RoundTypeOK, Points, StatusPoints, ReauthPoints, LoginPoints, Terminal
  <2>2. CountTypeOK'
    BY <1>0 DEF CountTypeOK
  <2>3. LoopTypeOK'
    BY DEF LoopTypeOK
  <2>4. PortalTypeOK'
    BY DEF PortalTypeOK
  <2>. QED
    BY <2>1, <2>2, <2>3, <2>4
<1>24. CASE Shutdown
  <2>. USE <1>24 DEF Shutdown
  <2>1. RoundTypeOK'
    BY DEF RoundTypeOK, Points, StatusPoints, ReauthPoints, LoginPoints, Terminal
  <2>2. CountTypeOK'
    BY <1>0 DEF CountTypeOK
  <2>3. LoopTypeOK'
    BY DEF LoopTypeOK
  <2>4. PortalTypeOK'
    BY DEF PortalTypeOK
  <2>. QED
    BY <2>1, <2>2, <2>3, <2>4
<1>25. CASE TimerFires
  <2>. USE <1>25 DEF TimerFires
  <2>1. RoundTypeOK'
    BY DEF RoundTypeOK, Points, StatusPoints, ReauthPoints, LoginPoints, Terminal
  <2>2. CountTypeOK'
    BY <1>0 DEF CountTypeOK
  <2>3. LoopTypeOK'
    BY DEF LoopTypeOK
  <2>4. PortalTypeOK'
    BY DEF PortalTypeOK
  <2>. QED
    BY <2>1, <2>2, <2>3, <2>4
<1>26. CASE Interrupt
  <2>. USE <1>26 DEF Interrupt
  <2>1. RoundTypeOK'
    BY DEF RoundTypeOK, Points, StatusPoints, ReauthPoints, LoginPoints, Terminal
  <2>2. CountTypeOK'
    BY <1>0 DEF CountTypeOK
  <2>3. LoopTypeOK'
    BY DEF LoopTypeOK
  <2>4. PortalTypeOK'
    BY DEF PortalTypeOK
  <2>. QED
    BY <2>1, <2>2, <2>3, <2>4
<1>27. CASE WorldChanges
  <2>. USE <1>27 DEF WorldChanges, NetChanges, UplinkChanges, SessionChanges, StoreChanges
  <2>1. RoundTypeOK'
    BY DEF RoundTypeOK, Points, StatusPoints, ReauthPoints, LoginPoints, Terminal
  <2>2. CountTypeOK'
    BY <1>0 DEF CountTypeOK
  <2>3. LoopTypeOK'
    BY DEF LoopTypeOK
  <2>4. PortalTypeOK'
    BY DEF PortalTypeOK
  <2>. QED
    BY <2>1, <2>2, <2>3, <2>4
<1>28. CASE UNCHANGED vars
  BY <1>28 DEF vars, RoundTypeOK, CountTypeOK, LoopTypeOK, PortalTypeOK
<1>. QED
  BY <1>1, <1>2, <1>3, <1>4, <1>5, <1>6, <1>7, <1>8, <1>9, <1>10, <1>11, <1>12, <1>13, <1>14,
     <1>15, <1>16, <1>17, <1>18, <1>19, <1>20, <1>21, <1>22, <1>23, <1>24, <1>25, <1>26, <1>27,
     <1>28
     DEF Next, GuardStep, Environment, Exited, Resolve, Prompt, Status, Reconnect,
         Probe, Reauth, DoLogin

\* Every variable keeps its type, whatever the configurations and the bound.
THEOREM TypeCorrect == Spec => []TypeOK
BY InitTypeOK, NextTypeOK, PTL DEF Spec

----------------------------------------------------------------------------
(* The inductive invariant *)

\* The invariant holds initially.
LEMMA InitIInv == Init => IInv
<1>. SUFFICES ASSUME Init PROVE IInv
  OBVIOUS
<1>1. TypeOK
  BY InitTypeOK
<1>2. RoundFacts /\ ReauthJustified /\ CredsLifecycle /\ RoundOkMeansOnline
  BY DEF Init, RoundFacts, ReauthJustified, CredsLifecycle, RoundOkMeansOnline,
         StatusPoints, ReauthPoints, LoginPoints, Terminal
<1>. QED
  BY <1>1, <1>2 DEF IInv

\* Every step, of the guard or of its environment, preserves the invariant.
LEMMA NextIInv == IInv /\ [Next]_vars => IInv'
<1>. SUFFICES ASSUME IInv, [Next]_vars PROVE IInv'
  OBVIOUS
<1>0. TypeOK'
  BY NextTypeOK DEF IInv
<1>. USE DEF IInv, TypeOK, RoundTypeOK, CountTypeOK, guardVars, loopVars
<1>. USE DEF StatusPoints, ReauthPoints, LoginPoints, Terminal
<1>1. CASE ResolveFound
  <2>. USE <1>1 DEF ResolveFound, Dispatch
  <2>1. RoundFacts'
    BY DEF RoundFacts
  <2>2. ReauthJustified'
    BY DEF ReauthJustified, RoundFacts
  <2>3. CredsLifecycle'
    BY DEF CredsLifecycle, RoundFacts
  <2>4. RoundOkMeansOnline'
    BY DEF RoundOkMeansOnline, RoundFacts
  <2>. QED
    BY <1>0, <2>1, <2>2, <2>3, <2>4
<1>2. CASE ResolveMissing
  <2>. USE <1>2 DEF ResolveMissing, Dispatch
  <2>1. RoundFacts'
    BY DEF RoundFacts
  <2>2. ReauthJustified'
    BY DEF ReauthJustified, RoundFacts
  <2>3. CredsLifecycle'
    BY DEF CredsLifecycle, RoundFacts
  <2>4. RoundOkMeansOnline'
    BY DEF RoundOkMeansOnline, RoundFacts
  <2>. QED
    BY <1>0, <2>1, <2>2, <2>3, <2>4
<1>3. CASE PromptAnswered
  <2>. USE <1>3 DEF PromptAnswered, Dispatch
  <2>1. RoundFacts'
    BY DEF RoundFacts
  <2>2. ReauthJustified'
    BY DEF ReauthJustified, RoundFacts
  <2>3. CredsLifecycle'
    BY DEF CredsLifecycle, RoundFacts
  <2>4. RoundOkMeansOnline'
    BY DEF RoundOkMeansOnline, RoundFacts
  <2>. QED
    BY <1>0, <2>1, <2>2, <2>3, <2>4
<1>4. CASE PromptFailed
  <2>. USE <1>4 DEF PromptFailed, Dispatch
  <2>1. RoundFacts'
    BY DEF RoundFacts
  <2>2. ReauthJustified'
    BY DEF ReauthJustified, RoundFacts
  <2>3. CredsLifecycle'
    BY DEF CredsLifecycle, RoundFacts
  <2>4. RoundOkMeansOnline'
    BY DEF RoundOkMeansOnline, RoundFacts
  <2>. QED
    BY <1>0, <2>1, <2>2, <2>3, <2>4
<1>5. CASE PromptSaveFailed
  <2>. USE <1>5 DEF PromptSaveFailed
  <2>1. RoundFacts'
    BY DEF RoundFacts
  <2>2. ReauthJustified'
    BY DEF ReauthJustified, RoundFacts
  <2>3. CredsLifecycle'
    BY DEF CredsLifecycle, RoundFacts
  <2>4. RoundOkMeansOnline'
    BY DEF RoundOkMeansOnline, RoundFacts
  <2>. QED
    BY <1>0, <2>1, <2>2, <2>3, <2>4
<1>6. CASE StatusError
  <2>. USE <1>6 DEF StatusError, OnUnreachable, Return
  <2>1. RoundFacts'
    BY DEF RoundFacts
  <2>2. ReauthJustified'
    BY DEF ReauthJustified, RoundFacts
  <2>3. CredsLifecycle'
    BY DEF CredsLifecycle, RoundFacts
  <2>4. RoundOkMeansOnline'
    BY DEF RoundOkMeansOnline, RoundFacts
  <2>. QED
    BY <1>0, <2>1, <2>2, <2>3, <2>4
<1>7. CASE StatusOnline
  <2>. USE <1>7 DEF StatusOnline
  <2>1. RoundFacts'
    BY DEF RoundFacts
  <2>2. ReauthJustified'
    BY DEF ReauthJustified, RoundFacts
  <2>3. CredsLifecycle'
    BY DEF CredsLifecycle, RoundFacts
  <2>4. RoundOkMeansOnline'
    BY DEF RoundOkMeansOnline, RoundFacts
  <2>. QED
    BY <1>0, <2>1, <2>2, <2>3, <2>4
<1>8. CASE StatusOffline
  <2>. USE <1>8 DEF StatusOffline, Return
  <2>1. RoundFacts'
    BY DEF RoundFacts
  <2>2. ReauthJustified'
    BY DEF ReauthJustified, RoundFacts
  <2>3. CredsLifecycle'
    BY DEF CredsLifecycle, RoundFacts
  <2>4. RoundOkMeansOnline'
    BY DEF RoundOkMeansOnline, RoundFacts
  <2>. QED
    BY <1>0, <2>1, <2>2, <2>3, <2>4
<1>9. CASE ReconnectOK
  <2>. USE <1>9 DEF ReconnectOK
  <2>1. RoundFacts'
    BY DEF RoundFacts
  <2>2. ReauthJustified'
    BY DEF ReauthJustified, RoundFacts
  <2>3. CredsLifecycle'
    BY DEF CredsLifecycle, RoundFacts
  <2>4. RoundOkMeansOnline'
    BY DEF RoundOkMeansOnline, RoundFacts
  <2>. QED
    BY <1>0, <2>1, <2>2, <2>3, <2>4
<1>10. CASE ReconnectFails
  <2>. USE <1>10 DEF ReconnectFails
  <2>1. RoundFacts'
    BY DEF RoundFacts
  <2>2. ReauthJustified'
    BY DEF ReauthJustified, RoundFacts
  <2>3. CredsLifecycle'
    BY DEF CredsLifecycle, RoundFacts
  <2>4. RoundOkMeansOnline'
    BY DEF RoundOkMeansOnline, RoundFacts
  <2>. QED
    BY <1>0, <2>1, <2>2, <2>3, <2>4
<1>11. CASE ProbeOK
  <2>. USE <1>11 DEF ProbeOK, Return
  <2>1. RoundFacts'
    BY DEF RoundFacts
  <2>2. ReauthJustified'
    BY DEF ReauthJustified, RoundFacts
  <2>3. CredsLifecycle'
    BY DEF CredsLifecycle, RoundFacts
  <2>4. RoundOkMeansOnline'
    BY DEF RoundOkMeansOnline, RoundFacts
  <2>. QED
    BY <1>0, <2>1, <2>2, <2>3, <2>4
<1>12. CASE ProbeFail
  <2>. USE <1>12 DEF ProbeFail, Return
  <2>1. RoundFacts'
    BY CountUpCounts DEF RoundFacts
  <2>2. ReauthJustified'
    BY CountUpCounts, ConfigFields DEF ReauthJustified, RoundFacts, AtThreshold
  <2>3. CredsLifecycle'
    BY DEF CredsLifecycle, RoundFacts
  <2>4. RoundOkMeansOnline'
    BY DEF RoundOkMeansOnline, RoundFacts
  <2>. QED
    BY <1>0, <2>1, <2>2, <2>3, <2>4
<1>13. CASE ReauthLoad
  <2>. USE <1>13 DEF ReauthLoad, LoginReturns, Return
  <2>1. RoundFacts'
    BY DEF RoundFacts
  <2>2. ReauthJustified'
    BY DEF ReauthJustified, RoundFacts
  <2>3. CredsLifecycle'
    BY DEF CredsLifecycle, RoundFacts
  <2>4. RoundOkMeansOnline'
    BY DEF RoundOkMeansOnline, RoundFacts
  <2>. QED
    BY <1>0, <2>1, <2>2, <2>3, <2>4
<1>14. CASE ReauthIP
  <2>. USE <1>14 DEF ReauthIP, LoginReturns, Return
  <2>1. RoundFacts'
    BY DEF RoundFacts
  <2>2. ReauthJustified'
    BY DEF ReauthJustified, RoundFacts
  <2>3. CredsLifecycle'
    BY DEF CredsLifecycle, RoundFacts
  <2>4. RoundOkMeansOnline'
    BY DEF RoundOkMeansOnline, RoundFacts
  <2>. QED
    BY <1>0, <2>1, <2>2, <2>3, <2>4
<1>15. CASE Logout
  <2>. USE <1>15 DEF Logout
  <2>1. RoundFacts'
    BY DEF RoundFacts
  <2>2. ReauthJustified'
    BY DEF ReauthJustified, RoundFacts
  <2>3. CredsLifecycle'
    BY DEF CredsLifecycle, RoundFacts
  <2>4. RoundOkMeansOnline'
    BY DEF RoundOkMeansOnline, RoundFacts
  <2>. QED
    BY <1>0, <2>1, <2>2, <2>3, <2>4
<1>16. CASE LoginLoad
  <2>. USE <1>16 DEF LoginLoad, LoginReturns, Return
  <2>1. RoundFacts'
    BY DEF RoundFacts
  <2>2. ReauthJustified'
    BY DEF ReauthJustified, RoundFacts
  <2>3. CredsLifecycle'
    BY DEF CredsLifecycle, RoundFacts
  <2>4. RoundOkMeansOnline'
    BY DEF RoundOkMeansOnline, RoundFacts
  <2>. QED
    BY <1>0, <2>1, <2>2, <2>3, <2>4
<1>17. CASE LoginIP
  <2>. USE <1>17 DEF LoginIP, LoginReturns, Return
  <2>1. RoundFacts'
    BY DEF RoundFacts
  <2>2. ReauthJustified'
    BY DEF ReauthJustified, RoundFacts
  <2>3. CredsLifecycle'
    BY DEF CredsLifecycle, RoundFacts
  <2>4. RoundOkMeansOnline'
    BY DEF RoundOkMeansOnline, RoundFacts
  <2>. QED
    BY <1>0, <2>1, <2>2, <2>3, <2>4
<1>18. CASE Agree
  <2>. USE <1>18 DEF Agree
  <2>1. RoundFacts'
    BY DEF RoundFacts
  <2>2. ReauthJustified'
    BY DEF ReauthJustified, RoundFacts
  <2>3. CredsLifecycle'
    BY DEF CredsLifecycle, RoundFacts
  <2>4. RoundOkMeansOnline'
    BY DEF RoundOkMeansOnline, RoundFacts
  <2>. QED
    BY <1>0, <2>1, <2>2, <2>3, <2>4
<1>19. CASE Challenge
  <2>. USE <1>19 DEF Challenge, LoginReturns, Return
  <2>1. RoundFacts'
    BY DEF RoundFacts
  <2>2. ReauthJustified'
    BY DEF ReauthJustified, RoundFacts
  <2>3. CredsLifecycle'
    BY DEF CredsLifecycle, RoundFacts
  <2>4. RoundOkMeansOnline'
    BY DEF RoundOkMeansOnline, RoundFacts
  <2>. QED
    BY <1>0, <2>1, <2>2, <2>3, <2>4
<1>20. CASE SubmitAccepted
  <2>. USE <1>20 DEF SubmitAccepted, LoginReturns, Return
  <2>1. RoundFacts'
    BY DEF RoundFacts
  <2>2. ReauthJustified'
    BY DEF ReauthJustified, RoundFacts
  <2>3. CredsLifecycle'
    BY DEF CredsLifecycle, RoundFacts
  <2>4. RoundOkMeansOnline'
    BY DEF RoundOkMeansOnline, RoundFacts
  <2>. QED
    BY <1>0, <2>1, <2>2, <2>3, <2>4
<1>21. CASE SubmitRejected
  <2>. USE <1>21 DEF SubmitRejected, LoginReturns, Return
  <2>1. RoundFacts'
    BY DEF RoundFacts
  <2>2. ReauthJustified'
    BY DEF ReauthJustified, RoundFacts
  <2>3. CredsLifecycle'
    BY DEF CredsLifecycle, RoundFacts
  <2>4. RoundOkMeansOnline'
    BY DEF RoundOkMeansOnline, RoundFacts
  <2>. QED
    BY <1>0, <2>1, <2>2, <2>3, <2>4
<1>22. CASE SubmitLost
  <2>. USE <1>22 DEF SubmitLost, LoginReturns, Return
  <2>1. RoundFacts'
    BY DEF RoundFacts
  <2>2. ReauthJustified'
    BY DEF ReauthJustified, RoundFacts
  <2>3. CredsLifecycle'
    BY DEF CredsLifecycle, RoundFacts
  <2>4. RoundOkMeansOnline'
    BY DEF RoundOkMeansOnline, RoundFacts
  <2>. QED
    BY <1>0, <2>1, <2>2, <2>3, <2>4
<1>23. CASE Tick
  <2>. USE <1>23 DEF Tick
  <2>1. RoundFacts'
    BY DEF RoundFacts
  <2>2. ReauthJustified'
    BY DEF ReauthJustified, RoundFacts
  <2>3. CredsLifecycle'
    BY DEF CredsLifecycle, RoundFacts
  <2>4. RoundOkMeansOnline'
    BY DEF RoundOkMeansOnline, RoundFacts
  <2>. QED
    BY <1>0, <2>1, <2>2, <2>3, <2>4
<1>24. CASE Shutdown
  <2>. USE <1>24 DEF Shutdown
  <2>1. RoundFacts'
    BY DEF RoundFacts
  <2>2. ReauthJustified'
    BY DEF ReauthJustified, RoundFacts
  <2>3. CredsLifecycle'
    BY DEF CredsLifecycle, RoundFacts
  <2>4. RoundOkMeansOnline'
    BY DEF RoundOkMeansOnline, RoundFacts
  <2>. QED
    BY <1>0, <2>1, <2>2, <2>3, <2>4
<1>25. CASE TimerFires
  <2>. USE <1>25 DEF TimerFires
  <2>1. RoundFacts'
    BY DEF RoundFacts
  <2>2. ReauthJustified'
    BY DEF ReauthJustified, RoundFacts
  <2>3. CredsLifecycle'
    BY DEF CredsLifecycle, RoundFacts
  <2>4. RoundOkMeansOnline'
    BY DEF RoundOkMeansOnline, RoundFacts
  <2>. QED
    BY <1>0, <2>1, <2>2, <2>3, <2>4
<1>26. CASE Interrupt
  <2>. USE <1>26 DEF Interrupt, Looping
  <2>1. RoundFacts'
    BY DEF RoundFacts
  <2>2. ReauthJustified'
    BY DEF ReauthJustified, RoundFacts
  <2>3. CredsLifecycle'
    BY DEF CredsLifecycle, RoundFacts
  <2>4. RoundOkMeansOnline'
    BY DEF RoundOkMeansOnline, RoundFacts
  <2>. QED
    BY <1>0, <2>1, <2>2, <2>3, <2>4
<1>27. CASE WorldChanges
  <2>. USE <1>27 DEF WorldChanges, NetChanges, UplinkChanges, SessionChanges, StoreChanges
  <2>1. RoundFacts'
    BY DEF RoundFacts
  <2>2. ReauthJustified'
    BY DEF ReauthJustified, RoundFacts
  <2>3. CredsLifecycle'
    BY DEF CredsLifecycle, RoundFacts
  <2>4. RoundOkMeansOnline'
    BY DEF RoundOkMeansOnline, RoundFacts
  <2>. QED
    BY <1>0, <2>1, <2>2, <2>3, <2>4
<1>28. CASE UNCHANGED vars
  BY <1>0, <1>28 DEF vars, RoundFacts, ReauthJustified, CredsLifecycle, RoundOkMeansOnline
<1>. QED
  BY <1>1, <1>2, <1>3, <1>4, <1>5, <1>6, <1>7, <1>8, <1>9, <1>10, <1>11, <1>12, <1>13, <1>14,
     <1>15, <1>16, <1>17, <1>18, <1>19, <1>20, <1>21, <1>22, <1>23, <1>24, <1>25, <1>26, <1>27,
     <1>28
     DEF Next, GuardStep, Environment, Exited, Resolve, Prompt, Status, Reconnect,
         Probe, Reauth, DoLogin

\* The inductive invariant holds in every reachable state.
THEOREM Invariance == Spec => []IInv
BY InitIInv, NextIInv, PTL DEF Spec

\* No guard ever starts throwing its user off the portal without credentials, or
\* before max-probe-fails probes failed in a row (handleProbeFail, main -reauth).
THEOREM ReauthIsJustified == Spec => []ReauthJustified
<1>1. IInv => ReauthJustified
  BY DEF IInv
<1>. QED
  BY <1>1, Invariance, PTL

\* Every path out of Reauth and DoLogin clears the credentials the round loaded.
THEOREM CredsAreCleared == Spec => []CredsLifecycle
<1>1. IInv => CredsLifecycle
  BY DEF IInv
<1>. QED
  BY <1>1, Invariance, PTL

\* A round that returns nil ended with the portal saying "online" or accepting a
\* login, also when it logged the user out on the way.
THEOREM OkRoundsAreOnline == Spec => []RoundOkMeansOnline
<1>1. IInv => RoundOkMeansOnline
  BY DEF IInv
<1>. QED
  BY <1>1, Invariance, PTL

----------------------------------------------------------------------------
(* When the failure counter falls *)

\* The step that DoLogin returns in lowers the counter only for a forced re-login
\* that succeeded.
LEMMA ReturnResets ==
  ASSUME NEW r \in {"ok", "err"}, TypeOK, LoginReturns(r), probeFailCount' < probeFailCount
  PROVE  caller = "forced" /\ r = "ok"
BY CountCapAssumption DEF LoginReturns, TypeOK, CountTypeOK

\* No step lowers the counter of failed probes without the evidence that
\* ResetNeedsEvidence names: in particular a failed forced re-login keeps it.
THEOREM ResetsAreEarned == Spec => ResetNeedsEvidence
<1> DEFINE Earned ==
      \/ streak' = 0
      \/ believed' \in {"off", "accepted"} /\ caller' # "forced"
      \/ caller' = "forced" /\ (believed' = "accepted" \/ cfg.dryRun)
<1>1. IInv /\ [Next]_vars => [probeFailCount' < probeFailCount => Earned]_vars
  <2>. SUFFICES ASSUME IInv, Next, probeFailCount' < probeFailCount PROVE Earned
    OBVIOUS
  <2>. USE DEF guardVars
  <2>0. probeFailCount \in Nat /\ TypeOK
    BY CountCapAssumption DEF IInv, TypeOK, CountTypeOK
  <2>1. probeFailCount' # probeFailCount
    BY <2>0
  <2>2. CASE StatusOffline
    BY <2>2, <2>1 DEF StatusOffline
  <2>3. CASE ProbeOK
    BY <2>3 DEF ProbeOK
  <2>4. CASE ProbeFail
    BY <2>4, CountUpCounts, <2>0 DEF ProbeFail, TypeOK, CountTypeOK
  <2>5. CASE SubmitAccepted
    BY <2>5, <2>0, ReturnResets DEF SubmitAccepted
  <2>6. CASE SubmitRejected
    BY <2>6, <2>0, ReturnResets DEF SubmitRejected
  <2>7. CASE ReauthLoad \/ ReauthIP \/ LoginLoad \/ LoginIP \/ Challenge \/ SubmitLost
    BY <2>7, <2>0, <2>1, ReturnResets DEF ReauthLoad, ReauthIP, LoginLoad, LoginIP, Challenge, SubmitLost
  <2>8. CASE Resolve \/ Prompt \/ StatusError \/ StatusOnline \/ Reconnect
    BY <2>8, <2>1 DEF Resolve, ResolveFound, ResolveMissing, Prompt, PromptAnswered,
       PromptFailed, PromptSaveFailed, StatusError, StatusOnline, Reconnect,
       ReconnectOK, ReconnectFails
  <2>9. CASE Logout \/ Agree \/ Tick \/ Shutdown \/ TimerFires \/ Interrupt
               \/ WorldChanges \/ Exited
    BY <2>9, <2>1 DEF Logout, Agree, Tick, Shutdown, TimerFires, Interrupt,
       WorldChanges, Exited, vars
  <2>. QED
    BY <2>2, <2>3, <2>4, <2>5, <2>6, <2>7, <2>8, <2>9
       DEF Next, GuardStep, Environment, Status, Probe, Reauth, DoLogin
<1>. QED
  BY <1>1, Invariance, PTL DEF Spec, ResetNeedsEvidence

----------------------------------------------------------------------------
(* The guard is a watchdog *)

\* A login that was not forced, and one yet to come at start-up, has no failures to
\* forget.
Unforced ==
  /\ pc \in {"resolve", "prompt"} => probeFailCount = 0
  /\ pc \in ReauthPoints \cup LoginPoints /\ caller # "forced" => probeFailCount = 0

WatchInv == IInv /\ Unforced

\* The phases of the program points.
LEMMA PhaseOfPoint ==
  /\ \A p \in {"resolve", "prompt"} : Phase(p) = "starting"
  /\ \A p \in StatusPoints \cup {"reconnect", "probe"} : Phase(p) = "looking"
  /\ \A p \in {"reauthLoad", "reauthIP"} : Phase(p) = "breaking"
  /\ Phase("logout") = "leaving"
  /\ \A p \in LoginPoints : Phase(p) = "joining"
  /\ Phase("select") = "idle"
  /\ \A p \in Terminal : Phase(p) = "ended"
BY DEF Phase, StatusPoints, LoginPoints, Terminal

\* Unforced is preserved: the counter grows before a forced login only, and falls to
\* zero where StatusOffline starts another one.
LEMMA NextUnforced == WatchInv /\ [Next]_vars => Unforced'
<1>. SUFFICES ASSUME WatchInv, [Next]_vars PROVE Unforced'
  OBVIOUS
<1>. USE DEF WatchInv, IInv, RoundFacts, Unforced, TypeOK, RoundTypeOK, guardVars
<1>. USE DEF StatusPoints, ReauthPoints, LoginPoints, Terminal
<1>1. CASE Resolve \/ Prompt
  BY <1>1 DEF Resolve, ResolveFound, ResolveMissing, Prompt, PromptAnswered,
     PromptFailed, PromptSaveFailed, Dispatch
<1>2. CASE Status
  BY <1>2 DEF Status, StatusError, StatusOnline, StatusOffline, OnUnreachable, Return
<1>3. CASE Reconnect \/ Probe
  BY <1>3 DEF Reconnect, ReconnectOK, ReconnectFails, Probe, ProbeOK, ProbeFail, Return
<1>4. CASE Reauth
  BY <1>4 DEF Reauth, ReauthLoad, ReauthIP, Logout, LoginReturns, Return
<1>5. CASE DoLogin
  BY <1>5 DEF DoLogin, LoginLoad, LoginIP, Agree, Challenge, SubmitAccepted,
     SubmitRejected, SubmitLost, LoginReturns, Return
<1>6. CASE Tick \/ Shutdown \/ TimerFires \/ Interrupt \/ WorldChanges \/ Exited \/ UNCHANGED vars
  BY <1>6 DEF Tick, Shutdown, TimerFires, Interrupt, WorldChanges, Exited, vars
<1>. QED
  BY <1>1, <1>2, <1>3, <1>4, <1>5, <1>6 DEF Next, GuardStep, Environment

\* The counter, compared with a threshold that the cap does not hide.
LEMMA StrikeCounts ==
  ASSUME cfg \in Configs, cfg' = cfg, probeFailCount \in 0..CountCap,
         probeFailCount' = CountUp(probeFailCount)
  PROVE  /\ Strikes' = IF Strikes < cfg.maxProbeFails THEN Strikes + 1 ELSE cfg.maxProbeFails
         /\ AtThreshold(CountUp(probeFailCount)) <=>
              cfg.maxProbeFails > 0 /\ Strikes' = cfg.maxProbeFails
<1>1. cfg.maxProbeFails \in Nat /\ cfg.maxProbeFails <= CountCap /\ CountCap \in Nat
  BY ConfigFields, CountCapAssumption
<1>. QED
  BY <1>1 DEF Strikes, CountUp, AtThreshold

\* The initial states are a watchdog's.
LEMMA InitWatches == Init => Dog!Init /\ Unforced
<1>. SUFFICES ASSUME Init PROVE Dog!Init /\ Unforced
  OBVIOUS
<1>1. cfg.mode \in {"daemon", "once", "reauth"} /\ cfg.maxProbeFails \in Nat
  BY ConfigFields DEF Init
<1>2. Strikes = 0 /\ Phase(pc) = "starting"
  BY <1>1, PhaseOfPoint DEF Init, Strikes
<1>3. Unforced
  BY DEF Init, Unforced, ReauthPoints, LoginPoints
<1>. QED
  BY <1>1, <1>2, <1>3 DEF Init, Dog!Init

\* Every step of the guard and of its environment is one of the watchdog's, or none.
LEMMA NextWatches == WatchInv /\ [Next]_vars => [Dog!Next]_Dog!vars
<1>. SUFFICES ASSUME WatchInv, [Next]_vars PROVE Dog!Next \/ UNCHANGED Dog!vars
  OBVIOUS
<1>. USE PhaseOfPoint
<1>. USE DEF guardVars, loopVars, StatusPoints, ReauthPoints, LoginPoints, Terminal
<1>. USE DEF Dog!Next, Dog!terms, Dog!vars
<1>0. /\ pc \in Points /\ hasCreds \in BOOLEAN /\ probeFailCount \in 0..CountCap
      /\ cfg \in Configs /\ cfg.maxProbeFails \in Nat
      /\ cfg.mode \in {"daemon", "once", "reauth"}
  BY ConfigFields DEF WatchInv, IInv, TypeOK, RoundTypeOK, CountTypeOK, LoopTypeOK
<1>a. cfg' = cfg /\ probeFailCount' = probeFailCount => Strikes' = Strikes
  BY DEF Strikes
<1>b. cfg' = cfg /\ probeFailCount' = 0 => Strikes' = 0
  BY <1>0 DEF Strikes
<1>1. CASE ResolveFound
  BY <1>1, <1>0, <1>a DEF ResolveFound, Dispatch, Dog!Start
<1>2. CASE ResolveMissing
  BY <1>2, <1>0, <1>a DEF ResolveMissing, Dispatch, Dog!Start
<1>3. CASE PromptAnswered
  BY <1>3, <1>0, <1>a DEF PromptAnswered, Dispatch, Dog!Start
<1>4. CASE PromptFailed
  BY <1>4, <1>0, <1>a DEF PromptFailed, Dispatch, Dog!Start
<1>5. CASE PromptSaveFailed
  BY <1>5, <1>0, <1>a DEF PromptSaveFailed, Dog!Stop
<1>6. CASE StatusError
  BY <1>6, <1>0, <1>a DEF StatusError, OnUnreachable, Return, Dog!Blind, Dog!EndRound
<1>7. CASE StatusOnline
  BY <1>7, <1>0, <1>a DEF StatusOnline
<1>8. CASE StatusOffline
  BY <1>8, <1>0, <1>a, <1>b DEF StatusOffline, Return, Dog!Offline, Dog!Blind, Dog!EndRound
<1>9. CASE ReconnectOK
  BY <1>9, <1>0, <1>a DEF ReconnectOK
<1>10. CASE ReconnectFails
  BY <1>10, <1>0, <1>a DEF ReconnectFails
<1>11. CASE ProbeOK
  BY <1>11, <1>0, <1>a, <1>b DEF ProbeOK, Return, Dog!Fine, Dog!EndRound
<1>12. CASE ProbeFail
  BY <1>12, <1>0, <1>a, StrikeCounts DEF ProbeFail, Return, Dog!Strike, Dog!EndRound
<1>13. CASE ReauthLoad
  BY <1>13, <1>0, <1>a DEF ReauthLoad, LoginReturns, Return, Dog!GiveUp, Dog!EndRound
<1>14. CASE ReauthIP
  BY <1>14, <1>0, <1>a DEF ReauthIP, LoginReturns, Return, Dog!Leave, Dog!GiveUp, Dog!EndRound
<1>15. CASE Logout
  BY <1>15, <1>0, <1>a DEF Logout, Dog!Join
<1>16. CASE LoginLoad
  BY <1>16, <1>0, <1>a DEF LoginLoad, LoginReturns, Return, Dog!NotJoined, Dog!EndRound
<1>17. CASE LoginIP
  BY <1>17, <1>0, <1>a DEF LoginIP, LoginReturns, Return, Dog!NotJoined, Dog!EndRound
<1>18. CASE Agree
  BY <1>18, <1>0, <1>a DEF Agree
<1>19. CASE Challenge
  BY <1>19, <1>0, <1>a DEF Challenge, LoginReturns, Return, Dog!NotJoined, Dog!EndRound
<1>20. CASE SubmitAccepted
  BY <1>20, <1>0, <1>a, <1>b DEF SubmitAccepted, LoginReturns, Return, Dog!Joined, Dog!EndRound, WatchInv, Unforced
<1>21. CASE SubmitRejected
  BY <1>21, <1>0, <1>a, <1>b DEF SubmitRejected, LoginReturns, Return, Dog!Joined, Dog!NotJoined, Dog!EndRound, WatchInv, Unforced
<1>22. CASE SubmitLost
  BY <1>22, <1>0, <1>a DEF SubmitLost, LoginReturns, Return, Dog!NotJoined, Dog!EndRound
<1>23. CASE Tick
  BY <1>23, <1>0, <1>a DEF Tick, Dog!Wake
<1>24. CASE Shutdown
  BY <1>24, <1>0, <1>a DEF Shutdown, Dog!Stop
<1>25. CASE TimerFires
  BY <1>25, <1>0, <1>a DEF TimerFires
<1>26. CASE Interrupt
  BY <1>26, <1>0, <1>a DEF Interrupt, Looping, Dog!Stop, Points
<1>27. CASE WorldChanges
  BY <1>27, <1>0, <1>a DEF WorldChanges
<1>28. CASE UNCHANGED vars
  BY <1>28, <1>a DEF vars
<1>. QED
  BY <1>1, <1>2, <1>3, <1>4, <1>5, <1>6, <1>7, <1>8, <1>9, <1>10, <1>11, <1>12, <1>13, <1>14, <1>15, <1>16, <1>17, <1>18, <1>19, <1>20, <1>21, <1>22, <1>23, <1>24, <1>25, <1>26, <1>27, <1>28
     DEF Next, GuardStep, Environment, Exited, Resolve, Prompt, Status, Reconnect,
         Probe, Reauth, DoLogin

\* The guard keeps its promise: whatever portal, network, timer and user do, it
\* breaks the session when that is due and only then, follows every logout with a
\* login, and forgets failures only when they are answered (EnsureConnected, Reauth,
\* DoLogin, the select loop).
THEOREM GuardWatches == Spec => KeepsWatch
<1>1. Init => Dog!Init /\ WatchInv
  BY InitWatches, InitIInv DEF WatchInv
<1>2. WatchInv /\ [Next]_vars => WatchInv'
  BY NextIInv, NextUnforced DEF WatchInv
<1>. QED
  BY <1>1, <1>2, NextWatches, PTL DEF Spec, KeepsWatch, Dog!Spec

=============================================================================
