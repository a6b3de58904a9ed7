------------------------------ MODULE Exchange ------------------------------
(***************************************************************************)
(* What the portal client promises its callers about one job, a list of    *)
(* exchanges: requests may be carried out several times, by then or later, *)
(* but a job succeeds only if the exchanges it needed were carried out.    *)
(***************************************************************************)
EXTENDS Naturals

\* The terms of a job: how many exchanges, whether all of them must succeed
\* (otherwise any), and how often the portal may carry out each.
Terms == [exchanges : Nat, all : BOOLEAN, limit : Nat]

VARIABLES
  terms,     \* never change
  executed,  \* how often each exchange was carried out
  outcome    \* "pending", "ok" or "failed"

Exchanges == 1..terms.exchanges
Done == {i \in Exchanges : executed[i] > 0}

Init ==
  /\ terms \in Terms
  /\ executed = [i \in Exchanges |-> 0] /\ outcome = "pending"

\* An exchange is carried out, in the order of the list if all are needed.
Execute(i) ==
  /\ executed[i] < terms.limit
  /\ terms.all => \A j \in Exchanges : j < i => j \in Done
  /\ executed' = [executed EXCEPT ![i] = @ + 1]
  /\ UNCHANGED <<terms, outcome>>

Succeed ==
  /\ outcome = "pending" /\ outcome' = "ok"
  /\ IF terms.all THEN Done = Exchanges ELSE Done # {}
  /\ UNCHANGED <<terms, executed>>

Fail == outcome = "pending" /\ outcome' = "failed" /\ UNCHANGED <<terms, executed>>

Next == (\E i \in Exchanges : Execute(i)) \/ Succeed \/ Fail
Spec == Init /\ [][Next]_<<terms, executed, outcome>>
=============================================================================
