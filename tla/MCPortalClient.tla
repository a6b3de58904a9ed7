--------------------------- MODULE MCPortalClient ---------------------------
(***************************************************************************)
(* Jobs on which TLC checks PortalClient.                                  *)
(***************************************************************************)
EXTENDS PortalClient

\* DoLogin's challenge and login, under context.Background().
Login(retries) ==
  [need |-> "all", exchanges |-> 2, retryMax |-> retries, base |-> 1, timeout |-> 2,
   deadline |-> 0, gets |-> 2, idle |-> 0]
\* agreePortalProtocol's GET and POST.
Agreement(dead) == [Login(1) EXCEPT !.gets = 1, !.idle = dead]
\* internetReachable with two URLs; campusOnline with one.
Probe(urls, limit) ==
  [need |-> "any", exchanges |-> urls, retryMax |-> 2, base |-> 1, timeout |-> 2,
   deadline |-> limit, gets |-> urls, idle |-> 1]

AllJobs == { Login(0), Login(2), [Login(2) EXCEPT !.timeout = 3],
             [Login(1) EXCEPT !.idle = 2], Agreement(1),
             Probe(1, 5), Probe(2, 4), [Probe(2, 7) EXCEPT !.base = 2] }

\* The defaults, one tick for 4 s: probe timeout 30 s, client timeout 8 s.
DefaultProbe == {[Probe(1, 7) EXCEPT !.timeout = 2]}
=============================================================================
