----------------------------- MODULE MCPidLock -----------------------------
(***************************************************************************)
(* Instances of PidLock for TLC.                                           *)
(***************************************************************************)
EXTENDS PidLock

CONSTANTS p1, p2, p3
ThreeProcs == {p1, p2, p3}
TwoProcs == {p1, p2}
=============================================================================
