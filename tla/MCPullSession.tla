---------------------------- MODULE MCPullSession ----------------------------
(***************************************************************************)
(* Model values for PullSession.                                           *)
(***************************************************************************)
EXTENDS PullSession

CONSTANTS e1, e2, t1, t2

TwoEvents == {e1, e2}
OneEvent == {e1}
TwoThreads == {t1, t2}
OneThread == {t1}
=============================================================================
