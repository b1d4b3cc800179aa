--------------------------- MODULE MCUploadSessions ---------------------------
(***************************************************************************)
(* Model values and symmetry for UploadSessions.                           *)
(***************************************************************************)
EXTENDS UploadSessions, TLC

CONSTANTS u1, w1, w2, w3

OneId == {u1}
TwoWorkers == {w1, w2}
ThreeWorkers == {w1, w2, w3}

\* Workers are interchangeable in the safety properties.
WorkerSymmetry == Permutations(Workers)
===============================================================================
