--------------------------- MODULE MCApplication ---------------------------
(***************************************************************************)
(* Instances of Application for TLC; the configurations choose the sets of *)
(* ids, the bounds and the faults.                                         *)
(***************************************************************************)
EXTENDS Application, TLC

\* BAL, FCM and group ids are interchangeable.
IdSymmetry == Permutations(DownIds) \cup Permutations(UpIds) \cup Permutations(Groups)
=============================================================================
