----------------------------- MODULE MCEventLoop -----------------------------
(***************************************************************************)
(* Instances of EventLoop for TLC.                                         *)
(***************************************************************************)
EXTENDS EventLoop, TLC

\* Clients are interchangeable (safety runs only).
Symmetry == Permutations(Conns)
==============================================================================
