----------------------------- MODULE MCSession -----------------------------
(***************************************************************************)
(* Small instances of Session for TLC.  The model values of each set are   *)
(* interchangeable, the host apart.                                        *)
(***************************************************************************)
EXTENDS Session, TLC

Symmetry ==
  Permutations(Conns) \cup Permutations(People \ {Host}) \cup Permutations(Movies)

============================================================================
