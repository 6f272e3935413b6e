----------------------------- MODULE MCPosters -----------------------------
(***************************************************************************)
(* One poster under three tags, two requests and a worker of the warm-up:  *)
(* all three may fetch at once, each its own tag, or all the same.         *)
(***************************************************************************)
EXTENDS Posters

=============================================================================
