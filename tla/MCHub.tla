------------------------------- MODULE MCHub -------------------------------
(***************************************************************************)
(* Small instances of Hub for TLC.                                         *)
(***************************************************************************)
EXTENDS Hub, TLC

Symmetry == Permutations(Conns) \cup Permutations(People \ {Host})

\* Bounds.  The ready gate changes nothing a page is told of an outcome; a
\* connection that has not joined is told nothing, and need not vote.
NoGate == waitForReady = FALSE /\ ready = {}
EveryVoterJoined == \A m \in Movies : votes[m][NoOne] = "none"

OutcomeBound == NoGate /\ EveryVoterJoined

NoNoVotes == \A m \in Movies, p \in People : votes[m][p] # "no"

\* For the status of the pages, also: one tab for each, and nothing dropped.
PagesBound ==
  /\ OutcomeBound
  /\ NoNoVotes
  /\ dropped = {}
  /\ endReason \in {"none", "host_ended"}
  /\ \A c, d \in Conns : ident[c] = ident[d] => c = d \/ ident[c] = NoOne

\* For liveness, also: only a match ends the session.  No fair action of
\* FairHubSpec changes what the bound looks at, so none leaves it.
LivenessBound ==
  /\ OutcomeBound
  /\ NoNoVotes
  /\ endReason = "none"

============================================================================
