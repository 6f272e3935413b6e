------------------------------ MODULE Showdown ------------------------------
(***************************************************************************)
(* What one session promises the room: a deck is dealt once, people approve *)
(* of movies and may change their minds, the first movie to collect the    *)
(* quorum is the winner at that very moment, and a session that ends       *)
(* without one may have a winner picked from its deck, once.               *)
(*                                                                         *)
(* There are no connections here, no roster, no ready gate and no fetch;   *)
(* module Session has them and implements this.                            *)
(***************************************************************************)
EXTENDS Naturals, FiniteSets

CONSTANTS Movies, NoMovie, Voters

VARIABLES
  phase,      \* lobby, active, matched or ended
  deck,       \* the movies dealt, none before the deal
  quorum,     \* how many approvals win
  approvals,  \* approvals[m]: who approves of m
  winner      \* the movie agreed on or picked, or NoMovie

vars == <<phase, deck, quorum, approvals, winner>>

Init ==
  /\ phase = "lobby"
  /\ deck = {}
  /\ quorum = 0
  /\ approvals = [m \in Movies |-> {}]
  /\ winner = NoMovie

\* Only the absence of a deck is asked for, so a session ended in its lobby can
\* still be dealt: the code looks at Locked, and this states what it keeps.
Deal ==
  /\ phase \in {"lobby", "ended"}
  /\ deck = {}
  /\ deck' \in (SUBSET Movies) \ {{}}
  /\ quorum' \in 1..Cardinality(Voters)
  /\ phase' = "active"
  /\ UNCHANGED <<approvals, winner>>

\* Approving wins at the quorum; short of it, the vote may exhaust the deck.
Approve(v, m) ==
  /\ phase = "active"
  /\ m \in deck
  /\ approvals' = [approvals EXCEPT ![m] = @ \cup {v}]
  /\ \/ /\ Cardinality(approvals'[m]) >= quorum
        /\ phase' = "matched"
        /\ winner' = m
     \/ /\ Cardinality(approvals'[m]) < quorum
        /\ phase' \in {"active", "ended"}
        /\ UNCHANGED winner
  /\ UNCHANGED <<deck, quorum>>

\* A no vote or an undo: it never wins, and it may be the last of the deck.
Withdraw(v, m) ==
  /\ phase = "active"
  /\ m \in deck
  /\ approvals' = [approvals EXCEPT ![m] = @ \ {v}]
  /\ phase' \in {"active", "ended"}
  /\ UNCHANGED <<deck, quorum, winner>>

Close ==
  /\ phase \in {"lobby", "active"}
  /\ phase' = "ended"
  /\ UNCHANGED <<deck, quorum, approvals, winner>>

Pick(m) ==
  /\ phase = "ended"
  /\ m \in deck
  /\ phase' = "matched"
  /\ winner' = m
  /\ UNCHANGED <<deck, quorum, approvals>>

Next ==
  \/ Deal
  \/ \E v \in Voters, m \in Movies : Approve(v, m) \/ Withdraw(v, m)
  \/ Close
  \/ \E m \in Movies : Pick(m)

Spec == Init /\ [][Next]_vars

=============================================================================
