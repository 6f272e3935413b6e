--------------------------- MODULE SessionProofs ---------------------------
(***************************************************************************)
(* Proofs about Session, for any sets of connections, people and movies.   *)
(***************************************************************************)
EXTENDS Session, FiniteSetTheorems, TLAPS

----------------------------------------------------------------------------
(***************************************************************************)
(* Cardinality facts the vote count rests on.                              *)
(***************************************************************************)

LEMMA VotersFinite == IsFiniteSet(Voters)
  BY FiniteAssumption, FS_AddElement DEF Voters

LEMMA YesCountInNat ==
  ASSUME NEW ballot
  PROVE  /\ IsFiniteSet(YesVoters(ballot))
         /\ Cardinality(YesVoters(ballot)) \in Nat
<1>1. YesVoters(ballot) \subseteq Voters
  BY DEF YesVoters
<1>2. IsFiniteSet(YesVoters(ballot))
  BY <1>1, VotersFinite, FS_Subset
<1>3. QED
  BY <1>2, FS_CardinalityType

LEMMA YesCountMonotone ==
  ASSUME NEW a, NEW b, YesVoters(a) \subseteq YesVoters(b)
  PROVE  Cardinality(YesVoters(a)) <= Cardinality(YesVoters(b))
  BY YesCountInNat, FS_Subset

LEMMA RosterCount ==
  ASSUME NEW S \in SUBSET People, Host \in S
  PROVE  Cardinality(S) \in Nat \ {0}
<1>1. IsFiniteSet(S)
  BY FiniteAssumption, FS_Subset
<1>2. Cardinality(S) \in Nat /\ Cardinality(S) # 0
  BY <1>1, FS_CardinalityType, FS_EmptySet
<1>3. QED
  BY <1>2

----------------------------------------------------------------------------
(***************************************************************************)
(* Type correctness.                                                       *)
(***************************************************************************)

\* Every variable of a session keeps its type.
THEOREM TypeCorrect == Spec => []TypeOK
<1>1. Init => TypeOK
  <2> SUFFICES ASSUME Init
               PROVE  TypeOK
    OBVIOUS
  <2>1. /\ votes \in [Movies -> [Voters -> {"yes", "no", "none"}]]
        /\ lastSwipe \in [Voters -> Swipes \cup {NoSwipe}]
    BY DEF Init
  <2>2. /\ clients \in [People -> Conns \cup {NoConn}]
        /\ phase \in [Conns -> {"closed", "reading", "fetching"}]
    BY DEF Init
  <2>3. ident \in [Conns -> Voters] /\ token \in [Conns -> Voters]
    BY DEF Init, Voters
  <2>4. QED
    BY <2>1, <2>2, <2>3, HostAssumption DEF Init, TypeOK, Statuses, EndReasons
<1>2. TypeOK /\ [Next]_vars => TypeOK'
  <2> SUFFICES ASSUME TypeOK, [Next]_vars
               PROVE  TypeOK'
    OBVIOUS
  <2> USE DEF TypeOK, Statuses, EndReasons, roomVars, peopleVars, voteVars, connVars
  <2>1. ASSUME NEW c \in Conns, NEW t \in roster \cup {NoOne}, Connect(c, t)
        PROVE  TypeOK'
    BY <2>1 DEF Connect, Voters
  <2>2. ASSUME NEW c \in Conns, NEW p \in People, Join(c, p)
        PROVE  TypeOK'
    BY <2>2 DEF Join, Voters
  <2>3. ASSUME NEW c \in Conns, Disconnect(c)
        PROVE  TypeOK'
    BY <2>3 DEF Disconnect, Attached, Voters
  <2>4. ASSUME NEW c \in Conns, NEW wait \in BOOLEAN, HostOptions(c, wait)
        PROVE  TypeOK'
    BY <2>4 DEF HostOptions
  <2>5. ASSUME NEW c \in Conns, NEW isReady \in BOOLEAN, Ready(c, isReady)
        PROVE  TypeOK'
    BY <2>5 DEF Ready
  <2>6. ASSUME NEW c \in Conns, HostStartBegin(c)
        PROVE  TypeOK'
    BY <2>6 DEF HostStartBegin
  <2>7. ASSUME NEW c \in Conns, HostStartFail(c)
        PROVE  TypeOK'
    BY <2>7 DEF HostStartFail
  <2>8. ASSUME NEW c \in Conns, NEW d \in SUBSET Movies, NEW n \in RequestedCounts,
               HostStartCommit(c, d, n)
        PROVE  TypeOK'
    <3>1. ClampRequired(n) \in Nat
      BY FiniteAssumption, FS_Subset, FS_CardinalityType DEF ClampRequired
    <3>2. QED
      BY <2>8, <3>1 DEF HostStartCommit
  <2>9. ASSUME NEW c \in Conns, NEW m \in Movies, NEW dir \in {"yes", "no"},
               Swipe(c, m, dir)
        PROVE  TypeOK'
    BY <2>9 DEF Swipe, Swipes
  <2>10. ASSUME NEW c \in Conns, Undo(c)
         PROVE  TypeOK'
    BY <2>10 DEF Undo
  <2>11. ASSUME NEW c \in Conns, NEW m \in Movies, HostPick(c, m)
         PROVE  TypeOK'
    BY <2>11 DEF HostPick
  <2>12. ASSUME NEW c \in Conns, HostEnd(c)
         PROVE  TypeOK'
    BY <2>12 DEF HostEnd
  <2>13. CASE EndAll
    BY <2>13 DEF EndAll
  <2>14. CASE UNCHANGED vars
    BY <2>14 DEF vars
  <2>15. QED
    BY <2>1, <2>2, <2>3, <2>4, <2>5, <2>6, <2>7, <2>8, <2>9, <2>10, <2>11,
       <2>12, <2>13, <2>14 DEF Next, Handler
<1>3. QED
  BY <1>1, <1>2, PTL DEF Spec

----------------------------------------------------------------------------
(***************************************************************************)
(* The inductive invariant, in three parts that lean on each other from    *)
(* left to right: what the deal fixes, how connections and participants    *)
(* are paired, and what the votes amount to.                               *)
(***************************************************************************)

\* Locked, a deck and a status past the lobby come together.  ThresholdReachable
\* and GateHeld are kept because a locked session's roster no longer grows.
DealInv ==
  /\ locked <=> deck # {}
  /\ locked => status # "lobby"
  /\ status \in {"active", "matched"} => locked
  /\ Host \in roster
  /\ WinnerOfDeck
  /\ ThresholdReachable
  /\ GateHeld

\* A connection that has joined holds its participant's token, so that a second
\* join cannot turn it into someone else while the first is still attached.
ConnInv ==
  /\ ConnectedIsAttached
  /\ \A c \in Conns :
       /\ ident[c] # NoOne => ident[c] \in roster /\ token[c] = ident[c]
       /\ phase[c] = "closed" => ident[c] = NoOne

\* The second part of UndoTargetsLiveVote says that an undealt session, whose
\* deck is empty, has no votes: the deal starts from zero yeses.
VoteInv == UndoTargetsLiveVote /\ AgreementIsAMatch

IInv == TypeOK /\ DealInv /\ ConnInv /\ VoteInv

----------------------------------------------------------------------------
LEMMA DealInvInit == Init => DealInv
  BY NoneAssumption DEF Init, DealInv, WinnerOfDeck, ThresholdReachable, GateHeld

LEMMA DealInvNext == TypeOK /\ DealInv /\ [Next]_vars => DealInv'
  <2> SUFFICES ASSUME TypeOK, DealInv, [Next]_vars
               PROVE  DealInv'
    OBVIOUS
  <2> USE DEF DealInv, WinnerOfDeck, ThresholdReachable, GateHeld,
              roomVars, peopleVars, voteVars, connVars
  <2>1. ASSUME NEW c \in Conns, NEW t \in roster \cup {NoOne}, Connect(c, t)
        PROVE  DealInv'
    BY <2>1 DEF Connect
  <2>2. ASSUME NEW c \in Conns, NEW p \in People, Join(c, p)
        PROVE  DealInv'
    <3>1. locked => roster' = roster
      BY <2>2 DEF Join, JoinsAs
    <3>2. QED
      BY <2>2, <3>1 DEF Join
  <2>3. ASSUME NEW c \in Conns, Disconnect(c)
        PROVE  DealInv'
    BY <2>3 DEF Disconnect
  <2>4. ASSUME NEW c \in Conns, NEW wait \in BOOLEAN, HostOptions(c, wait)
        PROVE  DealInv'
    BY <2>4 DEF HostOptions
  <2>5. ASSUME NEW c \in Conns, NEW isReady \in BOOLEAN, Ready(c, isReady)
        PROVE  DealInv'
    BY <2>5 DEF Ready
  <2>6. ASSUME NEW c \in Conns, HostStartBegin(c)
        PROVE  DealInv'
    BY <2>6 DEF HostStartBegin
  <2>7. ASSUME NEW c \in Conns, HostStartFail(c)
        PROVE  DealInv'
    BY <2>7 DEF HostStartFail
  <2>8. ASSUME NEW c \in Conns, NEW d \in SUBSET Movies, NEW n \in RequestedCounts,
               HostStartCommit(c, d, n)
        PROVE  DealInv'
    <3>1. Cardinality(roster) \in Nat \ {0}
      BY RosterCount DEF TypeOK
    <3>2. ClampRequired(n) \in 1..Cardinality(roster)
      BY <3>1 DEF ClampRequired
    <3>3. ~locked /\ (waitForReady => roster \ {Host} \subseteq ready)
      BY <2>8 DEF HostStartCommit, MayStart, UnreadyGuests
    <3>4. QED
      BY <2>8, <3>2, <3>3 DEF HostStartCommit
  <2>9. ASSUME NEW c \in Conns, NEW m \in Movies, NEW dir \in {"yes", "no"},
               Swipe(c, m, dir)
        PROVE  DealInv'
    BY <2>9, NoneAssumption DEF Swipe
  <2>10. ASSUME NEW c \in Conns, Undo(c)
         PROVE  DealInv'
    BY <2>10 DEF Undo
  <2>11. ASSUME NEW c \in Conns, NEW m \in Movies, HostPick(c, m)
         PROVE  DealInv'
    BY <2>11, NoneAssumption DEF HostPick
  <2>12. ASSUME NEW c \in Conns, HostEnd(c)
         PROVE  DealInv'
    BY <2>12 DEF HostEnd
  <2>13. CASE EndAll
    BY <2>13 DEF EndAll, TypeOK, Statuses
  <2>14. CASE UNCHANGED vars
    BY <2>14 DEF vars
  <2>15. QED
    BY <2>1, <2>2, <2>3, <2>4, <2>5, <2>6, <2>7, <2>8, <2>9, <2>10, <2>11,
       <2>12, <2>13, <2>14 DEF Next, Handler

----------------------------------------------------------------------------
LEMMA ConnInvInit == Init => ConnInv
  BY DEF Init, ConnInv, ConnectedIsAttached

LEMMA ConnInvNext == TypeOK /\ ConnInv /\ [Next]_vars => ConnInv'
  <2> SUFFICES ASSUME TypeOK, ConnInv, [Next]_vars
               PROVE  ConnInv'
    OBVIOUS
  <2> USE DEF TypeOK, ConnInv, ConnectedIsAttached,
              roomVars, peopleVars, voteVars, connVars
  <2>1. ASSUME NEW c \in Conns, NEW t \in roster \cup {NoOne}, Connect(c, t)
        PROVE  ConnInv'
    BY <2>1, NoneAssumption DEF Connect, Voters
  <2>2. ASSUME NEW c \in Conns, NEW p \in People, Join(c, p)
        PROVE  ConnInv'
    \* c was attached to p already or to no one
    <3>1. \A q \in People : clients[q] = c => q = p
      BY <2>2, NoneAssumption DEF Join, JoinsAs
    <3>2. /\ ident' = [ident EXCEPT ![c] = p]
          /\ token' = [token EXCEPT ![c] = p]
          /\ clients' = [clients EXCEPT ![p] = c]
          /\ connected' = connected \cup {p}
          /\ roster' = roster \cup {p}
          /\ phase' = phase
          /\ phase[c] = "reading"
      BY <2>2 DEF Join
    <3>3. ConnectedIsAttached'
      BY <3>1, <3>2, NoneAssumption
    <3>4. QED
      BY <3>2, <3>3
  <2>3. ASSUME NEW c \in Conns, Disconnect(c)
        PROVE  ConnInv'
    <3>1. CASE Attached(c)
      BY <2>3, <3>1, NoneAssumption DEF Disconnect, Attached, Voters
    <3>2. CASE ~Attached(c)
      BY <2>3, <3>2, NoneAssumption DEF Disconnect, Attached, Voters
    <3>3. QED
      BY <3>1, <3>2
  <2>4. ASSUME NEW c \in Conns, NEW wait \in BOOLEAN, HostOptions(c, wait)
        PROVE  ConnInv'
    BY <2>4 DEF HostOptions
  <2>5. ASSUME NEW c \in Conns, NEW isReady \in BOOLEAN, Ready(c, isReady)
        PROVE  ConnInv'
    BY <2>5 DEF Ready
  <2>6. ASSUME NEW c \in Conns, HostStartBegin(c)
        PROVE  ConnInv'
    BY <2>6 DEF HostStartBegin
  <2>7. ASSUME NEW c \in Conns, HostStartFail(c)
        PROVE  ConnInv'
    BY <2>7 DEF HostStartFail
  <2>8. ASSUME NEW c \in Conns, NEW d \in SUBSET Movies, NEW n \in RequestedCounts,
               HostStartCommit(c, d, n)
        PROVE  ConnInv'
    BY <2>8 DEF HostStartCommit
  <2>9. ASSUME NEW c \in Conns, NEW m \in Movies, NEW dir \in {"yes", "no"},
               Swipe(c, m, dir)
        PROVE  ConnInv'
    BY <2>9 DEF Swipe
  <2>10. ASSUME NEW c \in Conns, Undo(c)
         PROVE  ConnInv'
    BY <2>10 DEF Undo
  <2>11. ASSUME NEW c \in Conns, NEW m \in Movies, HostPick(c, m)
         PROVE  ConnInv'
    BY <2>11 DEF HostPick
  <2>12. ASSUME NEW c \in Conns, HostEnd(c)
         PROVE  ConnInv'
    BY <2>12 DEF HostEnd
  <2>13. CASE EndAll
    BY <2>13 DEF EndAll
  <2>14. CASE UNCHANGED vars
    BY <2>14 DEF vars
  <2>15. QED
    BY <2>1, <2>2, <2>3, <2>4, <2>5, <2>6, <2>7, <2>8, <2>9, <2>10, <2>11,
       <2>12, <2>13, <2>14 DEF Next, Handler

----------------------------------------------------------------------------
LEMMA VoteInvInit == Init => VoteInv
  BY DEF Init, VoteInv, UndoTargetsLiveVote, AgreementIsAMatch

\* A swipe changes one voter's vote on one movie: short of a win that movie
\* stays below the threshold, and a swipe that is no yes takes nothing up to it.
LEMMA SwipeKeepsVoteInv ==
  ASSUME TypeOK, DealInv, VoteInv,
         NEW c \in Conns, NEW m \in Movies, NEW dir \in {"yes", "no"},
         Swipe(c, m, dir)
  PROVE  VoteInv'
<1> DEFINE v == ident[c]
<1>1. /\ v \in Voters /\ m \in deck
      /\ votes' = [votes EXCEPT ![m][v] = dir]
      /\ lastSwipe' = [lastSwipe EXCEPT ![v] = [movie |-> m, dir |-> dir]]
      /\ deck' = deck /\ requiredCount' = requiredCount /\ locked' = locked
      /\ status = "active"
  BY DEF Swipe, TypeOK, roomVars
<1>2. UndoTargetsLiveVote'
  BY <1>1 DEF TypeOK, VoteInv, UndoTargetsLiveVote, Swipes, NoSwipe
<1>3. ASSUME status' \in {"active", "ended"}, NEW x \in deck
      PROVE  Cardinality(YesVoters(votes'[x])) < requiredCount
  <2>1. /\ Cardinality(YesVoters(votes[x])) < requiredCount
        /\ requiredCount \in Nat
    BY <1>1 DEF DealInv, VoteInv, AgreementIsAMatch, TypeOK
  <2>2. CASE x # m
    BY <1>1, <2>1, <2>2 DEF TypeOK
  <2>3. CASE x = m /\ dir = "yes"
    <3>1. ~Wins(votes'[m], dir)
      BY <1>3 DEF Swipe
    <3>2. QED
      BY <2>1, <2>3, <3>1, YesCountInNat DEF Wins
  <2>4. CASE x = m /\ dir = "no"
    <3>1. YesVoters(votes'[x]) \subseteq YesVoters(votes[x])
      BY <1>1, <2>4 DEF YesVoters, TypeOK
    <3>2. Cardinality(YesVoters(votes'[x])) <= Cardinality(YesVoters(votes[x]))
      BY <3>1, YesCountMonotone
    <3>3. QED
      BY <2>1, <3>2, YesCountInNat
  <2>5. QED
    BY <2>2, <2>3, <2>4
<1>4. AgreementIsAMatch'
  BY <1>1, <1>3 DEF AgreementIsAMatch
<1>5. QED
  BY <1>2, <1>4 DEF VoteInv

LEMMA UndoKeepsVoteInv ==
  ASSUME TypeOK, VoteInv, NEW c \in Conns, Undo(c)
  PROVE  VoteInv'
<1> DEFINE v == ident[c]
           m == lastSwipe[v].movie
<1>1. /\ v \in Voters /\ lastSwipe[v] # NoSwipe
      /\ votes' = [votes EXCEPT ![m][v] = "none"]
      /\ lastSwipe' = [lastSwipe EXCEPT ![v] = NoSwipe]
      /\ UNCHANGED <<deck, requiredCount, locked, status>>
  BY DEF Undo, TypeOK, roomVars
<1>2. lastSwipe[v] \in Swipes /\ m \in Movies
  BY <1>1 DEF TypeOK, Swipes
<1>3. UndoTargetsLiveVote'
  BY <1>1, <1>2 DEF TypeOK, VoteInv, UndoTargetsLiveVote
<1>4. AgreementIsAMatch'
  <2> SUFFICES ASSUME locked, status \in {"active", "ended"}, NEW x \in deck
               PROVE  Cardinality(YesVoters(votes'[x])) < requiredCount
    BY <1>1 DEF AgreementIsAMatch
  <2>1. Cardinality(YesVoters(votes[x])) < requiredCount
    BY DEF VoteInv, AgreementIsAMatch
  <2>2. YesVoters(votes'[x]) \subseteq YesVoters(votes[x])
    BY <1>1, <1>2 DEF YesVoters, TypeOK
  <2>3. Cardinality(YesVoters(votes'[x])) <= Cardinality(YesVoters(votes[x]))
    BY <2>2, YesCountMonotone
  <2>4. QED
    BY <2>1, <2>3, YesCountInNat DEF TypeOK
<1>5. QED
  BY <1>3, <1>4 DEF VoteInv

LEMMA CommitKeepsVoteInv ==
  ASSUME TypeOK, DealInv, VoteInv, NEW c \in Conns,
         NEW d \in SUBSET Movies, NEW n \in RequestedCounts,
         HostStartCommit(c, d, n), DealInv'
  PROVE  VoteInv'
<1>1. /\ deck = {} /\ deck' = d /\ locked'
      /\ UNCHANGED <<votes, lastSwipe>>
  BY DEF HostStartCommit, MayStart, DealInv, voteVars
<1>2. \A x \in Movies, w \in Voters : votes[x][w] = "none"
  BY <1>1 DEF VoteInv, UndoTargetsLiveVote
<1>3. UndoTargetsLiveVote'
  BY <1>1, <1>2 DEF VoteInv, UndoTargetsLiveVote
<1>4. ASSUME NEW x \in d
      PROVE  Cardinality(YesVoters(votes'[x])) = 0
  <2>1. YesVoters(votes'[x]) = {}
    BY <1>1, <1>2 DEF YesVoters
  <2>2. QED
    BY <2>1, FS_EmptySet
<1>5. requiredCount' > 0
  <2>1. Cardinality(roster') \in Nat \ {0}
    BY RosterCount DEF HostStartCommit, peopleVars, TypeOK, DealInv
  <2>2. QED
    BY <1>1, <2>1 DEF DealInv, ThresholdReachable
<1>6. QED
  BY <1>1, <1>3, <1>4, <1>5 DEF VoteInv, AgreementIsAMatch

LEMMA VoteInvNext ==
  TypeOK /\ DealInv /\ VoteInv /\ [Next]_vars /\ DealInv' => VoteInv'
  <2> SUFFICES ASSUME TypeOK, DealInv, VoteInv, [Next]_vars, DealInv'
               PROVE  VoteInv'
    OBVIOUS
  <2> USE DEF roomVars, peopleVars, voteVars, connVars
  <2>0. ASSUME UNCHANGED <<votes, lastSwipe, deck, requiredCount, locked>>,
               status' \in {"active", "ended"} => status \in {"active", "ended"} \/ ~locked
        PROVE  VoteInv'
    BY <2>0 DEF VoteInv, UndoTargetsLiveVote, AgreementIsAMatch
  <2>1. ASSUME NEW c \in Conns, NEW t \in roster \cup {NoOne}, Connect(c, t)
        PROVE  VoteInv'
    BY <2>0, <2>1 DEF Connect
  <2>2. ASSUME NEW c \in Conns, NEW p \in People, Join(c, p)
        PROVE  VoteInv'
    BY <2>0, <2>2 DEF Join
  <2>3. ASSUME NEW c \in Conns, Disconnect(c)
        PROVE  VoteInv'
    BY <2>0, <2>3 DEF Disconnect
  <2>4. ASSUME NEW c \in Conns, NEW wait \in BOOLEAN, HostOptions(c, wait)
        PROVE  VoteInv'
    BY <2>0, <2>4 DEF HostOptions
  <2>5. ASSUME NEW c \in Conns, NEW isReady \in BOOLEAN, Ready(c, isReady)
        PROVE  VoteInv'
    BY <2>0, <2>5 DEF Ready
  <2>6. ASSUME NEW c \in Conns, HostStartBegin(c)
        PROVE  VoteInv'
    BY <2>0, <2>6 DEF HostStartBegin
  <2>7. ASSUME NEW c \in Conns, HostStartFail(c)
        PROVE  VoteInv'
    BY <2>0, <2>7 DEF HostStartFail
  <2>8. ASSUME NEW c \in Conns, NEW d \in SUBSET Movies, NEW n \in RequestedCounts,
               HostStartCommit(c, d, n)
        PROVE  VoteInv'
    BY <2>8, CommitKeepsVoteInv
  <2>9. ASSUME NEW c \in Conns, NEW m \in Movies, NEW dir \in {"yes", "no"},
               Swipe(c, m, dir)
        PROVE  VoteInv'
    BY <2>9, SwipeKeepsVoteInv
  <2>10. ASSUME NEW c \in Conns, Undo(c)
         PROVE  VoteInv'
    BY <2>10, UndoKeepsVoteInv
  <2>11. ASSUME NEW c \in Conns, NEW m \in Movies, HostPick(c, m)
         PROVE  VoteInv'
    BY <2>0, <2>11 DEF HostPick
  <2>12. ASSUME NEW c \in Conns, HostEnd(c)
         PROVE  VoteInv'
    BY <2>0, <2>12 DEF HostEnd
  <2>13. CASE EndAll
    BY <2>0, <2>13 DEF EndAll, TypeOK, Statuses, DealInv
  <2>14. CASE UNCHANGED vars
    BY <2>0, <2>14 DEF vars
  <2>15. QED
    BY <2>1, <2>2, <2>3, <2>4, <2>5, <2>6, <2>7, <2>8, <2>9, <2>10, <2>11,
       <2>12, <2>13, <2>14 DEF Next, Handler

----------------------------------------------------------------------------
(***************************************************************************)
(* The theorems.                                                           *)
(***************************************************************************)

\* The inductive invariant holds in every reachable state.
THEOREM SessionInvariant == Spec => []IInv
<1>1. Init => DealInv /\ ConnInv /\ VoteInv
  BY DealInvInit, ConnInvInit, VoteInvInit
<1>2. TypeOK /\ TypeOK' /\ (DealInv /\ ConnInv /\ VoteInv) /\ [Next]_vars
        => (DealInv /\ ConnInv /\ VoteInv)'
  BY DealInvNext, ConnInvNext, VoteInvNext
<1>3. QED
  BY <1>1, <1>2, TypeCorrect, PTL DEF Spec, IInv

\* No session that runs or ends undecided holds a movie with enough yeses.
THEOREM AgreementNeverMissed == Spec => []AgreementIsAMatch
<1>1. IInv => AgreementIsAMatch
  BY DEF IInv, VoteInv
<1>2. QED
  BY <1>1, SessionInvariant, PTL

\* Whatever the host asks for, a dealt session can reach its threshold.
THEOREM ThresholdIsReachable == Spec => []ThresholdReachable
<1>1. IInv => ThresholdReachable
  BY DEF IInv, DealInv
<1>2. QED
  BY <1>1, SessionInvariant, PTL

\* No guest who is not ready is in a dealt session that has the gate on.
THEOREM GateIsHeld == Spec => []GateHeld
<1>1. IInv => GateHeld
  BY DEF IInv, DealInv
<1>2. QED
  BY <1>1, SessionInvariant, PTL

\* A session is matched exactly when it has a winner, which is of its deck.
THEOREM WinnerIsOfDeck == Spec => []WinnerOfDeck
<1>1. IInv => WinnerOfDeck
  BY DEF IInv, DealInv
<1>2. QED
  BY <1>1, SessionInvariant, PTL

\* The Connected flags and the clients map agree through every reconnect.
THEOREM ConnectionsPaired == Spec => []ConnectedIsAttached
<1>1. IInv => ConnectedIsAttached
  BY DEF IInv, ConnInv
<1>2. QED
  BY <1>1, SessionInvariant, PTL

\* Undo takes back a vote that is there.
THEOREM UndoSound == Spec => []UndoTargetsLiveVote
<1>1. IInv => UndoTargetsLiveVote
  BY DEF IInv, VoteInv
<1>2. QED
  BY <1>1, SessionInvariant, PTL

----------------------------------------------------------------------------
\* The step that agrees takes the count from below the threshold to exactly it.
THEOREM MatchIsEarned == Spec => MatchEarned
<1> DEFINE Earned ==
             status = "active" /\ status' = "matched" =>
               /\ Cardinality(YesVoters(votes'[winner'])) = requiredCount
               /\ Cardinality(YesVoters(votes[winner'])) < requiredCount
<1>1. IInv /\ [Next]_vars => [Earned]_vars
  <2> SUFFICES ASSUME IInv, Next, status = "active", status' = "matched"
               PROVE  Earned
    OBVIOUS
  <2> USE DEF roomVars, peopleVars, voteVars, connVars
  <2>1. PICK c \in Conns, m \in Movies, dir \in {"yes", "no"} : Swipe(c, m, dir)
    BY DEF Next, Handler, Connect, Join, Disconnect, HostOptions, Ready,
           HostStartBegin, HostStartFail, HostStartCommit, Undo, HostPick,
           HostEnd, EndAll
  <2>2. /\ winner' = m /\ m \in deck
        /\ Wins(votes'[m], dir)
        /\ votes' = [votes EXCEPT ![m][ident[c]] = dir]
    BY <2>1 DEF Swipe
  <2>3. /\ Cardinality(YesVoters(votes[m])) < requiredCount
        /\ requiredCount \in Nat
    BY <2>2 DEF IInv, DealInv, VoteInv, AgreementIsAMatch, TypeOK
  <2>4. YesVoters(votes'[m]) = YesVoters(votes[m]) \cup {ident[c]}
    BY <2>2 DEF Wins, YesVoters, IInv, TypeOK
  <2>5. Cardinality(YesVoters(votes'[m])) <= Cardinality(YesVoters(votes[m])) + 1
    <3>1. IsFiniteSet(YesVoters(votes[m]))
      BY YesCountInNat
    <3>2. Cardinality(YesVoters(votes[m]) \cup {ident[c]})
            <= Cardinality(YesVoters(votes[m])) + 1
      BY <3>1, YesCountInNat, FS_AddElement
    <3>3. QED
      BY <2>4, <3>2
  <2>6. Cardinality(YesVoters(votes'[m])) >= requiredCount
    BY <2>2 DEF Wins
  <2>7. QED
    BY <2>2, <2>3, <2>5, <2>6, YesCountInNat
<1>2. QED
  BY <1>1, SessionInvariant, PTL DEF Spec, MatchEarned

\* Only a connection that leaves while attached takes its participant offline.
THEOREM OfflineOnlyByOwnLeave == Spec => OfflineByOwnLeave
<1> DEFINE Own == \A p \in connected :
                    p \notin connected' => phase'[clients[p]] = "closed"
<1>1. IInv /\ [Next]_vars => [Own]_vars
  <2> SUFFICES ASSUME IInv, Next, NEW p \in connected, p \notin connected'
               PROVE  phase'[clients[p]] = "closed"
    OBVIOUS
  <2> USE DEF roomVars, peopleVars, voteVars, connVars
  <2>1. PICK c \in Conns : Disconnect(c)
    BY DEF Next, Handler, Connect, Join, HostOptions, Ready, HostStartBegin,
           HostStartFail, HostStartCommit, Swipe, Undo, HostPick, HostEnd, EndAll
  <2>2. Attached(c) /\ p = ident[c]
    BY <2>1 DEF Disconnect, IInv, TypeOK
  <2>3. phase'[c] = "closed"
    BY <2>1 DEF Disconnect, IInv, TypeOK
  <2>4. QED
    BY <2>2, <2>3 DEF Attached
<1>2. QED
  BY <1>1, SessionInvariant, PTL DEF Spec, OfflineByOwnLeave

\* After the commit of host:start nothing it fixed changes, whichever other
\* tab of the host was still fetching.
THEOREM DeckDealtOnce == Spec => DealtOnce
<1>1. IInv /\ [Next]_vars =>
        [locked => UNCHANGED <<locked, deck, requiredCount, roster, waitForReady>>]_vars
  <2> SUFFICES ASSUME IInv, Next, locked
               PROVE  UNCHANGED <<locked, deck, requiredCount, roster, waitForReady>>
    OBVIOUS
  <2> USE DEF roomVars, peopleVars, voteVars, connVars
  <2>1. status # "lobby"
    BY DEF IInv, DealInv
  <2>2. ASSUME NEW c \in Conns, NEW p \in People, Join(c, p)
        PROVE  UNCHANGED <<locked, deck, requiredCount, roster, waitForReady>>
    BY <2>1, <2>2 DEF Join, JoinsAs
  <2>3. QED
    BY <2>1, <2>2 DEF Next, Handler, Connect, Disconnect, HostOptions, Ready,
           HostStartBegin, HostStartFail, HostStartCommit, MayStart, Swipe, Undo,
           HostPick, HostEnd, EndAll
<1>2. QED
  BY <1>1, SessionInvariant, PTL DEF Spec, DealtOnce

\* A winner is final, and a dealt session that has ended keeps its votes.
THEOREM OutcomeIsFinal == Spec => OutcomeStands
<1> DEFINE Stands ==
             /\ status = "matched" => UNCHANGED <<status, winner, votes>>
             /\ status = "ended" /\ locked =>
                  /\ status' \in {"ended", "matched"}
                  /\ UNCHANGED <<votes, endReason>>
<1>1. IInv /\ [Next]_vars => [Stands]_vars
  <2> SUFFICES ASSUME IInv, Next
               PROVE  Stands
    OBVIOUS
  <2>1. status = "matched" => locked
    BY DEF IInv, DealInv
  <2>2. QED
    BY <2>1 DEF Next, Handler, Connect, Join, Disconnect, HostOptions, Ready,
           HostStartBegin, HostStartFail, HostStartCommit, MayStart, Swipe, Undo,
           HostPick, HostEnd, EndAll, roomVars, peopleVars, voteVars, connVars
<1>2. QED
  BY <1>1, SessionInvariant, PTL DEF Spec, OutcomeStands

----------------------------------------------------------------------------
(***************************************************************************)
(* Session implements Showdown.                                            *)
(***************************************************************************)

Approvals == [m \in Movies |-> YesVoters(votes[m])]

\* The two modules count alike.
LEMMA RoomCardinality == \A S : Room!Cardinality(S) = Cardinality(S)
  BY DEF Room!Cardinality, Cardinality

LEMMA SwipeIsAVote ==
  ASSUME IInv, NEW c \in Conns, NEW m \in Movies, NEW dir \in {"yes", "no"},
         Swipe(c, m, dir)
  PROVE  Room!Approve(ident[c], m) \/ Room!Withdraw(ident[c], m)
<1> DEFINE v == ident[c]
<1>1. /\ v \in Voters /\ m \in deck
      /\ votes' = [votes EXCEPT ![m][v] = dir]
      /\ UNCHANGED <<deck, requiredCount>>
      /\ status = "active"
      /\ requiredCount \in Nat
  BY DEF Swipe, IInv, TypeOK, roomVars
<1>2. \/ Wins(votes'[m], dir) /\ status' = "matched" /\ winner' = m
      \/ ~Wins(votes'[m], dir) /\ status' \in {"active", "ended"} /\ winner' = winner
  BY <1>1 DEF Swipe
<1>3. CASE dir = "yes"
  <2>1. Approvals' = [Approvals EXCEPT ![m] = @ \cup {v}]
    BY <1>1, <1>3 DEF Approvals, YesVoters, IInv, TypeOK
  <2>2. Approvals'[m] = YesVoters(votes'[m])
    BY DEF Approvals
  <2>3. Cardinality(YesVoters(votes'[m])) \in Nat
    BY YesCountInNat
  <2>4. QED
    BY <1>1, <1>2, <1>3, <2>1, <2>2, <2>3, RoomCardinality
       DEF Room!Approve, Wins, Approvals
<1>4. CASE dir = "no"
  <2>1. Approvals' = [Approvals EXCEPT ![m] = @ \ {v}]
    BY <1>1, <1>4 DEF Approvals, YesVoters, IInv, TypeOK
  <2>2. QED
    BY <1>1, <1>2, <1>4, <2>1 DEF Room!Withdraw, Wins, Approvals
<1>5. QED
  BY <1>3, <1>4

LEMMA UndoIsAWithdrawal ==
  ASSUME IInv, NEW c \in Conns, Undo(c)
  PROVE  Room!Withdraw(ident[c], lastSwipe[ident[c]].movie)
<1> DEFINE v == ident[c]
           m == lastSwipe[v].movie
<1>1. /\ v \in Voters /\ lastSwipe[v] # NoSwipe
      /\ status = "active"
      /\ votes' = [votes EXCEPT ![m][v] = "none"]
      /\ UNCHANGED <<status, deck, requiredCount, winner>>
  BY DEF Undo, IInv, TypeOK, roomVars
<1>2. lastSwipe[v] \in Swipes /\ m \in Movies
  BY <1>1 DEF IInv, TypeOK, Swipes
<1>3. m \in deck
  <2>1. votes[m][v] \in {"yes", "no"}
    BY <1>1, <1>2 DEF IInv, VoteInv, UndoTargetsLiveVote, Swipes
  <2>2. QED
    BY <1>1, <1>2, <2>1 DEF IInv, VoteInv, UndoTargetsLiveVote
<1>4. Approvals' = [Approvals EXCEPT ![m] = @ \ {v}]
  BY <1>1, <1>2 DEF Approvals, YesVoters, IInv, TypeOK
<1>5. QED
  BY <1>1, <1>3, <1>4 DEF Room!Withdraw, Approvals

\* Every behaviour of a session is, seen through its status, deck, threshold,
\* winner and yes votes, a behaviour of Showdown.
THEOREM SessionImplementsShowdown == Spec => ImplementsShowdown
<1>1. Init => Room!Init
  BY DEF Init, Room!Init, YesVoters
<1>2. IInv /\ IInv' /\ [Next]_vars => [Room!Next]_(Room!vars)
  <2> SUFFICES ASSUME IInv, IInv', [Next]_vars
               PROVE  Room!Next \/ UNCHANGED Room!vars
    OBVIOUS
  <2> USE DEF roomVars, peopleVars, voteVars, connVars
  <2>0. ASSUME UNCHANGED <<status, deck, requiredCount, votes, winner>>
        PROVE  UNCHANGED Room!vars
    BY <2>0 DEF Room!vars
  <2>1. ASSUME NEW c \in Conns, NEW t \in roster \cup {NoOne}, Connect(c, t)
        PROVE  UNCHANGED Room!vars
    BY <2>0, <2>1 DEF Connect
  <2>2. ASSUME NEW c \in Conns, NEW p \in People, Join(c, p)
        PROVE  UNCHANGED Room!vars
    BY <2>0, <2>2 DEF Join
  <2>3. ASSUME NEW c \in Conns, Disconnect(c)
        PROVE  UNCHANGED Room!vars
    BY <2>0, <2>3 DEF Disconnect
  <2>4. ASSUME NEW c \in Conns, NEW wait \in BOOLEAN, HostOptions(c, wait)
        PROVE  UNCHANGED Room!vars
    BY <2>0, <2>4 DEF HostOptions
  <2>5. ASSUME NEW c \in Conns, NEW isReady \in BOOLEAN, Ready(c, isReady)
        PROVE  UNCHANGED Room!vars
    BY <2>0, <2>5 DEF Ready
  <2>6. ASSUME NEW c \in Conns, HostStartBegin(c) \/ HostStartFail(c)
        PROVE  UNCHANGED Room!vars
    BY <2>0, <2>6 DEF HostStartBegin, HostStartFail
  <2>7. ASSUME NEW c \in Conns, NEW d \in SUBSET Movies, NEW n \in RequestedCounts,
               HostStartCommit(c, d, n)
        PROVE  Room!Deal
    <3>1. /\ ~locked /\ locked'
          /\ deck' = d /\ d # {} /\ status' = "active"
          /\ UNCHANGED <<votes, winner, roster>>
      BY <2>7 DEF HostStartCommit, MayStart
    <3>2. deck = {} /\ status \in {"lobby", "ended"}
      BY <3>1 DEF IInv, TypeOK, Statuses, DealInv
    <3>3. requiredCount' \in 1..Cardinality(roster) /\ roster \subseteq Voters
      BY <3>1 DEF IInv, TypeOK, DealInv, ThresholdReachable, Voters
    <3>4. /\ Cardinality(roster) <= Cardinality(Voters)
          /\ Cardinality(roster) \in Nat /\ Cardinality(Voters) \in Nat
      BY <3>3, VotersFinite, FS_Subset, FS_CardinalityType
    <3>5. requiredCount' \in 1..Cardinality(Voters)
      BY <3>3, <3>4
    <3>6. QED
      BY <3>1, <3>2, <3>5, RoomCardinality DEF Room!Deal
  <2>8. ASSUME NEW c \in Conns, NEW m \in Movies, NEW dir \in {"yes", "no"},
               Swipe(c, m, dir)
        PROVE  Room!Next
    BY <2>8, SwipeIsAVote DEF Room!Next, IInv, TypeOK
  <2>9. ASSUME NEW c \in Conns, Undo(c)
        PROVE  Room!Next
    <3>1. /\ ident[c] \in Voters
          /\ lastSwipe[ident[c]].movie \in Movies
      BY <2>9 DEF Undo, IInv, TypeOK, Swipes
    <3>2. QED
      BY <2>9, <3>1, UndoIsAWithdrawal DEF Room!Next
  <2>10. ASSUME NEW c \in Conns, NEW m \in Movies, HostPick(c, m)
         PROVE  Room!Next
    BY <2>10 DEF HostPick, Room!Next, Room!Pick
  <2>11. ASSUME NEW c \in Conns, HostEnd(c)
         PROVE  Room!Close
    BY <2>11 DEF HostEnd, Room!Close
  <2>12. CASE EndAll
    BY <2>12 DEF EndAll, Room!Next, Room!Close, IInv, TypeOK, Statuses
  <2>13. CASE UNCHANGED vars
    BY <2>0, <2>13 DEF vars
  <2>14. QED
    BY <2>1, <2>2, <2>3, <2>4, <2>5, <2>6, <2>7, <2>8, <2>9, <2>10, <2>11,
       <2>12, <2>13 DEF Next, Handler, Room!Next
<1>3. QED
  BY <1>1, <1>2, SessionInvariant, PTL DEF Spec, ImplementsShowdown, Room!Spec

============================================================================
