------------------------------ MODULE Session ------------------------------
(***************************************************************************)
(* One movie night: the state guarded by Session.mu and the handlers that  *)
(* the connections of its participants run against it.                     *)
(*                                                                         *)
(* Every handler of hub.go is one critical section, and one action here,   *)
(* except host:start: it checks its guards under the lock, releases it for *)
(* the network fetch, and checks them again before it commits.  A          *)
(* connection's handlers run one after the other in its readPump, so a     *)
(* connection that is fetching does nothing else, not even disconnect.     *)
(*                                                                         *)
(* What a handler sends after it has released the lock is in module Hub.   *)
(*                                                                         *)
(* A definition named X_Y beside a definition X is a mutant: X with the    *)
(* mistake Y in it.  Nothing uses it; putting it in the place of X shows   *)
(* that a property notices the mistake.                                    *)
(***************************************************************************)
EXTENDS Naturals, FiniteSets

CONSTANTS
  Conns,    \* the connections (*Client) that may be open at the same time
  NoConn,   \* no connection attached
  People,   \* participant ids; the token of a participant is named by its id
  Host,     \* the participant the session was created for
  NoOne,    \* "", the participantID of a connection that has not joined
  Movies,   \* ids of the movies a deck may be dealt from
  NoMovie   \* "", the winner of a session without one

ASSUME HostAssumption == Host \in People
ASSUME NoneAssumption == /\ NoOne \notin People
                         /\ NoConn \notin Conns
                         /\ NoMovie \notin Movies
ASSUME FiniteAssumption == IsFiniteSet(People) /\ IsFiniteSet(Movies)

Voters == People \cup {NoOne}

Statuses == {"lobby", "active", "matched", "ended"}

\* "none" is the reason of a session no one has ended.
EndReasons == {"none", "deck_exhausted", "host_ended", "reconfigured"}

VARIABLES
  status,         \* Session.Status
  locked,         \* Session.Locked
  waitForReady,   \* Session.WaitForReady
  requiredCount,  \* Session.RequiredCount, 0 until host:start
  deck,           \* the ids of Session.Deck
  winner,         \* Session.WinnerID
  endReason,      \* the reason of the latest session_ended broadcast
  roster,         \* the keys of Session.Participants
  ready,          \* the participants whose Ready is set
  connected,      \* the participants whose Connected is set
  clients,        \* Session.clients: the connection attached to a participant
  votes,          \* Session.Votes: votes[m][v] is "yes", "no", or "none" if absent
  lastSwipe,      \* Session.LastSwipe
  phase,          \* what a connection's readPump is doing
  ident,          \* Client.participantID
  token           \* Client.token, named by the participant it belongs to

roomVars == <<status, locked, waitForReady, requiredCount, deck, winner, endReason>>
peopleVars == <<roster, ready, connected, clients>>
voteVars == <<votes, lastSwipe>>
connVars == <<phase, ident, token>>
vars == <<roomVars, peopleVars, voteVars, connVars>>

Swipes == [movie : Movies, dir : {"yes", "no"}]
NoSwipe == [movie |-> NoMovie, dir |-> "none"]

TypeOK ==
  /\ status \in Statuses
  /\ locked \in BOOLEAN
  /\ waitForReady \in BOOLEAN
  /\ requiredCount \in Nat
  /\ deck \in SUBSET Movies
  /\ winner \in Movies \cup {NoMovie}
  /\ endReason \in EndReasons
  /\ roster \in SUBSET People
  /\ ready \in SUBSET People
  /\ connected \in SUBSET People
  /\ clients \in [People -> Conns \cup {NoConn}]
  /\ votes \in [Movies -> [Voters -> {"yes", "no", "none"}]]
  /\ lastSwipe \in [Voters -> Swipes \cup {NoSwipe}]
  /\ phase \in [Conns -> {"closed", "reading", "fetching"}]
  /\ ident \in [Conns -> Voters]
  /\ token \in [Conns -> Voters]

----------------------------------------------------------------------------
\* A session as Store.Create makes it: the host is in it, and not yet connected.
Init ==
  /\ status = "lobby"
  /\ locked = FALSE
  /\ waitForReady = FALSE
  /\ requiredCount = 0
  /\ deck = {}
  /\ winner = NoMovie
  /\ endReason = "none"
  /\ roster = {Host}
  /\ ready = {}
  /\ connected = {}
  /\ clients = [p \in People |-> NoConn]
  /\ votes = [m \in Movies |-> [v \in Voters |-> "none"]]
  /\ lastSwipe = [v \in Voters |-> NoSwipe]
  /\ phase = [c \in Conns |-> "closed"]
  /\ ident = [c \in Conns |-> NoOne]
  /\ token = [c \in Conns |-> NoOne]

----------------------------------------------------------------------------
(***************************************************************************)
(* Connections.                                                            *)
(***************************************************************************)

\* A browser opens the socket with the token it kept, or with none (or one
\* no participant has, which is treated alike).
Connect(c, t) ==
  /\ phase[c] = "closed"
  /\ phase' = [phase EXCEPT ![c] = "reading"]
  /\ ident' = [ident EXCEPT ![c] = NoOne]
  /\ token' = [token EXCEPT ![c] = t]
  /\ UNCHANGED <<roomVars, peopleVars, voteVars>>

\* The participant a join attaches to: the one the token names, or a fresh one
\* while the session is in the lobby.
JoinsAs(c, p) ==
  IF token[c] \in roster
    THEN p = token[c]
    ELSE status = "lobby" /\ p \in People \ roster

\* The roster gains a fresh participant; the connection replaces whichever was
\* attached to p before.
Join(c, p) ==
  /\ phase[c] = "reading"
  /\ JoinsAs(c, p)
  /\ roster' = roster \cup {p}
  /\ connected' = connected \cup {p}
  /\ clients' = [clients EXCEPT ![p] = c]
  /\ ident' = [ident EXCEPT ![c] = p]
  /\ token' = [token EXCEPT ![c] = p]
  /\ UNCHANGED <<roomVars, ready, voteVars, phase>>

\* Mutant: any connection of the participant detaches whichever is attached.
Attached_Any(c) == ident[c] \in People /\ clients[ident[c]] # NoConn

\* Whether c is still the connection attached to its participant.
Attached(c) == ident[c] \in People /\ clients[ident[c]] = c

\* Mutant: the flag goes down also for a connection that was replaced.
Disconnect_FlagAnyway(c) ==
  /\ phase[c] = "reading"
  /\ clients' = IF Attached(c) THEN [clients EXCEPT ![ident[c]] = NoConn] ELSE clients
  /\ connected' = connected \ {ident[c]}
  /\ phase' = [phase EXCEPT ![c] = "closed"]
  /\ ident' = [ident EXCEPT ![c] = NoOne]
  /\ token' = [token EXCEPT ![c] = NoOne]
  /\ UNCHANGED <<roomVars, roster, ready, voteVars>>

\* The read loop returned: detach, unless a newer connection has replaced c.
Disconnect(c) ==
  /\ phase[c] = "reading"
  /\ \/ /\ Attached(c)
        /\ clients' = [clients EXCEPT ![ident[c]] = NoConn]
        /\ connected' = connected \ {ident[c]}
     \/ /\ ~Attached(c)
        /\ UNCHANGED <<clients, connected>>
  /\ phase' = [phase EXCEPT ![c] = "closed"]
  /\ ident' = [ident EXCEPT ![c] = NoOne]
  /\ token' = [token EXCEPT ![c] = NoOne]
  /\ UNCHANGED <<roomVars, roster, ready, voteVars>>

----------------------------------------------------------------------------
(***************************************************************************)
(* The lobby.                                                              *)
(***************************************************************************)

IsHost(c) == ident[c] = Host

\* The gate counts every guest, connected or not.
UnreadyGuests ==
  IF waitForReady THEN (roster \ {Host}) \ ready ELSE {}

HostOptions(c, wait) ==
  /\ phase[c] = "reading"
  /\ IsHost(c)
  /\ status = "lobby"
  /\ waitForReady' = wait
  /\ UNCHANGED <<status, locked, requiredCount, deck, winner, endReason,
                 peopleVars, voteVars, connVars>>

\* Mutant: the sender need not have joined.
Ready_Unjoined(c, isReady) ==
  /\ phase[c] = "reading"
  /\ ~IsHost(c)
  /\ status = "lobby"
  /\ ready' = IF isReady THEN ready \cup {ident[c]} ELSE ready \ {ident[c]}
  /\ UNCHANGED <<roomVars, roster, connected, clients, voteVars, connVars>>

Ready(c, isReady) ==
  /\ phase[c] = "reading"
  /\ ~IsHost(c)
  /\ status = "lobby"
  /\ ident[c] \in roster
  /\ ready' = IF isReady THEN ready \cup {ident[c]} ELSE ready \ {ident[c]}
  /\ UNCHANGED <<roomVars, roster, connected, clients, voteVars, connVars>>

\* The guards of host:start, checked before the fetch and again after it.
MayStart(c) ==
  /\ IsHost(c)
  /\ ~locked
  /\ UnreadyGuests = {}

HostStartBegin(c) ==
  /\ phase[c] = "reading"
  /\ MayStart(c)
  /\ phase' = [phase EXCEPT ![c] = "fetching"]
  /\ UNCHANGED <<roomVars, peopleVars, voteVars, ident, token>>

\* Every source failed, no movie matched, or the second check refused.
HostStartFail(c) ==
  /\ phase[c] = "fetching"
  /\ phase' = [phase EXCEPT ![c] = "reading"]
  /\ UNCHANGED <<roomVars, peopleVars, voteVars, ident, token>>

\* Mutant: the count is not capped by the roster.
ClampRequired_NoCap(n) == IF n >= 1 THEN n ELSE Cardinality(roster)

\* A requested count outside the roster's size means the whole roster.
ClampRequired(n) ==
  IF n \in 1..Cardinality(roster) THEN n ELSE Cardinality(roster)

\* Mutant: the guards are not checked again after the fetch.
HostStartCommit_NoRecheck(c, d, n) ==
  /\ phase[c] = "fetching"
  /\ d # {}
  /\ locked' = TRUE
  /\ requiredCount' = ClampRequired(n)
  /\ deck' = d
  /\ status' = "active"
  /\ phase' = [phase EXCEPT ![c] = "reading"]
  /\ UNCHANGED <<waitForReady, winner, endReason, peopleVars, voteVars, ident, token>>

\* d is what the fetch returned after the shuffle and the cap: any movies at
\* all, but at least one; n is the requested count.
HostStartCommit(c, d, n) ==
  /\ phase[c] = "fetching"
  /\ MayStart(c)
  /\ d # {}
  /\ locked' = TRUE
  /\ requiredCount' = ClampRequired(n)
  /\ deck' = d
  /\ status' = "active"
  /\ phase' = [phase EXCEPT ![c] = "reading"]
  /\ UNCHANGED <<waitForReady, winner, endReason, peopleVars, voteVars, ident, token>>

----------------------------------------------------------------------------
(***************************************************************************)
(* Voting.  The voter is the connection's participantID, which is NoOne    *)
(* for a connection that has not joined: the handlers do not look.         *)
(***************************************************************************)

YesVoters(ballot) == {v \in Voters : ballot[v] = "yes"}

VotesCast(ballots, p) == {m \in Movies : ballots[m][p] # "none"}

\* checkSessionEndedLocked: every connected participant, and there is one,
\* has voted on as many movies as the deck holds.
DeckExhausted(ballots, online) ==
  /\ online # {}
  /\ \A p \in online : Cardinality(VotesCast(ballots, p)) >= Cardinality(deck)

\* Mutant: one yes too many is asked for.
Wins_OneMore(ballot, dir) ==
  dir = "yes" /\ Cardinality(YesVoters(ballot)) > requiredCount

\* Mutant: every vote on the movie counts, whichever way it went.
Wins_AnyVote(ballot, dir) ==
  dir = "yes" /\ Cardinality({v \in Voters : ballot[v] # "none"}) >= requiredCount

\* recordSwipe: only a yes can win, and it wins by reaching the threshold.
Wins(ballot, dir) ==
  dir = "yes" /\ Cardinality(YesVoters(ballot)) >= requiredCount

Swipe(c, m, dir) ==
  LET v == ident[c] IN
  /\ phase[c] = "reading"
  /\ status = "active"
  /\ m \in deck
  /\ votes' = [votes EXCEPT ![m][v] = dir]
  /\ lastSwipe' = [lastSwipe EXCEPT ![v] = [movie |-> m, dir |-> dir]]
  /\ \/ /\ Wins(votes'[m], dir)
        /\ status' = "matched"
        /\ winner' = m
        /\ UNCHANGED endReason
     \/ /\ ~Wins(votes'[m], dir)
        /\ DeckExhausted(votes', connected)
        /\ status' = "ended"
        /\ endReason' = "deck_exhausted"
        /\ UNCHANGED winner
     \/ /\ ~Wins(votes'[m], dir)
        /\ ~DeckExhausted(votes', connected)
        /\ UNCHANGED <<status, winner, endReason>>
  /\ UNCHANGED <<locked, waitForReady, requiredCount, deck, peopleVars, connVars>>

\* Mutant: the swipe taken back is still remembered.
Undo_KeepsLast(c) ==
  LET v == ident[c] IN
  /\ phase[c] = "reading"
  /\ status = "active"
  /\ lastSwipe[v] # NoSwipe
  /\ votes' = [votes EXCEPT ![lastSwipe[v].movie][v] = "none"]
  /\ UNCHANGED <<lastSwipe, roomVars, peopleVars, connVars>>

\* Mutant: a vote can be taken back after the session is over.
Undo_AnyTime(c) ==
  LET v == ident[c] IN
  /\ phase[c] = "reading"
  /\ lastSwipe[v] # NoSwipe
  /\ votes' = [votes EXCEPT ![lastSwipe[v].movie][v] = "none"]
  /\ lastSwipe' = [lastSwipe EXCEPT ![v] = NoSwipe]
  /\ UNCHANGED <<roomVars, peopleVars, connVars>>

Undo(c) ==
  LET v == ident[c] IN
  /\ phase[c] = "reading"
  /\ status = "active"
  /\ lastSwipe[v] # NoSwipe
  /\ votes' = [votes EXCEPT ![lastSwipe[v].movie][v] = "none"]
  /\ lastSwipe' = [lastSwipe EXCEPT ![v] = NoSwipe]
  /\ UNCHANGED <<roomVars, peopleVars, connVars>>

----------------------------------------------------------------------------
(***************************************************************************)
(* The end of the session.                                                 *)
(***************************************************************************)

HostPick(c, m) ==
  /\ phase[c] = "reading"
  /\ IsHost(c)
  /\ status = "ended"
  /\ m \in deck
  /\ status' = "matched"
  /\ winner' = m
  /\ UNCHANGED <<locked, waitForReady, requiredCount, deck, endReason,
                 peopleVars, voteVars, connVars>>

HostEnd(c) ==
  /\ phase[c] = "reading"
  /\ IsHost(c)
  /\ status = "active"
  /\ status' = "ended"
  /\ endReason' = "host_ended"
  /\ UNCHANGED <<locked, waitForReady, requiredCount, deck, winner,
                 peopleVars, voteVars, connVars>>

\* Mutant: a matched session is ended as well.
EndAll_Matched ==
  /\ status # "ended"
  /\ status' = "ended"
  /\ endReason' = "reconfigured"
  /\ UNCHANGED <<locked, waitForReady, requiredCount, deck, winner,
                 peopleVars, voteVars, connVars>>

\* A saved configuration ends every session that is not over; it looks at the
\* status alone, so a session in the lobby ends without ever being locked.
EndAll ==
  /\ status \notin {"ended", "matched"}
  /\ status' = "ended"
  /\ endReason' = "reconfigured"
  /\ UNCHANGED <<locked, waitForReady, requiredCount, deck, winner,
                 peopleVars, voteVars, connVars>>

----------------------------------------------------------------------------
\* Every count a host can ask for: too low, each possible one, too high.
RequestedCounts == 0..(Cardinality(People) + 1)

Handler(c) ==
  \/ \E t \in roster \cup {NoOne} : Connect(c, t)
  \/ \E p \in People : Join(c, p)
  \/ Disconnect(c)
  \/ \E wait \in BOOLEAN : HostOptions(c, wait)
  \/ \E isReady \in BOOLEAN : Ready(c, isReady)
  \/ HostStartBegin(c)
  \/ HostStartFail(c)
  \/ \E d \in SUBSET Movies, n \in RequestedCounts : HostStartCommit(c, d, n)
  \/ \E m \in Movies, dir \in {"yes", "no"} : Swipe(c, m, dir)
  \/ Undo(c)
  \/ \E m \in Movies : HostPick(c, m)
  \/ HostEnd(c)

Next == EndAll \/ \E c \in Conns : Handler(c)

Spec == Init /\ [][Next]_vars

----------------------------------------------------------------------------
(***************************************************************************)
(* What must hold.                                                         *)
(***************************************************************************)

\* Agreement is never missed: while a dealt session runs, and when it ends
\* without a winner, no movie of the deck has collected the required yeses.
\* recordSwipe looks only at the movie just swiped, so this rests on every
\* other way the counts and the threshold can change.
AgreementIsAMatch ==
  locked /\ status \in {"active", "ended"} =>
    \A m \in deck : Cardinality(YesVoters(votes[m])) < requiredCount

\* The threshold fixed at host:start is one the room can reach, whatever the
\* host asked for and whoever joined while the deck was being fetched.
ThresholdReachable == locked => requiredCount \in 1..Cardinality(roster)

\* The ready gate holds over the fetch: a dealt session that has the gate on
\* has no guest that is not ready, although a guest may join or withdraw
\* between the check of host:start and its commit.
GateHeld == locked /\ waitForReady => roster \ {Host} \subseteq ready

\* Undo always has a vote to take back, the one it remembers, and no vote was
\* ever recorded for a movie outside the deck.
UndoTargetsLiveVote ==
  /\ \A v \in Voters : lastSwipe[v] # NoSwipe =>
       votes[lastSwipe[v].movie][v] = lastSwipe[v].dir
  /\ \A m \in Movies \ deck, v \in Voters : votes[m][v] = "none"

\* The roster's Connected flags and the clients map, written side by side by
\* join and removeClient, agree, and the attached connection is an open one
\* that joined as that participant, whatever the order in which a reconnecting
\* participant's connections come and go.
ConnectedIsAttached ==
  \A p \in People :
    /\ p \in connected <=> clients[p] # NoConn
    /\ clients[p] # NoConn =>
         /\ p \in roster
         /\ ident[clients[p]] = p
         /\ phase[clients[p]] # "closed"

\* A winner exists exactly when the session is matched, and is of the deck.
WinnerOfDeck ==
  /\ status = "matched" <=> winner # NoMovie
  /\ status = "matched" => locked /\ winner \in deck

\* A participant is taken offline only by the connection attached to it: the
\* departure of one that was replaced, however late, detaches nobody.
OfflineByOwnLeave ==
  [][\A p \in connected : p \notin connected' => phase'[clients[p]] = "closed"]_vars

\* A deck is dealt once: two tabs of the host can both be fetching, but after
\* the first commit neither the deck, the threshold nor the roster changes.
DealtOnce ==
  [][locked => UNCHANGED <<locked, deck, requiredCount, roster, waitForReady>>]_vars

\* A session agrees by exactly the required number of yeses, the last of them
\* cast in the step that ends it.
MatchEarned ==
  [][status = "active" /\ status' = "matched" =>
       /\ Cardinality(YesVoters(votes'[winner'])) = requiredCount
       /\ Cardinality(YesVoters(votes[winner'])) < requiredCount]_vars

\* Once every screen may show a winner it never changes, and once a dealt
\* session has ended its votes stand: the leaderboard the host picks from is
\* the one that was broadcast, and only the host's pick can follow.
OutcomeStands ==
  [][/\ status = "matched" => UNCHANGED <<status, winner, votes>>
     /\ status = "ended" /\ locked =>
          /\ status' \in {"ended", "matched"}
          /\ UNCHANGED <<votes, endReason>>]_vars

\* Forgetting who is connected and how they voted no, a session is a showdown:
\* it is dealt once, agrees in the very step that reaches the threshold, and
\* has one outcome.
Room == INSTANCE Showdown WITH
  phase <- status,
  quorum <- requiredCount,
  approvals <- [m \in Movies |-> YesVoters(votes[m])]

ImplementsShowdown == Room!Spec

----------------------------------------------------------------------------
(***************************************************************************)
(* What the repository says and the code does not keep.                    *)
(***************************************************************************)

\* hub.go: "a reload ends its session anyway": an ended session stays ended
\* until its winner is picked.  EndAll leaves a lobby session unlocked, and
\* host:start looks at Locked alone.
EndedStaysEnded ==
  [][status = "ended" => status' \in {"ended", "matched"}]_vars

\* match.go: a win is at least RequiredCount *participants* voting yes.
\* handleSwipe does not ask whether the connection has joined, so the vote of
\* one whose join was refused is counted under the empty id.
MatchedByParticipants ==
  [][status = "active" /\ status' = "matched" =>
       Cardinality(YesVoters(votes'[winner']) \cap roster) >= requiredCount]_vars

HasFinished(p) == \A m \in deck : votes[m][p] # "none"

\* messages.go: "deck_exhausted" means every participant swiped the whole deck.
\* The check asks the connected participants only.
ExhaustedByEveryone ==
  endReason = "deck_exhausted" => \A p \in roster : HasFinished(p)

============================================================================
