-------------------------------- MODULE Hub --------------------------------
(***************************************************************************)
(* What a session's handlers tell the room.                                *)
(*                                                                         *)
(* A handler changes the session under the lock (an action of Session) and *)
(* sends after it has released it.  What it has left to send is todo: a    *)
(* broadcast first takes the lock again to copy the list of attached       *)
(* connections, then puts the message in one send buffer after the other;  *)
(* participant_update takes it once more, before, to copy the roster.      *)
(* Other handlers run between any two of these steps.  A connection's next *)
(* message is read when its handler has nothing left to send.              *)
(*                                                                         *)
(* A member of Conns is a browser tab: its view is the page's store, which *)
(* outlives the sockets the tab opens, one after the other.                *)
(*                                                                         *)
(* Messages that change nothing an instance tracks of a page are left out: *)
(* error, warning and progress always.  One of them in a buffer is a       *)
(* buffer that is smaller by one.  The reason of a session_ended is left   *)
(* out as well.                                                            *)
(***************************************************************************)
EXTENDS Session, Sequences

CONSTANTS
  Server,      \* the request that ends every session after a reload
  SendBuffer,  \* sendBufferSize, the capacity of Client.send
  Tracked      \* the parts of messages and pages an instance tells apart, of
               \* "status", "roster" and "board"

ASSUME BufferAssumption == SendBuffer \in Nat \ {0}
ASSUME ServerAssumption == Server \notin Conns

VARIABLES
  todo,     \* todo[a]: what a handler has still to send, in order
  outbox,   \* outbox[c]: Client.send and the socket behind it
  view,     \* view[c]: what the tab's page shows
  dropped   \* the tabs that lost a message on their present socket

hubVars == <<todo, outbox, view, dropped>>
allVars == <<vars, hubVars>>

Actors == Conns \cup {Server}

----------------------------------------------------------------------------
(***************************************************************************)
(* Messages, and what a page makes of them.                                *)
(***************************************************************************)

\* A part is "untracked", the same for every value, unless the instance tracks it.
Part(name, value) == IF name \in Tracked THEN value ELSE "untracked"

\* participantViewsLocked, with the ready gate that travels with it.
Roster == Part("roster", [people |-> roster, ready |-> ready,
                          online |-> connected, wait |-> waitForReady])

\* What a page shows before it has heard of anyone.
NoRoster == Part("roster", [people |-> {}, ready |-> {}, online |-> {}, wait |-> FALSE])

StateMsg == [type |-> "session_state", status |-> Part("status", status),
             roster |-> Roster]
RosterMsg == [type |-> "participant_update", roster |-> Roster]
DeckMsg(d) == [type |-> "deck", deck |-> d]
MatchMsg(m) == [type |-> "match", movie |-> m]

\* The leaderboard of an empty deck is a nil slice, which is null on the wire.
Leaderboard == IF deck = {} THEN "null" ELSE "list"

EndedMsg == [type |-> "session_ended", board |-> Part("board", Leaderboard)]

\* A page that has heard nothing yet.
BlankView == [status |-> Part("status", "lobby"), deck |-> {}, winner |-> NoMovie,
              board |-> Part("board", "none"), roster |-> NoRoster]

\* The store's reaction to a message.
Shows(v, msg) ==
  CASE msg.type = "session_state" ->
         [v EXCEPT !.status = msg.status, !.roster = msg.roster]
    [] msg.type = "participant_update" -> [v EXCEPT !.roster = msg.roster]
    [] msg.type = "deck" -> [v EXCEPT !.deck = msg.deck]
    [] msg.type = "match" ->
         [v EXCEPT !.winner = msg.movie, !.status = Part("status", "matched")]
    [] msg.type = "session_ended" ->
         [v EXCEPT !.board = msg.board, !.status = Part("status", "ended")]

----------------------------------------------------------------------------
(***************************************************************************)
(* Sending.                                                                *)
(***************************************************************************)

Send(msg, to) == [op |-> "send", msg |-> msg, to |-> to]
Broadcast(msg) == [op |-> "broadcast", msg |-> msg]

\* What there is to send if the instance tracks one of the parts it tells of.
Tells(parts, ops) == IF parts \cap Tracked # {} THEN ops ELSE <<>>

BroadcastParticipants == Tells({"roster"}, <<[op |-> "participants"]>>)
BroadcastSessionState == Tells({"status", "roster"}, <<[op |-> "state"]>>)
BroadcastEnded == Tells({"status", "board"}, <<Broadcast(EndedMsg)>>)

AttachedConns == {c \in Conns : \E p \in People : clients[p] = c}

\* A send to no one is over.
Then(msg, to, rest) == IF to = {} THEN rest ELSE <<Send(msg, to)>> \o rest

HubInit ==
  /\ Init
  /\ todo = [a \in Actors |-> <<>>]
  /\ outbox = [c \in Conns |-> <<>>]
  /\ view = [c \in Conns |-> BlankView]
  /\ dropped = {}

\* broadcastParticipants copies the roster, broadcastSessionState the status,
\* the roster and the connections.
Snapshot(a) ==
  /\ todo[a] # <<>>
  /\ LET op == Head(todo[a]).op IN
       \/ /\ op = "participants"
          /\ todo' = [todo EXCEPT ![a] = <<Broadcast(RosterMsg)>> \o Tail(@)]
       \/ /\ op = "state"
          /\ todo' = [todo EXCEPT ![a] = Then(StateMsg, AttachedConns, Tail(@))]
       \/ /\ op = "broadcast"
          /\ todo' = [todo EXCEPT ![a] = Then(Head(@).msg, AttachedConns, Tail(@))]
  /\ UNCHANGED <<vars, outbox, view, dropped>>

\* Mutant: a buffer takes one message more than its capacity.
TrySend_OneOver(a, c) ==
  /\ todo[a] # <<>>
  /\ Head(todo[a]).op = "send"
  /\ c \in Head(todo[a]).to
  /\ LET send == Head(todo[a]) IN
       /\ todo' = [todo EXCEPT ![a] = Then(send.msg, send.to \ {c}, Tail(@))]
       /\ \/ /\ Len(outbox[c]) <= SendBuffer
             /\ outbox' = [outbox EXCEPT ![c] = Append(@, send.msg)]
             /\ UNCHANGED dropped
          \/ /\ Len(outbox[c]) > SendBuffer
             /\ dropped' = dropped \cup {c}
             /\ UNCHANGED outbox
  /\ UNCHANGED <<vars, view>>

\* trySend, to one of the connections left, in the order of a map.
TrySend(a, c) ==
  /\ todo[a] # <<>>
  /\ Head(todo[a]).op = "send"
  /\ c \in Head(todo[a]).to
  /\ LET send == Head(todo[a]) IN
       /\ todo' = [todo EXCEPT ![a] = Then(send.msg, send.to \ {c}, Tail(@))]
       /\ \/ /\ Len(outbox[c]) < SendBuffer
             /\ outbox' = [outbox EXCEPT ![c] = Append(@, send.msg)]
             /\ UNCHANGED dropped
          \/ /\ Len(outbox[c]) >= SendBuffer
             /\ dropped' = dropped \cup {c}
             /\ UNCHANGED outbox
  /\ UNCHANGED <<vars, view>>

\* writePump, the network and the page's listener.
Deliver(c) ==
  /\ phase[c] # "closed"
  /\ outbox[c] # <<>>
  /\ view' = [view EXCEPT ![c] = Shows(@, Head(outbox[c]))]
  /\ outbox' = [outbox EXCEPT ![c] = Tail(@)]
  /\ UNCHANGED <<vars, todo, dropped>>

\* The page is loaded anew; its socket opens later.
Reload(c) ==
  /\ phase[c] = "closed"
  /\ view' = [view EXCEPT ![c] = BlankView]
  /\ UNCHANGED <<vars, todo, outbox, dropped>>

----------------------------------------------------------------------------
(***************************************************************************)
(* The handlers: the step of Session, and what it leaves to send.          *)
(***************************************************************************)

Idle(a) == todo[a] = <<>>

\* A handler that leaves ops to send.
Leaves(a, ops) ==
  /\ todo' = [todo EXCEPT ![a] = ops]
  /\ UNCHANGED <<outbox, view, dropped>>

HubConnect(c, t) ==
  /\ Idle(c)
  /\ Connect(c, t)
  /\ dropped' = dropped \ {c}
  /\ UNCHANGED <<todo, outbox, view>>

\* Mutant: a late or returning participant is not told who won.
OutcomeReply_NoMatch(c, online) ==
  IF status = "ended" /\ deck # {} /\ DeckExhausted(votes, online)
    THEN Tells({"status", "board"}, <<Send(EndedMsg, {c})>>)
    ELSE <<>>

\* The outcome a late or returning participant is told of.  The leaderboard is
\* sent only if everyone connected has finished.
OutcomeReply(c, online) ==
  CASE status = "matched" -> <<Send(MatchMsg(winner), {c})>>
    [] status = "ended" /\ deck # {} /\ DeckExhausted(votes, online) ->
         Tells({"status", "board"}, <<Send(EndedMsg, {c})>>)
    [] OTHER -> <<>>

StateReply(c) == Tells({"status", "roster"}, <<Send(StateMsg', {c})>>)

\* Mutant: the deck is sent again only when there is nothing left to swipe.
DeckReply_OnceOver(c) ==
  IF status \in {"matched", "ended"} THEN <<Send(DeckMsg(deck), {c})>> ELSE <<>>

DeckReply(c) == IF status = "lobby" THEN <<>> ELSE <<Send(DeckMsg(deck), {c})>>

\* The snapshot is taken in the step that attaches the connection.
HubJoin(c, p) ==
  /\ Idle(c)
  /\ Join(c, p)
  /\ Leaves(c, StateReply(c) \o DeckReply(c)
                 \o OutcomeReply(c, connected') \o BroadcastParticipants)

\* A detached connection is sent nothing more: its done channel is closed.
WithoutTarget(ops, c) ==
  IF ops # <<>> /\ Head(ops).op = "send"
    THEN Then(Head(ops).msg, Head(ops).to \ {c}, Tail(ops))
    ELSE ops

HubDisconnect(c) ==
  /\ Idle(c)
  /\ Disconnect(c)
  /\ todo' = [a \in Actors |->
                IF a = c
                  THEN IF Attached(c) THEN BroadcastParticipants ELSE <<>>
                  ELSE WithoutTarget(todo[a], c)]
  /\ outbox' = [outbox EXCEPT ![c] = <<>>]
  /\ UNCHANGED <<view, dropped>>

HubHostOptions(c, wait) ==
  /\ Idle(c)
  /\ HostOptions(c, wait)
  /\ Leaves(c, BroadcastParticipants)

HubReady(c, isReady) ==
  /\ Idle(c)
  /\ Ready(c, isReady)
  /\ Leaves(c, BroadcastParticipants)

HubHostStartBegin(c) ==
  /\ Idle(c)
  /\ HostStartBegin(c)
  /\ UNCHANGED hubVars

HubHostStartFail(c) == HostStartFail(c) /\ UNCHANGED hubVars

HubHostStartCommit(c, d, n) ==
  /\ HostStartCommit(c, d, n)
  /\ Leaves(c, <<Broadcast(DeckMsg(d))>> \o BroadcastSessionState)

HubSwipe(c, m, dir) ==
  /\ Idle(c)
  /\ Swipe(c, m, dir)
  /\ Leaves(c, CASE status' = "matched" -> <<Broadcast(MatchMsg(m))>>
                 [] status' = "ended" -> BroadcastEnded
                 [] OTHER -> <<>>)

HubUndo(c) ==
  /\ Idle(c)
  /\ Undo(c)
  /\ UNCHANGED hubVars

HubHostPick(c, m) ==
  /\ Idle(c)
  /\ HostPick(c, m)
  /\ Leaves(c, <<Broadcast(MatchMsg(m))>>)

HubHostEnd(c) ==
  /\ Idle(c)
  /\ HostEnd(c)
  /\ Leaves(c, BroadcastEnded)

HubEndAll ==
  /\ Idle(Server)
  /\ EndAll
  /\ Leaves(Server, BroadcastEnded)

----------------------------------------------------------------------------
HubHandler(c) ==
  \/ \E t \in roster \cup {NoOne} : HubConnect(c, t)
  \/ \E p \in People : HubJoin(c, p)
  \/ HubDisconnect(c)
  \/ \E wait \in BOOLEAN : HubHostOptions(c, wait)
  \/ \E isReady \in BOOLEAN : HubReady(c, isReady)
  \/ HubHostStartBegin(c)
  \/ HubHostStartFail(c)
  \/ \E d \in SUBSET Movies, n \in RequestedCounts : HubHostStartCommit(c, d, n)
  \/ \E m \in Movies, dir \in {"yes", "no"} : HubSwipe(c, m, dir)
  \/ HubUndo(c)
  \/ \E m \in Movies : HubHostPick(c, m)
  \/ HubHostEnd(c)

HubNext ==
  \/ \E a \in Actors : Snapshot(a) \/ \E c \in Conns : TrySend(a, c)
  \/ \E c \in Conns : Deliver(c) \/ Reload(c) \/ HubHandler(c)
  \/ HubEndAll

HubSpec == HubInit /\ [][HubNext]_allVars

\* Goroutines that can run do run: a handler goes on sending, which never
\* blocks, and writePump drains the buffer of an open socket.
FairHubSpec ==
  /\ HubSpec
  /\ \A a \in Actors : WF_allVars(Snapshot(a) \/ \E c \in Conns : TrySend(a, c))
  /\ \A c \in Conns : WF_allVars(Deliver(c))

----------------------------------------------------------------------------
(***************************************************************************)
(* What must hold.                                                         *)
(***************************************************************************)

\* Nothing is on its way.
Quiet == /\ \A a \in Actors : todo[a] = <<>>
         /\ \A c \in Conns : outbox[c] = <<>>

\* Attached to its participant, and no message to it was dropped.
Follows(c) == Attached(c) /\ c \notin dropped

HubTypeOK ==
  /\ TypeOK
  /\ dropped \subseteq Conns
  /\ \A c \in Conns :
       /\ Len(outbox[c]) <= SendBuffer
       /\ phase[c] = "closed" => outbox[c] = <<>>
       /\ view[c].status \in Statuses \cup {"untracked"}
       /\ view[c].board \in {"none", "null", "list", "untracked"}

\* Everyone who follows learns of the winner, also one who joins while it is
\* decided or broadcast: either the attach comes first and the broadcast's list
\* holds the connection, or the status does and the join replies with it.
WinnerHeard ==
  Quiet /\ status = "matched" =>
    \A c \in Conns : Follows(c) => view[c].winner = winner

\* By the same argument everyone who follows a running session holds the deck
\* that was dealt: no one waits in front of no cards.  (A session ended in its
\* lobby and dealt after all is apart: a join that saw it ended replies with
\* its empty deck, perhaps after the deal is broadcast.)
DeckHeard ==
  Quiet /\ status = "active" /\ endReason = "none" =>
    \A c \in Conns : Follows(c) => view[c].deck = deck

\* No page ever shows a winner other than the one, or before there is one,
\* whatever was overtaken on the way.
NoFalseWinner ==
  \A c \in Conns : view[c].winner # NoMovie =>
    status = "matched" /\ view[c].winner = winner

\* Pages lag, they never lead: what a page says of the session has happened, and
\* a match shown still stands, whichever handler's copy of the status arrived
\* last.  (For instances that track the status.)
PagesNeverLead ==
  \A c \in Conns :
    /\ view[c].status = "active" => locked
    /\ view[c].status = "ended" => endReason # "none"
    /\ view[c].status = "matched" => status = "matched"

\* Under fairness the winner does reach everyone attached when it is decided,
\* unless the tab leaves or its buffer overflows: no handler waits for another.
WinnerReaches ==
  \A c \in Conns :
    status = "matched" /\ Attached(c) ~> view[c].winner = winner \/ ~Follows(c)

----------------------------------------------------------------------------
(***************************************************************************)
(* What the repository says and the code does not keep.                    *)
(***************************************************************************)

\* README: "Every device in the room jumps to the same winning poster".  A
\* message made before the match, the session_state of a join or of host:start
\* or an earlier session_ended, can be put in a buffer after it: the page goes
\* back to the status that message carries, and hears no more.
MatchFillsEveryScreen ==
  Quiet /\ status = "matched" =>
    \A c \in Conns : Follows(c) => view[c].status = "matched"

\* messages.go: participant_update "carries the current roster".  The roster is
\* copied before the list of connections, so an older copy can come last.
RosterCurrent ==
  Quiet => \A c \in Conns : Follows(c) => view[c].roster = Roster

\* README: an ended session "drops to a leaderboard".  One who returns to it is
\* sent none while someone connected had not finished.
EndedShowsLeaderboard ==
  Quiet /\ status = "ended" /\ deck # {} =>
    \A c \in Conns : Follows(c) => view[c].board = "list"

\* session.go: a session ended in its lobby gets "an empty leaderboard".  What
\* is sent is null, and the result page renders nothing for it.
LeaderboardIsAList ==
  \A c \in Conns : view[c].board # "null"

============================================================================
