----------------------------- MODULE WebClient -----------------------------
(***************************************************************************)
(* The page of one participant and the server's record of their votes.     *)
(* The page swipes without waiting for the server: what it sends while its *)
(* socket is not open is gone, what it sent on a socket that breaks may be *)
(* gone, or arrive after the next socket has joined.  What the server has  *)
(* to say is dropped when a socket's buffer is full; what fills it, which  *)
(* others do as well, is not modelled, so any message may be.  What the    *)
(* page shows is computed again from the votes that the server knew when   *)
(* it was joined.                                                          *)
(*                                                                         *)
(* The participant has joined and the session is about to be started; what *)
(* it decides, and the other participants, are module Session's.           *)
(***************************************************************************)
EXTENDS Naturals, Sequences

CONSTANTS
  Cards,      \* the number of cards; the highest is on top
  None,       \* no card, and no vote
  MaxConns,   \* bound: sockets in a behaviour
  MaxActs     \* bound: swipes and undos in a behaviour

ASSUME CardsAssumption == Cards \in Nat /\ MaxConns \in Nat \ {0} /\ MaxActs \in Nat
ASSUME NoneAssumption == None \notin 1..Cards /\ None \notin {"yes", "no"}

VARIABLES
  mine,      \* myVoteState: the votes the page believes it has cast
  index,     \* currentIndex: the cards above it are passed
  dealt,     \* the page has the deck
  undoable,  \* lastSwipeRef
  socket,    \* the page's socket: "opening", "open" or "closed"
  conn,      \* its number
  synced,    \* the page has all of the answer to that socket's join
  acts,
  phase,     \* host:start: "lobby", "locked", "dealt" or "told"
  votes,     \* Session.Votes of this participant
  last,      \* Session.LastSwipe of this participant
  attached,  \* Session.clients of this participant
  newest,    \* the highest socket that has joined
  up, down,  \* what is on its way on each socket
  reply,     \* what is left of the answer to a socket's join
  crossed    \* an undo, or a socket that was replaced, came between a join and its answer

pageVars == <<mine, index, dealt, undoable, acts>>
socketVars == <<socket, conn, synced>>
voteVars == <<votes, last, crossed>>
joinVars == <<attached, newest, reply>>
vars == <<pageVars, socketVars, voteVars, joinVars, phase, up, down>>

Card == 1..Cards
Conns == 1..MaxConns
NoVotes == [card \in Card |-> None]

Init ==
  /\ mine = NoVotes /\ index = Cards /\ dealt = FALSE /\ undoable = None /\ acts = 0
  /\ socket = "open" /\ conn = 1 /\ synced = TRUE
  /\ phase = "lobby"
  /\ votes = NoVotes /\ last = None /\ attached = 1 /\ newest = 1
  /\ up = [c \in Conns |-> <<>>] /\ down = [c \in Conns |-> <<>>]
  /\ reply = [c \in Conns |-> <<>>]
  /\ crossed = FALSE

----------------------------------------------------------------------------
(***************************************************************************)
(* The page: Swipe.tsx and the socket.                                     *)
(***************************************************************************)

\* send drops what it is given while the socket is not open.
Send(message) ==
  up' = IF socket = "open" THEN [up EXCEPT ![conn] = Append(@, message)] ELSE up

Swipe(dir) ==
  /\ dealt /\ index > 0 /\ acts < MaxActs
  /\ mine' = [mine EXCEPT ![index] = dir]
  /\ undoable' = index
  /\ index' = index - 1
  /\ acts' = acts + 1
  /\ Send([type |-> "swipe", card |-> index, dir |-> dir])
  /\ UNCHANGED <<dealt, socketVars, voteVars, joinVars, phase, down>>

Undo ==
  /\ undoable # None /\ index < Cards /\ acts < MaxActs
  /\ index' = index + 1
  /\ mine' = [mine EXCEPT ![undoable] = None]
  /\ undoable' = None
  /\ acts' = acts + 1
  /\ Send([type |-> "undo", early |-> ~synced])
  /\ UNCHANGED <<dealt, socketVars, voteVars, joinVars, phase, down>>

\* The socket breaks.  Part of what it carried up arrives all the same; of what
\* it carried down, nothing does.
Break ==
  /\ socket # "closed"
  /\ socket' = "closed" /\ synced' = FALSE
  /\ \E n \in 0..Len(up[conn]) : up' = [up EXCEPT ![conn] = SubSeq(@, 1, n)]
  /\ down' = [down EXCEPT ![conn] = <<>>]
  /\ UNCHANGED <<conn, pageVars, voteVars, joinVars, phase>>

\* scheduleReconnect, then connect.
Reconnect ==
  /\ socket = "closed" /\ conn < MaxConns
  /\ socket' = "opening" /\ conn' = conn + 1
  /\ UNCHANGED <<synced, pageVars, voteVars, joinVars, phase, up, down>>

\* onopen replays the join.
Open ==
  /\ socket = "opening" /\ socket' = "open"
  /\ up' = [up EXCEPT ![conn] = <<[type |-> "join"]>>]
  /\ UNCHANGED <<conn, synced, pageVars, voteVars, joinVars, phase, down>>

\* The first card from the top that has no vote; 0 when all have one.
FirstWithout(theVotes) ==
  LET without == {card \in Card : theVotes[card] = None} IN
  IF without = {} THEN 0 ELSE CHOOSE card \in without : \A other \in without : other <= card

\* Mutant: a deck that is received again leaves the card where it is.
Deck_Once ==
  /\ dealt' = TRUE /\ undoable' = None
  /\ index' = IF dealt THEN index ELSE FirstWithout(mine)

\* A deck, a second one as well, sets the card and forgets what could be undone.
Deck ==
  /\ dealt' = TRUE /\ undoable' = None
  /\ index' = FirstWithout(mine)

Receive ==
  /\ socket = "open" /\ down[conn] # <<>>
  /\ LET message == Head(down[conn]) IN
       /\ \/ message.type = "session_state" /\ mine' = message.votes /\ UNCHANGED <<index, dealt, undoable>>
          \/ message.type = "deck" /\ Deck /\ UNCHANGED mine
       /\ synced' = (synced \/ message.final)
  /\ down' = [down EXCEPT ![conn] = Tail(@)]
  /\ UNCHANGED <<acts, socket, conn, voteVars, joinVars, phase, up>>

----------------------------------------------------------------------------
(***************************************************************************)
(* The server: the read loop of each socket, which takes no message before *)
(* it has answered the one before.                                         *)
(***************************************************************************)

Takes(c, type) ==
  /\ reply[c] = <<>> /\ up[c] # <<>> /\ Head(up[c]).type = type
  /\ up' = [up EXCEPT ![c] = Tail(@)]

State(theVotes, final) == [type |-> "session_state", votes |-> theVotes, final |-> final]
DeckOf(final) == [type |-> "deck", final |-> final]

\* A late message is one of a socket that has been replaced.
Late(c) == c < newest

\* handleJoin: the connection is attached and its answer copied under the lock.
HandleJoin(c) ==
  /\ Takes(c, "join")
  /\ attached' = c
  /\ newest' = IF Late(c) THEN newest ELSE c
  /\ reply' = [reply EXCEPT ![c] = IF phase = "lobby" THEN <<State(votes, TRUE)>>
                                   ELSE <<State(votes, FALSE), DeckOf(TRUE)>>]
  /\ crossed' = (crossed /\ Late(c))
  /\ UNCHANGED <<pageVars, socketVars, votes, last, phase, down>>

\* Only what is sent on an open socket gets to the page,
Deliver(c, message) ==
  /\ c = conn /\ socket = "open"
  /\ down' = [down EXCEPT ![c] = Append(@, message)]

\* and trySend drops even that when the buffer is full.
TrySend(c, message) == Deliver(c, message) \/ UNCHANGED down

\* An answer of which something was dropped does not become whole.
Torn(answer) == [i \in DOMAIN answer |-> [answer[i] EXCEPT !.final = FALSE]]

\* The answer is sent after the lock is given up, a message at a time.
SendReply(c) ==
  /\ reply[c] # <<>>
  /\ \/ /\ Deliver(c, Head(reply[c]))
        /\ reply' = [reply EXCEPT ![c] = Tail(@)]
     \/ /\ UNCHANGED down
        /\ reply' = [reply EXCEPT ![c] = Torn(Tail(@))]
  /\ UNCHANGED <<pageVars, socketVars, voteVars, attached, newest, phase, up>>

HandleSwipe(c) ==
  LET message == Head(up[c]) IN
  /\ Takes(c, "swipe")
  /\ IF phase # "lobby"
       THEN /\ votes' = [votes EXCEPT ![message.card] = message.dir]
            /\ last' = message.card
            /\ crossed' = (crossed \/ Late(c))
       ELSE UNCHANGED voteVars
  /\ UNCHANGED <<pageVars, socketVars, joinVars, phase, down>>

HandleUndo(c) ==
  /\ Takes(c, "undo")
  /\ IF phase # "lobby" /\ last # None
       THEN /\ votes' = [votes EXCEPT ![last] = None]
            /\ last' = None
            /\ crossed' = (crossed \/ Late(c) \/ Head(up[c]).early)
       ELSE UNCHANGED voteVars
  /\ UNCHANGED <<pageVars, socketVars, joinVars, phase, down>>

\* handleHostStart: the session is active once the lock is given up,
HostStart ==
  /\ phase = "lobby" /\ phase' = "locked"
  /\ UNCHANGED <<pageVars, socketVars, voteVars, joinVars, up, down>>

\* then the deck is broadcast,
BroadcastDeck ==
  /\ phase = "locked" /\ phase' = "dealt"
  /\ TrySend(attached, DeckOf(FALSE))
  /\ UNCHANGED <<pageVars, socketVars, voteVars, joinVars, up>>

\* and then the state, with no votes whatever was cast since.
BroadcastSessionState ==
  /\ phase = "dealt" /\ phase' = "told"
  /\ TrySend(attached, State(NoVotes, FALSE))
  /\ UNCHANGED <<pageVars, socketVars, voteVars, joinVars, up>>

Next ==
  \/ \E dir \in {"yes", "no"} : Swipe(dir)
  \/ Undo \/ Break \/ Reconnect \/ Open \/ Receive
  \/ \E c \in Conns : HandleJoin(c) \/ SendReply(c) \/ HandleSwipe(c) \/ HandleUndo(c)
  \/ HostStart \/ BroadcastDeck \/ BroadcastSessionState

Spec == Init /\ [][Next]_vars

----------------------------------------------------------------------------
(***************************************************************************)
(* Properties.                                                             *)
(***************************************************************************)

\* Nothing is on its way between the page and the server.
Quiet ==
  /\ socket = "open" /\ newest = conn
  /\ up[conn] = <<>> /\ down[conn] = <<>> /\ reply[conn] = <<>>

\* Nor is anything missing: the page has had the whole answer to its join.
Settled == Quiet /\ synced

NoCardSkipped == \A card \in Card : card > index => votes[card] # None

\* Whatever broke, came late or was said while nobody listened, once the page and
\* the server have heard each other every card the page has passed has a vote of
\* the server's: a card is asked again rather than skipped.  Which vote is another
\* matter, and until the next join it is not so after an answer of which a full
\* buffer dropped a part, an undo between a join and its answer, or a message of
\* a socket that was replaced (ws.ts:172-176, Swipe.tsx:46-56, hub.go:159-170,
\* 722-724).
VotesKept == Settled /\ dealt /\ ~crossed => NoCardSkipped

\* store.ts:59-61 says that the page keeps its votes "so the swipe screen can
\* render the right state after an undo or a reconnect replay": no card is skipped
\* either when a part of that replay was dropped.
ReplayIsRight == Quiet /\ dealt /\ ~crossed => NoCardSkipped

=============================================================================
