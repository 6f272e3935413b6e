----------------------------- MODULE HubProofs -----------------------------
(***************************************************************************)
(* Proofs about Hub, for any connections, people, movies and tracked parts *)
(* and any capacity of the send buffers.                                   *)
(***************************************************************************)
EXTENDS Hub, SessionProofs, SequenceTheorems

Rosters ==
  IF "roster" \in Tracked
    THEN [people : SUBSET People, ready : SUBSET People,
          online : SUBSET People, wait : BOOLEAN]
    ELSE {"untracked"}

PageStatuses == Statuses \cup {"untracked"}

Messages ==
  UNION {[type : {"session_state"}, status : PageStatuses, roster : Rosters],
         [type : {"participant_update"}, roster : Rosters],
         [type : {"deck"}, deck : SUBSET Movies],
         [type : {"match"}, movie : Movies],
         [type : {"session_ended"}, board : {"null", "list", "untracked"}]}

Pages == [status : PageStatuses, deck : SUBSET Movies, winner : Movies \cup {NoMovie},
          board : {"none", "null", "list", "untracked"}, roster : Rosters]

Sends == [op : {"send"}, msg : Messages, to : SUBSET Conns]
Broadcasts == [op : {"broadcast"}, msg : Messages]
Copies == [op : {"participants", "state"}]
Ops == Sends \cup Broadcasts \cup Copies

HubShape ==
  /\ todo \in [Actors -> Seq(Ops)]
  /\ outbox \in [Conns -> Seq(Messages)]
  /\ view \in [Conns -> Pages]
  /\ dropped \in SUBSET Conns
  /\ \A c \in Conns : Len(outbox[c]) <= SendBuffer

\* What is sent is sent to open connections; only the send a handler is at may
\* be to others than its own connection, which stays while it has work to do.
HubSends ==
  /\ \A c \in Conns : /\ phase[c] = "closed" => outbox[c] = <<>>
                      /\ phase[c] = "fetching" => todo[c] = <<>>
  /\ \A a \in Actors :
       /\ \A x \in Range(todo[a]) : x.op = "send" =>
            \A c \in x.to : phase[c] # "closed"
       /\ todo[a] # <<>> =>
            \A x \in Range(Tail(todo[a])) : x.op = "send" => x.to = {a}

\* What a page or a session_state says of the session has happened.
Happened(s) ==
  /\ s = "active" => locked
  /\ s = "ended" => endReason # "none"
  /\ s = "matched" => status = "matched"

\* A message says nothing of the session that is not so, and stays true.
Honest(msg) ==
  /\ msg.type = "session_state" => Happened(msg.status)
  /\ msg.type = "deck" => endReason # "none" \/ (locked /\ msg.deck = deck)
  /\ msg.type = "match" => status = "matched" /\ msg.movie = winner
  /\ msg.type = "session_ended" => endReason # "none"

HubTruth ==
  /\ status = "ended" => endReason # "none"
  /\ \A c \in Conns :
       /\ Happened(view[c].status)
       /\ view[c].winner # NoMovie => status = "matched" /\ view[c].winner = winner
       /\ \A msg \in Range(outbox[c]) : Honest(msg)
  /\ \A a \in Actors : \A x \in Range(todo[a]) :
       x.op \in {"send", "broadcast"} => Honest(x.msg)

\* x will put msg in the buffer of c, if that is open and has room.
Reaches(x, c, msg) ==
  /\ x.op \in {"send", "broadcast"}
  /\ x.msg = msg
  /\ x.op = "send" => c \in x.to

\* msg is in the buffer of c, or some handler has it still to send to c.
OnTheWay(c, msg) ==
  \/ msg \in Range(outbox[c])
  \/ \E a \in Actors : \E x \in Range(todo[a]) : Reaches(x, c, msg)

HubReach ==
  \A c \in Conns : Follows(c) =>
    /\ status = "matched" =>
         view[c].winner = winner \/ OnTheWay(c, MatchMsg(winner))
    /\ locked /\ endReason = "none" =>
         view[c].deck = deck \/ OnTheWay(c, DeckMsg(deck))

HubInv == HubShape /\ HubSends /\ HubTruth /\ HubReach

----------------------------------------------------------------------------
(***************************************************************************)
(* Sequences, seen as the sets of their elements.                          *)
(***************************************************************************)

LEMMA RangeOfSequence ==
  ASSUME NEW S, NEW s \in Seq(S)
  PROVE  /\ \A x : x \in Range(s) <=> \E i \in 1..Len(s) : x = s[i]
         /\ Len(s) \in Nat
         /\ Range(s) \subseteq S
<1>1. /\ Len(s) \in Nat
      /\ DOMAIN s = 1..Len(s)
      /\ \A i \in 1..Len(s) : s[i] \in S
  BY LenProperties, ElementOfSeq
<1>2. QED
  BY <1>1 DEF Range

LEMMA EmptyRange == Range(<<>>) = {}
  BY DEF Range

LEMMA HeadAndTail ==
  ASSUME NEW S, NEW s \in Seq(S), s # <<>>
  PROVE  /\ Head(s) \in S
         /\ Tail(s) \in Seq(S)
         /\ Range(s) = {Head(s)} \cup Range(Tail(s))
<1>1. /\ Head(s) = s[1]
      /\ Len(s) \in Nat \ {0}
      /\ Tail(s) \in Seq(S)
      /\ Len(Tail(s)) = Len(s) - 1
      /\ \A i \in 1..Len(Tail(s)) : Tail(s)[i] = s[i + 1]
  BY HeadTailProperties, EmptySeq
<1>2. /\ \A x : x \in Range(s) <=> \E i \in 1..Len(s) : x = s[i]
      /\ \A x : x \in Range(Tail(s)) <=> \E i \in 1..Len(Tail(s)) : x = Tail(s)[i]
  <2>1. ASSUME NEW t \in Seq(S)
        PROVE  \A x : x \in Range(t) <=> \E i \in 1..Len(t) : x = t[i]
    BY RangeOfSequence
  <2>2. QED
    BY <1>1, <2>1
<1>3. Range(s) \subseteq {Head(s)} \cup Range(Tail(s))
  <2> SUFFICES ASSUME NEW i \in 1..Len(s), s[i] # Head(s)
               PROVE  s[i] \in Range(Tail(s))
    BY <1>2
  <2>1. i - 1 \in 1..Len(Tail(s)) /\ s[i] = Tail(s)[i - 1]
    BY <1>1
  <2>2. QED
    BY <1>1, <2>1, <1>2
<1>4. {Head(s)} \cup Range(Tail(s)) \subseteq Range(s)
  <2>1. Head(s) \in Range(s)
    BY <1>1, <1>2
  <2>2. ASSUME NEW i \in 1..Len(Tail(s))
        PROVE  Tail(s)[i] \in Range(s)
    <3>1. i + 1 \in 1..Len(s) /\ Tail(s)[i] = s[i + 1]
      BY <1>1
    <3>2. QED
      BY <3>1, <1>2
  <2>3. QED
    BY <1>1, <2>1, <2>2, <1>2
<1>5. QED
  BY <1>1, <1>3, <1>4, HeadTailProperties

LEMMA RangeOfConcatenation ==
  ASSUME NEW S, NEW s \in Seq(S), NEW t \in Seq(S)
  PROVE  /\ s \o t \in Seq(S)
         /\ Range(s \o t) = Range(s) \cup Range(t)
<1>1. /\ s \o t \in Seq(S)
      /\ Len(s \o t) = Len(s) + Len(t)
      /\ \A i \in 1..Len(s) + Len(t) :
           (s \o t)[i] = IF i <= Len(s) THEN s[i] ELSE t[i - Len(s)]
      /\ Len(s) \in Nat /\ Len(t) \in Nat
  BY ConcatProperties, LenProperties
<1>2. /\ \A x : x \in Range(s) <=> \E i \in 1..Len(s) : x = s[i]
      /\ \A x : x \in Range(t) <=> \E i \in 1..Len(t) : x = t[i]
      /\ \A x : x \in Range(s \o t) <=> \E i \in 1..Len(s \o t) : x = (s \o t)[i]
  BY <1>1, RangeOfSequence
<1>3. Range(s \o t) \subseteq Range(s) \cup Range(t)
  <2> SUFFICES ASSUME NEW i \in 1..Len(s) + Len(t)
               PROVE  (s \o t)[i] \in Range(s) \cup Range(t)
    BY <1>1, <1>2
  <2>1. CASE i <= Len(s)
    BY <1>1, <2>1, <1>2
  <2>2. CASE i > Len(s)
    <3>1. i - Len(s) \in 1..Len(t) /\ (s \o t)[i] = t[i - Len(s)]
      BY <1>1, <2>2
    <3>2. QED
      BY <3>1, <1>2
  <2>3. QED
    BY <1>1, <2>1, <2>2
<1>4. ASSUME NEW i \in 1..Len(s)
      PROVE  s[i] \in Range(s \o t)
  <2>1. i \in 1..Len(s \o t) /\ (s \o t)[i] = s[i]
    BY <1>1
  <2>2. QED
    BY <1>1, <2>1, <1>2
<1>5. ASSUME NEW i \in 1..Len(t)
      PROVE  t[i] \in Range(s \o t)
  <2>1. i + Len(s) \in 1..Len(s \o t) /\ (s \o t)[i + Len(s)] = t[i]
    BY <1>1
  <2>2. QED
    BY <1>1, <2>1, <1>2
<1>6. QED
  BY <1>1, <1>3, <1>4, <1>5, <1>2

LEMMA RangeOfOne ==
  ASSUME NEW S, NEW x \in S
  PROVE  <<x>> \in Seq(S) /\ Range(<<x>>) = {x}
  BY DEF Range

LEMMA PushedInFront ==
  ASSUME NEW S, NEW s \in Seq(S), NEW x \in S
  PROVE  /\ <<x>> \o s \in Seq(S)
         /\ <<x>> \o s # <<>>
         /\ Head(<<x>> \o s) = x
         /\ Tail(<<x>> \o s) = s
         /\ Range(<<x>> \o s) = {x} \cup Range(s)
<1>1. <<x>> \in Seq(S) /\ Range(<<x>>) = {x} /\ Len(<<x>>) = 1
  BY RangeOfOne
<1>2. /\ <<x>> \o s \in Seq(S)
      /\ Len(<<x>> \o s) = 1 + Len(s)
      /\ \A i \in 1..1 + Len(s) :
           (<<x>> \o s)[i] = IF i <= 1 THEN <<x>>[i] ELSE s[i - 1]
      /\ Len(s) \in Nat
  BY <1>1, ConcatProperties, LenProperties
<1>3. <<x>> \o s # <<>>
  BY <1>2, EmptySeq
<1>4. Head(<<x>> \o s) = x
  BY <1>2
<1>5. Tail(<<x>> \o s) = s
  <2>1. /\ Tail(<<x>> \o s) \in Seq(S)
        /\ Len(Tail(<<x>> \o s)) = Len(s)
        /\ \A i \in 1..Len(s) : Tail(<<x>> \o s)[i] = (<<x>> \o s)[i + 1]
    BY <1>2, <1>3, HeadTailProperties
  <2>2. \A i \in 1..Len(s) : Tail(<<x>> \o s)[i] = s[i]
    BY <1>2, <2>1
  <2>3. ASSUME NEW u \in Seq(S), Len(u) = Len(s), \A i \in 1..Len(s) : u[i] = s[i]
        PROVE  u = s
    BY <2>3, SeqEqual
  <2>4. QED
    BY <2>1, <2>2, <2>3
<1>6. ASSUME NEW t \in Seq(S)
      PROVE  Range(t \o s) = Range(t) \cup Range(s)
  BY RangeOfConcatenation
<1>7. QED
  BY <1>1, <1>2, <1>3, <1>4, <1>5, <1>6

LEMMA RangeOfAppend ==
  ASSUME NEW S, NEW s \in Seq(S), NEW x \in S
  PROVE  /\ Append(s, x) \in Seq(S)
         /\ Len(Append(s, x)) = Len(s) + 1
         /\ Range(Append(s, x)) = Range(s) \cup {x}
<1>1. Append(s, x) = s \o <<x>>
  BY AppendIsConcat
<1>2. <<x>> \in Seq(S) /\ Range(<<x>>) = {x}
  BY RangeOfOne
<1>3. ASSUME NEW t \in Seq(S)
      PROVE  Range(s \o t) = Range(s) \cup Range(t)
  BY RangeOfConcatenation
<1>4. QED
  BY <1>1, <1>2, <1>3, AppendProperties

----------------------------------------------------------------------------
(***************************************************************************)
(* Messages and lists of things to send.                                   *)
(***************************************************************************)

LEMMA MessagesTyped ==
  ASSUME TypeOK
  PROVE  /\ StateMsg \in Messages
         /\ RosterMsg \in Messages
         /\ EndedMsg \in Messages
         /\ \A d \in SUBSET Movies : DeckMsg(d) \in Messages
         /\ \A m \in Movies : MatchMsg(m) \in Messages
<1>1. Roster \in Rosters
  BY DEF TypeOK, Roster, Part, Rosters
<1>2. Part("status", status) \in PageStatuses
  BY DEF TypeOK, Part, PageStatuses
<1>3. Part("board", Leaderboard) \in {"null", "list", "untracked"}
  BY DEF Part, Leaderboard
<1>4. StateMsg \in Messages
  BY <1>1, <1>2 DEF StateMsg, Messages
<1>5. RosterMsg \in Messages
  BY <1>1 DEF RosterMsg, Messages
<1>6. EndedMsg \in Messages
  BY <1>3 DEF EndedMsg, Messages
<1>7. QED
  BY <1>4, <1>5, <1>6 DEF DeckMsg, MatchMsg, Messages

LEMMA OpsTyped ==
  /\ \A msg \in Messages, to \in SUBSET Conns :
       /\ Send(msg, to) \in Ops
       /\ Send(msg, to).op = "send"
       /\ Send(msg, to).msg = msg
       /\ Send(msg, to).to = to
  /\ \A msg \in Messages :
       /\ Broadcast(msg) \in Ops
       /\ Broadcast(msg).op = "broadcast"
       /\ Broadcast(msg).msg = msg
  /\ [op |-> "participants"] \in Ops
  /\ [op |-> "state"] \in Ops
  BY DEF Send, Broadcast, Ops, Sends, Broadcasts, Copies

LEMMA OpsRead ==
  \A x \in Ops :
    /\ x.op \in {"send", "broadcast", "participants", "state"}
    /\ x.op = "send" => x.msg \in Messages /\ x.to \in SUBSET Conns
    /\ x.op = "broadcast" => x.msg \in Messages
  BY DEF Ops, Sends, Broadcasts, Copies

\* A page that hears a message stays a page.
LEMMA ShowsTyped ==
  ASSUME NEW v \in Pages, NEW msg \in Messages
  PROVE  Shows(v, msg) \in Pages
<1> USE DEF Pages, Shows
<1>1. CASE msg \in [type : {"session_state"}, status : PageStatuses, roster : Rosters]
  BY <1>1
<1>2. CASE msg \in [type : {"participant_update"}, roster : Rosters]
  BY <1>2
<1>3. CASE msg \in [type : {"deck"}, deck : SUBSET Movies]
  BY <1>3
<1>4. CASE msg \in [type : {"match"}, movie : Movies]
  BY <1>4 DEF Part, PageStatuses, Statuses
<1>5. CASE msg \in [type : {"session_ended"}, board : {"null", "list", "untracked"}]
  BY <1>5 DEF Part, PageStatuses, Statuses
<1>6. QED
  BY <1>1, <1>2, <1>3, <1>4, <1>5 DEF Messages

\* What the parts of a page that the properties speak of become.
LEMMA ShowsParts ==
  ASSUME NEW v \in Pages, NEW msg \in Messages
  PROVE  /\ Shows(v, msg).deck = IF msg.type = "deck" THEN msg.deck ELSE v.deck
         /\ Shows(v, msg).winner = IF msg.type = "match" THEN msg.movie ELSE v.winner
         /\ Shows(v, msg).status =
              CASE msg.type = "session_state" -> msg.status
                [] msg.type = "match" -> Part("status", "matched")
                [] msg.type = "session_ended" -> Part("status", "ended")
                [] OTHER -> v.status
<1> USE DEF Pages, Shows
<1>1. CASE msg \in [type : {"session_state"}, status : PageStatuses, roster : Rosters]
  BY <1>1
<1>2. CASE msg \in [type : {"participant_update"}, roster : Rosters]
  BY <1>2
<1>3. CASE msg \in [type : {"deck"}, deck : SUBSET Movies]
  BY <1>3
<1>4. CASE msg \in [type : {"match"}, movie : Movies]
  BY <1>4
<1>5. CASE msg \in [type : {"session_ended"}, board : {"null", "list", "untracked"}]
  BY <1>5
<1>6. QED
  BY <1>1, <1>2, <1>3, <1>4, <1>5 DEF Messages

\* A list with one more send at its head, if that is to anyone.
LEMMA ThenProperties ==
  ASSUME NEW msg \in Messages, NEW to \in SUBSET Conns, NEW rest \in Seq(Ops)
  PROVE  /\ Then(msg, to, rest) \in Seq(Ops)
         /\ Range(Then(msg, to, rest)) =
              Range(rest) \cup (IF to = {} THEN {} ELSE {Send(msg, to)})
         /\ Then(msg, to, rest) # <<>> =>
              Range(Tail(Then(msg, to, rest))) \subseteq Range(rest)
<1>1. CASE to = {}
  <2>1. ASSUME rest # <<>>
        PROVE  Range(Tail(rest)) \subseteq Range(rest)
    BY <2>1, HeadAndTail
  <2>2. QED
    BY <1>1, <2>1 DEF Then
<1>2. CASE to # {}
  <2>1. Send(msg, to) \in Ops
    BY OpsTyped
  <2>2. /\ <<Send(msg, to)>> \o rest \in Seq(Ops)
        /\ Tail(<<Send(msg, to)>> \o rest) = rest
        /\ Range(<<Send(msg, to)>> \o rest) = {Send(msg, to)} \cup Range(rest)
    BY <2>1, PushedInFront
  <2>3. QED
    BY <1>2, <2>2 DEF Then
<1>3. QED
  BY <1>1, <1>2

----------------------------------------------------------------------------
(***************************************************************************)
(* What the steps of a session do to what was sent before them.            *)
(***************************************************************************)

LEMMA HubStepIsStep == HubNext => [Next]_vars
<1> SUFFICES ASSUME HubNext
             PROVE  [Next]_vars
  OBVIOUS
<1>1. ASSUME NEW a \in Actors, Snapshot(a)
      PROVE  UNCHANGED vars
  BY <1>1 DEF Snapshot
<1>2. ASSUME NEW a \in Actors, NEW c \in Conns, TrySend(a, c)
      PROVE  UNCHANGED vars
  BY <1>2 DEF TrySend
<1>3. ASSUME NEW c \in Conns, Deliver(c) \/ Reload(c)
      PROVE  UNCHANGED vars
  BY <1>3 DEF Deliver, Reload
<1>4. ASSUME NEW c \in Conns, HubHandler(c)
      PROVE  Handler(c)
  BY <1>4 DEF HubHandler, Handler, HubConnect, HubJoin, HubDisconnect,
       HubHostOptions, HubReady, HubHostStartBegin, HubHostStartFail,
       HubHostStartCommit, HubSwipe, HubUndo, HubHostPick, HubHostEnd
<1>5. HubEndAll => EndAll
  BY DEF HubEndAll
<1>6. QED
  BY <1>1, <1>2, <1>3, <1>4, <1>5 DEF HubNext, Next

\* Sessions only go forward: a deck stays dealt, a reason to have ended stays
\* one, a winner stays the winner.
Onward ==
  /\ locked => locked' /\ deck' = deck
  /\ endReason # "none" => endReason' # "none"
  /\ status = "matched" => status' = "matched" /\ winner' = winner
  /\ (status = "ended" => endReason # "none") =>
       (status' = "ended" => endReason' # "none")

LEMMA SessionsGoOnward == IInv /\ [Next]_vars => Onward
<1> SUFFICES ASSUME IInv, [Next]_vars
             PROVE  Onward
  OBVIOUS
<1> USE DEF roomVars, peopleVars, voteVars, connVars
<1>1. /\ locked => status # "lobby"
      /\ status \in {"active", "matched"} => locked
  BY DEF IInv, DealInv
<1> USE DEF Onward
<1>2. ASSUME UNCHANGED <<status, locked, deck, winner, endReason>>
      PROVE  Onward
  BY <1>2
<1>3. ASSUME NEW c \in Conns, NEW d \in SUBSET Movies, NEW n \in RequestedCounts,
             HostStartCommit(c, d, n)
      PROVE  Onward
  BY <1>1, <1>3 DEF HostStartCommit, MayStart
<1>4. ASSUME NEW c \in Conns, NEW m \in Movies, NEW dir \in {"yes", "no"},
             Swipe(c, m, dir)
      PROVE  Onward
  BY <1>4 DEF Swipe
<1>5. ASSUME NEW c \in Conns, NEW m \in Movies, HostPick(c, m)
      PROVE  Onward
  BY <1>5 DEF HostPick
<1>6. ASSUME NEW c \in Conns, HostEnd(c)
      PROVE  Onward
  BY <1>6 DEF HostEnd
<1>7. CASE EndAll
  BY <1>7 DEF EndAll
<1>8. ASSUME NEW c \in Conns,
             \/ \E t \in roster \cup {NoOne} : Connect(c, t)
             \/ \E p \in People : Join(c, p)
             \/ Disconnect(c)
      PROVE  Onward
  BY <1>2, <1>8 DEF Connect, Join, Disconnect
<1>9. ASSUME NEW c \in Conns,
             \/ \E wait \in BOOLEAN : HostOptions(c, wait)
             \/ \E isReady \in BOOLEAN : Ready(c, isReady)
             \/ HostStartBegin(c)
             \/ HostStartFail(c)
             \/ Undo(c)
      PROVE  Onward
  BY <1>2, <1>9 DEF HostOptions, Ready, HostStartBegin, HostStartFail, Undo
<1>10. CASE UNCHANGED vars
  BY <1>2, <1>10 DEF vars
<1>11. QED
  BY <1>3, <1>4, <1>5, <1>6, <1>7, <1>8, <1>9, <1>10 DEF Next, Handler

\* So what was true of a session when it was said stays true.
LEMMA HonestStays ==
  Onward => /\ \A msg : Honest(msg) => Honest(msg)'
            /\ \A s : Happened(s) => Happened(s)'
  BY DEF Onward, Honest, Happened

\* A connection attached by a step that is not its join was attached before.
LEMMA AttachedBefore ==
  ASSUME TypeOK, ident' = ident, clients' = clients, NEW c \in Conns, Attached(c)'
  PROVE  Attached(c)
  BY DEF Attached

LEMMA AttachedOpen ==
  ASSUME IInv, NEW c \in AttachedConns
  PROVE  c \in Conns /\ phase[c] # "closed"
  BY NoneAssumption DEF AttachedConns, IInv, ConnInv, ConnectedIsAttached

LEMMA AttachedListed ==
  ASSUME NEW c \in Conns, Attached(c)
  PROVE  c \in AttachedConns
  BY DEF Attached, AttachedConns

----------------------------------------------------------------------------
(***************************************************************************)
(* The inductive invariant, one lemma for each kind of step.  First the    *)
(* steps of sending and of the pages, which leave the session as it is.    *)
(***************************************************************************)

\* The session's part of the invariant's formulas in a step that leaves it.
LEMMA SessionAsItWas ==
  ASSUME UNCHANGED vars
  PROVE  /\ \A msg : Honest(msg)' <=> Honest(msg)
         /\ \A s : Happened(s)' <=> Happened(s)
         /\ \A c : Attached(c)' <=> Attached(c)
         /\ UNCHANGED <<status, locked, deck, winner, endReason, phase>>
  BY DEF Honest, Happened, Attached, vars, roomVars, peopleVars, connVars

\* A copied list of connections takes the place of a broadcast.
LEMMA SnapshotKeeps ==
  ASSUME IInv, HubInv, NEW a \in Actors, Snapshot(a)
  PROVE  HubInv'
<1> DEFINE x == Head(todo[a])
           rest == Tail(todo[a])
           to == AttachedConns
<1>1. /\ todo[a] \in Seq(Ops) /\ todo[a] # <<>>
      /\ x \in Ops /\ rest \in Seq(Ops)
      /\ Range(todo[a]) = {x} \cup Range(rest)
  BY HeadAndTail DEF Snapshot, HubInv, HubShape
<1>2. UNCHANGED <<vars, outbox, view, dropped>>
  BY DEF Snapshot
<1>3. to \in SUBSET Conns /\ \A c \in to : phase[c] # "closed"
  BY AttachedOpen
\* what the list of a becomes
<1>4. PICK y \in Ops, t \in Seq(Ops) :
        /\ todo' = [todo EXCEPT ![a] = t]
        /\ Range(rest) \subseteq Range(t)
        /\ Range(t) \subseteq {y} \cup Range(rest)
        /\ t # <<>> => Range(Tail(t)) \subseteq Range(rest)
        /\ y.op = "send" => \A c \in y.to : phase[c] # "closed"
        /\ y.op \in {"send", "broadcast"} => Honest(y.msg)
        /\ x.op = "broadcast" /\ to # {} => y \in Range(t) /\ y = Send(x.msg, to)
        /\ x.op # "send"
  <2>1. CASE x.op = "participants"
    <3>1. RosterMsg \in Messages /\ Honest(RosterMsg)
      BY MessagesTyped DEF IInv, RosterMsg, Honest
    <3>2. /\ Broadcast(RosterMsg) \in Ops
          /\ Broadcast(RosterMsg).op = "broadcast"
          /\ Broadcast(RosterMsg).msg = RosterMsg
      BY <3>1, OpsTyped
    <3>3. todo' = [todo EXCEPT ![a] = <<Broadcast(RosterMsg)>> \o rest]
      BY <2>1 DEF Snapshot
    <3>4. /\ <<Broadcast(RosterMsg)>> \o rest \in Seq(Ops)
          /\ Tail(<<Broadcast(RosterMsg)>> \o rest) = rest
          /\ Range(<<Broadcast(RosterMsg)>> \o rest)
               = {Broadcast(RosterMsg)} \cup Range(rest)
      BY <1>1, <3>2, PushedInFront
    <3>5. QED
      BY <2>1, <3>1, <3>2, <3>3, <3>4
  <2>2. ASSUME NEW msg \in Messages, Honest(msg),
               todo' = [todo EXCEPT ![a] = Then(msg, to, rest)],
               x.op # "send", x.op = "broadcast" => msg = x.msg
        PROVE  \E y \in Ops, t \in Seq(Ops) :
                 /\ todo' = [todo EXCEPT ![a] = t]
                 /\ Range(rest) \subseteq Range(t)
                 /\ Range(t) \subseteq {y} \cup Range(rest)
                 /\ t # <<>> => Range(Tail(t)) \subseteq Range(rest)
                 /\ y.op = "send" => \A c \in y.to : phase[c] # "closed"
                 /\ y.op \in {"send", "broadcast"} => Honest(y.msg)
                 /\ x.op = "broadcast" /\ to # {} => y \in Range(t) /\ y = Send(x.msg, to)
                 /\ x.op # "send"
    <3>1. /\ Send(msg, to) \in Ops
          /\ Send(msg, to).op = "send"
          /\ Send(msg, to).msg = msg
          /\ Send(msg, to).to = to
      BY <1>3, OpsTyped
    <3>2. /\ Then(msg, to, rest) \in Seq(Ops)
          /\ Range(Then(msg, to, rest)) =
              Range(rest) \cup (IF to = {} THEN {} ELSE {Send(msg, to)})
          /\ Then(msg, to, rest) # <<>> =>
              Range(Tail(Then(msg, to, rest))) \subseteq Range(rest)
      BY <1>1, <1>3, ThenProperties
    <3> USE <3>1, <3>2
    <3>3. WITNESS Send(msg, to) \in Ops, Then(msg, to, rest) \in Seq(Ops)
    <3>4. QED
      BY <1>3, <2>2
  <2>3. CASE x.op = "state"
    <3>1. Happened(status)
      BY DEF Happened, IInv, DealInv, HubInv, HubTruth
    <3>2. StateMsg \in Messages /\ Honest(StateMsg)
      BY <3>1, MessagesTyped DEF IInv, StateMsg, Honest, Part, Happened
    <3>3. todo' = [todo EXCEPT ![a] = Then(StateMsg, to, rest)]
      BY <2>3 DEF Snapshot
    <3>4. QED
      BY <2>2, <2>3, <3>2, <3>3
  <2>4. CASE x.op = "broadcast"
    <3>1. x.msg \in Messages /\ Honest(x.msg)
      BY <1>1, <2>4, OpsRead DEF HubInv, HubTruth
    <3>2. todo' = [todo EXCEPT ![a] = Then(x.msg, to, rest)]
      BY <2>4 DEF Snapshot
    <3>3. QED
      BY <2>2, <2>4, <3>1, <3>2
  <2>5. QED
    BY <2>1, <2>3, <2>4 DEF Snapshot
<1>5. HubShape'
  BY <1>2, <1>4 DEF HubInv, HubShape
<1>6. HubSends'
  <2>1. \A z \in Range(t) : z.op = "send" => \A c \in z.to : phase[c] # "closed"
    BY <1>1, <1>4 DEF HubInv, HubSends
  <2>2. t # <<>> => \A z \in Range(Tail(t)) : z.op = "send" => z.to = {a}
    BY <1>1, <1>4 DEF HubInv, HubSends
  <2>3. \A c \in Conns : phase[c] = "fetching" => c # a
    BY <1>1 DEF HubInv, HubSends
  <2>4. UNCHANGED <<phase, outbox>>
    BY <1>2, SessionAsItWas
  <2>5. todo' \in [Actors -> Seq(Ops)] /\ todo'[a] = t
        /\ \A b \in Actors \ {a} : todo'[b] = todo[b]
    BY <1>4 DEF HubInv, HubShape
  <2>6. QED
    BY <2>1, <2>2, <2>3, <2>4, <2>5 DEF HubInv, HubSends, Actors
<1>7. HubTruth'
  <2>1. \A z \in Range(t) : z.op \in {"send", "broadcast"} => Honest(z.msg)
    BY <1>1, <1>4 DEF HubInv, HubTruth
  <2>2. todo'[a] = t /\ \A b \in Actors \ {a} : todo'[b] = todo[b]
    BY <1>4 DEF HubInv, HubShape
  <2>3. QED
    BY <1>2, <2>1, <2>2, SessionAsItWas DEF HubInv, HubTruth
<1>8. ASSUME NEW c \in Conns, Attached(c), NEW msg, OnTheWay(c, msg)
      PROVE  OnTheWay(c, msg)'
  <2>1. CASE msg \in Range(outbox[c])
    BY <1>2, <2>1 DEF OnTheWay
  <2>2. ASSUME NEW b \in Actors, NEW z \in Range(todo[b]), Reaches(z, c, msg)
        PROVE  OnTheWay(c, msg)'
    <3>1. CASE b # a
      <4>1. todo'[b] = todo[b]
        BY <1>4, <3>1 DEF HubInv, HubShape
      <4>2. QED
        BY <2>2, <4>1 DEF OnTheWay, Reaches
    <3>2. CASE b = a /\ z \in Range(rest)
      <4>1. z \in Range(todo'[a])
        BY <1>4, <3>2 DEF HubInv, HubShape
      <4>2. QED
        BY <2>2, <4>1 DEF OnTheWay, Reaches
    <3>3. CASE b = a /\ z = x
      <4>1. x.op = "broadcast" /\ x.msg = msg /\ c \in to
        BY <1>4, <1>8, <2>2, <3>3, AttachedListed DEF Reaches
      <4>2. x.msg \in Messages
        BY <1>1, <4>1, OpsRead
      <4>3. y.op = "send" /\ y.msg = msg /\ y.to = to /\ y \in Range(todo'[a])
        BY <1>3, <1>4, <4>1, <4>2, OpsTyped DEF HubInv, HubShape
      <4>4. QED
        BY <4>1, <4>3 DEF OnTheWay, Reaches
    <3>4. QED
      BY <1>1, <2>2, <3>1, <3>2, <3>3
  <2>3. QED
    BY <1>8, <2>1, <2>2 DEF OnTheWay
<1>9. HubReach'
  <2>1. \A c \in Conns : Follows(c)' => Follows(c) /\ Attached(c)
    BY <1>2, SessionAsItWas DEF Follows
  <2>2. UNCHANGED <<status, locked, deck, winner, endReason, view>>
    BY <1>2, SessionAsItWas
  <2>3. ASSUME NEW c \in Conns, Follows(c)', status' = "matched"
        PROVE  view'[c].winner = winner' \/ OnTheWay(c, MatchMsg(winner))'
    BY <1>8, <2>1, <2>2, <2>3 DEF HubInv, HubReach, MatchMsg
  <2>4. ASSUME NEW c \in Conns, Follows(c)', locked', endReason' = "none"
        PROVE  view'[c].deck = deck' \/ OnTheWay(c, DeckMsg(deck))'
    BY <1>8, <2>1, <2>2, <2>4 DEF HubInv, HubReach, DeckMsg
  <2>5. QED
    BY <2>3, <2>4 DEF HubReach
<1>10. QED
  BY <1>5, <1>6, <1>7, <1>9 DEF HubInv

\* A message is put in a buffer, or dropped because the buffer is full.
LEMMA TrySendKeeps ==
  ASSUME IInv, HubInv, NEW a \in Actors, NEW d \in Conns, TrySend(a, d)
  PROVE  HubInv'
<1> DEFINE x == Head(todo[a])
           rest == Tail(todo[a])
           left == x.to \ {d}
<1>1. /\ todo[a] \in Seq(Ops) /\ todo[a] # <<>>
      /\ x \in Ops /\ rest \in Seq(Ops)
      /\ Range(todo[a]) = {x} \cup Range(rest)
      /\ x.op = "send" /\ d \in x.to
  BY HeadAndTail DEF TrySend, HubInv, HubShape
<1>2. UNCHANGED <<vars, view>>
  BY DEF TrySend
<1>3. /\ x.msg \in Messages /\ left \in SUBSET Conns
      /\ Honest(x.msg)
      /\ \A c \in x.to : phase[c] # "closed"
  BY <1>1, OpsRead DEF HubInv, HubSends, HubTruth
<1>4. PICK t \in Seq(Ops) :
        /\ todo' = [todo EXCEPT ![a] = t]
        /\ Range(t) = Range(rest) \cup (IF left = {} THEN {} ELSE {Send(x.msg, left)})
        /\ t # <<>> => Range(Tail(t)) \subseteq Range(rest)
  <2>1. todo' = [todo EXCEPT ![a] = Then(x.msg, left, rest)]
    BY DEF TrySend
  <2>2. /\ Then(x.msg, left, rest) \in Seq(Ops)
        /\ Range(Then(x.msg, left, rest)) =
             Range(rest) \cup (IF left = {} THEN {} ELSE {Send(x.msg, left)})
        /\ Then(x.msg, left, rest) # <<>> =>
             Range(Tail(Then(x.msg, left, rest))) \subseteq Range(rest)
    BY <1>1, <1>3, ThenProperties
  <2>3. QED
    BY <2>1, <2>2
<1>5. /\ Send(x.msg, left).op = "send"
      /\ Send(x.msg, left).msg = x.msg
      /\ Send(x.msg, left).to = left
  BY <1>3, OpsTyped
<1>6. /\ todo' \in [Actors -> Seq(Ops)] /\ todo'[a] = t
      /\ \A b \in Actors \ {a} : todo'[b] = todo[b]
  BY <1>4 DEF HubInv, HubShape
\* what happens to the buffers
<1>7. /\ outbox' \in [Conns -> Seq(Messages)]
      /\ \A c \in Conns \ {d} : outbox'[c] = outbox[c]
      /\ Len(outbox'[d]) <= SendBuffer
      /\ Range(outbox'[d]) \subseteq Range(outbox[d]) \cup {x.msg}
      /\ Range(outbox[d]) \subseteq Range(outbox'[d])
      /\ dropped' \in SUBSET Conns /\ dropped \subseteq dropped'
      /\ d \in dropped' \/ x.msg \in Range(outbox'[d])
  <2>1. outbox \in [Conns -> Seq(Messages)] /\ Len(outbox[d]) <= SendBuffer
    BY DEF HubInv, HubShape
  <2>2. /\ Append(outbox[d], x.msg) \in Seq(Messages)
        /\ Len(Append(outbox[d], x.msg)) = Len(outbox[d]) + 1
        /\ Range(Append(outbox[d], x.msg)) = Range(outbox[d]) \cup {x.msg}
        /\ Len(outbox[d]) \in Nat
    BY <1>3, <2>1, RangeOfAppend, LenProperties
  <2>3. CASE /\ Len(outbox[d]) < SendBuffer
             /\ outbox' = [outbox EXCEPT ![d] = Append(@, x.msg)]
             /\ dropped' = dropped
    BY <2>1, <2>2, <2>3, BufferAssumption DEF HubInv, HubShape
  <2>4. CASE dropped' = dropped \cup {d} /\ outbox' = outbox
    BY <2>1, <2>4 DEF HubInv, HubShape
  <2>5. QED
    BY <2>3, <2>4 DEF TrySend
<1>8. HubShape'
  BY <1>2, <1>6, <1>7 DEF HubInv, HubShape
<1>9. HubSends'
  <2>1. \A z \in Range(t) : z.op = "send" => \A c \in z.to : phase[c] # "closed"
    BY <1>1, <1>3, <1>4, <1>5 DEF HubInv, HubSends
  <2>2. t # <<>> => \A z \in Range(Tail(t)) : z.op = "send" => z.to = {a}
    BY <1>1, <1>4 DEF HubInv, HubSends
  <2>3. \A c \in Conns : phase[c] = "fetching" => c # a
    BY <1>1 DEF HubInv, HubSends
  <2>4. phase[d] # "closed" /\ phase' = phase
    BY <1>1, <1>2, <1>3, SessionAsItWas
  <2>5. QED
    BY <1>6, <1>7, <2>1, <2>2, <2>3, <2>4 DEF HubInv, HubSends, Actors
<1>10. HubTruth'
  <2>1. \A z \in Range(t) : z.op \in {"send", "broadcast"} => Honest(z.msg)
    BY <1>1, <1>3, <1>4, <1>5 DEF HubInv, HubTruth
  <2>2. \A c \in Conns : \A msg \in Range(outbox'[c]) : Honest(msg)
    BY <1>3, <1>7 DEF HubInv, HubTruth
  <2>3. QED
    BY <1>2, <1>6, <2>1, <2>2, SessionAsItWas DEF HubInv, HubTruth
<1>11. ASSUME NEW c \in Conns, c \notin dropped', NEW msg, OnTheWay(c, msg)
       PROVE  OnTheWay(c, msg)'
  <2>1. CASE msg \in Range(outbox[c])
    BY <1>7, <2>1 DEF OnTheWay
  <2>2. ASSUME NEW b \in Actors, NEW z \in Range(todo[b]), Reaches(z, c, msg)
        PROVE  OnTheWay(c, msg)'
    <3>1. CASE b # a \/ z \in Range(rest)
      <4>1. z \in Range(todo'[b])
        BY <1>4, <1>6, <2>2, <3>1
      <4>2. QED
        BY <2>2, <4>1 DEF OnTheWay, Reaches
    <3>2. CASE b = a /\ z = x /\ c = d
      <4>1. msg \in Range(outbox'[c])
        BY <1>7, <1>11, <2>2, <3>2 DEF Reaches
      <4>2. QED
        BY <4>1 DEF OnTheWay
    <3>3. CASE b = a /\ z = x /\ c # d
      <4>1. msg = x.msg /\ c \in left
        BY <1>1, <2>2, <3>3 DEF Reaches
      <4>2. Send(x.msg, left) \in Range(todo'[a])
        BY <1>4, <1>6, <4>1
      <4>3. QED
        BY <1>5, <4>1, <4>2 DEF OnTheWay, Reaches
    <3>4. QED
      BY <1>1, <2>2, <3>1, <3>2, <3>3
  <2>3. QED
    BY <1>11, <2>1, <2>2 DEF OnTheWay
<1>12. HubReach'
  <2>1. \A c \in Conns : Follows(c)' => Follows(c) /\ c \notin dropped'
    BY <1>2, <1>7, SessionAsItWas DEF Follows
  <2>2. UNCHANGED <<status, locked, deck, winner, endReason, view>>
    BY <1>2, SessionAsItWas
  <2>3. ASSUME NEW c \in Conns, Follows(c)', status' = "matched"
        PROVE  view'[c].winner = winner' \/ OnTheWay(c, MatchMsg(winner))'
    BY <1>11, <2>1, <2>2, <2>3 DEF HubInv, HubReach, MatchMsg
  <2>4. ASSUME NEW c \in Conns, Follows(c)', locked', endReason' = "none"
        PROVE  view'[c].deck = deck' \/ OnTheWay(c, DeckMsg(deck))'
    BY <1>11, <2>1, <2>2, <2>4 DEF HubInv, HubReach, DeckMsg
  <2>5. QED
    BY <2>3, <2>4 DEF HubReach
<1>13. QED
  BY <1>8, <1>9, <1>10, <1>12 DEF HubInv

\* The page at the other end shows what the head of its buffer says.
LEMMA DeliverKeeps ==
  ASSUME IInv, HubInv, NEW d \in Conns, Deliver(d)
  PROVE  HubInv'
<1> DEFINE m == Head(outbox[d])
<1>1. /\ outbox[d] \in Seq(Messages) /\ outbox[d] # <<>>
      /\ m \in Messages /\ Tail(outbox[d]) \in Seq(Messages)
      /\ Range(outbox[d]) = {m} \cup Range(Tail(outbox[d]))
      /\ Len(Tail(outbox[d])) <= SendBuffer
  <2>1. outbox[d] \in Seq(Messages) /\ outbox[d] # <<>> /\ Len(outbox[d]) <= SendBuffer
    BY DEF Deliver, HubInv, HubShape
  <2>2. Len(Tail(outbox[d])) = Len(outbox[d]) - 1 /\ Len(outbox[d]) \in Nat
    BY <2>1, HeadTailProperties, LenProperties
  <2>3. QED
    BY <2>1, <2>2, HeadAndTail, BufferAssumption
<1>2. /\ UNCHANGED <<vars, todo, dropped>>
      /\ phase[d] # "closed"
      /\ outbox' = [outbox EXCEPT ![d] = Tail(outbox[d])]
      /\ view' = [view EXCEPT ![d] = Shows(view[d], m)]
  BY DEF Deliver
<1>3. Shows(view[d], m) \in Pages /\ view[d] \in Pages /\ Honest(m)
  BY <1>1, ShowsTyped DEF HubInv, HubShape, HubTruth
<1>4. /\ Shows(view[d], m).deck = IF m.type = "deck" THEN m.deck ELSE view[d].deck
      /\ Shows(view[d], m).winner = IF m.type = "match" THEN m.movie ELSE view[d].winner
      /\ Shows(view[d], m).status =
            CASE m.type = "session_state" -> m.status
              [] m.type = "match" -> Part("status", "matched")
              [] m.type = "session_ended" -> Part("status", "ended")
              [] OTHER -> view[d].status
  BY <1>1, <1>3, ShowsParts
<1>5. /\ outbox' \in [Conns -> Seq(Messages)] /\ outbox'[d] = Tail(outbox[d])
      /\ view' \in [Conns -> Pages] /\ view'[d] = Shows(view[d], m)
      /\ \A c \in Conns \ {d} : outbox'[c] = outbox[c] /\ view'[c] = view[c]
  BY <1>1, <1>2, <1>3 DEF HubInv, HubShape
<1>6. HubShape'
  BY <1>1, <1>2, <1>5 DEF HubInv, HubShape
<1>7. HubSends'
  BY <1>2, <1>5, SessionAsItWas DEF HubInv, HubSends
<1>8. HubTruth'
  <2>1. Happened(Shows(view[d], m).status)
    BY <1>3, <1>4 DEF HubInv, HubTruth, Honest, Happened, Part
  <2>2. Shows(view[d], m).winner # NoMovie =>
          status = "matched" /\ Shows(view[d], m).winner = winner
    BY <1>3, <1>4 DEF HubInv, HubTruth, Honest
  <2>3. \A c \in Conns : \A msg \in Range(outbox'[c]) : Honest(msg)
    BY <1>1, <1>5 DEF HubInv, HubTruth
  <2>4. QED
    BY <1>2, <1>5, <2>1, <2>2, <2>3, SessionAsItWas DEF HubInv, HubTruth
<1>9. ASSUME NEW c \in Conns, NEW msg, OnTheWay(c, msg)
      PROVE  OnTheWay(c, msg)' \/ (c = d /\ msg = m)
  BY <1>1, <1>2, <1>5, <1>9 DEF OnTheWay, Reaches
<1>10. HubReach'
  <2>1. \A c \in Conns : Follows(c)' => Follows(c)
    BY <1>2, SessionAsItWas DEF Follows
  <2>2. UNCHANGED <<status, locked, deck, winner, endReason>>
    BY <1>2, SessionAsItWas
  <2>3. ASSUME NEW c \in Conns, Follows(c)', status' = "matched"
        PROVE  view'[c].winner = winner' \/ OnTheWay(c, MatchMsg(winner))'
    <3>1. view[c].winner = winner \/ OnTheWay(c, MatchMsg(winner))
      BY <2>1, <2>2, <2>3 DEF HubInv, HubReach
    <3>2. CASE view[c].winner = winner
      BY <1>3, <1>4, <1>5, <2>2, <3>2 DEF Honest
    <3>3. CASE OnTheWay(c, MatchMsg(winner))
      BY <1>4, <1>5, <1>9, <2>2, <3>3 DEF MatchMsg
    <3>4. QED
      BY <3>1, <3>2, <3>3
  <2>4. ASSUME NEW c \in Conns, Follows(c)', locked', endReason' = "none"
        PROVE  view'[c].deck = deck' \/ OnTheWay(c, DeckMsg(deck))'
    <3>1. view[c].deck = deck \/ OnTheWay(c, DeckMsg(deck))
      BY <2>1, <2>2, <2>4 DEF HubInv, HubReach
    <3>2. CASE view[c].deck = deck
      BY <1>3, <1>4, <1>5, <2>2, <2>4, <3>2 DEF Honest
    <3>3. CASE OnTheWay(c, DeckMsg(deck))
      BY <1>4, <1>5, <1>9, <2>2, <3>3 DEF DeckMsg
    <3>4. QED
      BY <3>1, <3>2, <3>3
  <2>5. QED
    BY <2>3, <2>4 DEF HubReach
<1>11. QED
  BY <1>6, <1>7, <1>8, <1>10 DEF HubInv

\* A page is loaded anew only while its tab is attached to no one.
LEMMA ReloadKeeps ==
  ASSUME IInv, HubInv, NEW d \in Conns, Reload(d)
  PROVE  HubInv'
<1>1. /\ UNCHANGED <<vars, todo, outbox, dropped>>
      /\ phase[d] = "closed"
      /\ view' = [view EXCEPT ![d] = BlankView]
  BY DEF Reload
<1>2. /\ BlankView \in Pages /\ BlankView.winner = NoMovie
      /\ Happened(BlankView.status)
  BY DEF BlankView, Pages, NoRoster, Rosters, Part, PageStatuses, Statuses, Happened
<1>3. ~Attached(d)
  BY <1>1, NoneAssumption DEF Attached, IInv, ConnInv
<1>4. /\ view' \in [Conns -> Pages] /\ view'[d] = BlankView
      /\ \A c \in Conns \ {d} : view'[c] = view[c]
  BY <1>1, <1>2 DEF HubInv, HubShape
<1>5. HubShape'
  BY <1>1, <1>4 DEF HubInv, HubShape
<1>6. HubSends'
  BY <1>1, SessionAsItWas DEF HubInv, HubSends
<1>7. HubTruth'
  BY <1>1, <1>2, <1>4, SessionAsItWas DEF HubInv, HubTruth
<1>8. \A c \in Conns : \A msg : OnTheWay(c, msg)' <=> OnTheWay(c, msg)
  BY <1>1 DEF OnTheWay, Reaches
<1>9. HubReach'
  <2>1. \A c \in Conns : Follows(c)' => Follows(c) /\ c # d
    BY <1>1, <1>3, SessionAsItWas DEF Follows
  <2>2. UNCHANGED <<status, locked, deck, winner, endReason>>
    BY <1>1, SessionAsItWas
  <2>3. QED
    BY <1>4, <1>8, <2>1, <2>2 DEF HubInv, HubReach, MatchMsg, DeckMsg
<1>10. QED
  BY <1>5, <1>6, <1>7, <1>9 DEF HubInv

----------------------------------------------------------------------------
(***************************************************************************)
(* The handlers.  A handler that had nothing left to send answers: what it *)
(* leaves is to everyone or to itself, and true of the session it leaves.  *)
(***************************************************************************)

GoodReply(a, s) ==
  /\ s \in Seq(Ops)
  /\ \A x \in Range(s) :
       /\ x.op = "send" => x.to = {a}
       /\ x.op \in {"send", "broadcast"} => Honest(x.msg)'

Answers(a) ==
  /\ todo[a] = <<>>
  /\ \E s : todo' = [todo EXCEPT ![a] = s] /\ GoodReply(a, s)
  /\ UNCHANGED <<outbox, view, dropped>>

LEMMA NoReply ==
  ASSUME NEW a
  PROVE  GoodReply(a, <<>>)
<1>1. <<>> \in Seq(Ops)
  BY EmptySeq
<1>2. QED
  BY <1>1, EmptyRange DEF GoodReply

LEMMA OneReply ==
  ASSUME NEW a, NEW x \in Ops,
         x.op = "send" => x.to = {a},
         x.op \in {"send", "broadcast"} => Honest(x.msg)'
  PROVE  GoodReply(a, <<x>>)
<1>1. <<x>> \in Seq(Ops) /\ Range(<<x>>) = {x}
  BY RangeOfOne
<1>2. QED
  BY <1>1 DEF GoodReply

LEMMA BothReplies ==
  ASSUME NEW a, NEW s, NEW t, GoodReply(a, s), GoodReply(a, t)
  PROVE  /\ GoodReply(a, s \o t)
         /\ Range(s \o t) = Range(s) \cup Range(t)
<1>1. /\ s \o t \in Seq(Ops)
      /\ Range(s \o t) = Range(s) \cup Range(t)
  BY RangeOfConcatenation DEF GoodReply
<1>2. QED
  BY <1>1 DEF GoodReply

LEMMA RosterReply ==
  ASSUME NEW a
  PROVE  GoodReply(a, BroadcastParticipants)
<1>1. GoodReply(a, <<[op |-> "participants"]>>)
  BY OneReply, OpsTyped
<1>2. QED
  BY <1>1, NoReply DEF BroadcastParticipants, Tells

LEMMA StatusReply ==
  ASSUME NEW a
  PROVE  GoodReply(a, BroadcastSessionState)
<1>1. GoodReply(a, <<[op |-> "state"]>>)
  BY OneReply, OpsTyped
<1>2. QED
  BY <1>1, NoReply DEF BroadcastSessionState, Tells

LEMMA BroadcastReply ==
  ASSUME NEW a, NEW msg \in Messages, Honest(msg)'
  PROVE  /\ GoodReply(a, <<Broadcast(msg)>>)
         /\ Broadcast(msg) \in Range(<<Broadcast(msg)>>)
<1>1. /\ Broadcast(msg) \in Ops
      /\ Broadcast(msg).op = "broadcast"
      /\ Broadcast(msg).msg = msg
  BY OpsTyped
<1>2. GoodReply(a, <<Broadcast(msg)>>)
  BY <1>1, OneReply
<1>3. QED
  BY <1>1, <1>2, RangeOfOne

LEMMA OwnReply ==
  ASSUME NEW c \in Conns, NEW msg \in Messages, Honest(msg)'
  PROVE  /\ GoodReply(c, <<Send(msg, {c})>>)
         /\ Send(msg, {c}) \in Range(<<Send(msg, {c})>>)
         /\ Reaches(Send(msg, {c}), c, msg)
<1>1. /\ Send(msg, {c}) \in Ops
      /\ Send(msg, {c}).op = "send"
      /\ Send(msg, {c}).msg = msg
      /\ Send(msg, {c}).to = {c}
  BY OpsTyped
<1>2. GoodReply(c, <<Send(msg, {c})>>)
  BY <1>1, OneReply
<1>3. QED
  BY <1>1, <1>2, RangeOfOne DEF Reaches

LEMMA EndedReply ==
  ASSUME TypeOK, NEW a, endReason' # "none"
  PROVE  GoodReply(a, BroadcastEnded)
<1>1. PICK msg \in Messages : msg = EndedMsg
  BY MessagesTyped
<1>2. Honest(msg)'
  BY <1>1 DEF Honest, EndedMsg
<1>3. GoodReply(a, <<Broadcast(msg)>>)
  BY <1>2, BroadcastReply
<1>4. QED
  BY <1>1, <1>3, NoReply DEF BroadcastEnded, Tells

\* An answer of an idle handler breaks nothing that was on its way.
LEMMA AnswersKeep ==
  ASSUME HubInv, Onward, NEW a \in Actors, Answers(a),
         \A c \in Conns :
           /\ phase'[c] = "closed" => c # a /\ phase[c] = "closed"
           /\ phase'[c] = "fetching" =>
                (c # a /\ phase[c] = "fetching") \/ todo'[c] = <<>>
  PROVE  /\ HubShape' /\ HubSends' /\ HubTruth'
         /\ \A c, msg : OnTheWay(c, msg) => OnTheWay(c, msg)'
<1>1. PICK s : todo' = [todo EXCEPT ![a] = s] /\ GoodReply(a, s)
  BY DEF Answers
<1>2. /\ todo[a] = <<>> /\ UNCHANGED <<outbox, view, dropped>>
  BY DEF Answers
<1>3. /\ s \in Seq(Ops)
      /\ s # <<>> => Range(Tail(s)) \subseteq Range(s)
      /\ \A x \in Range(s) :
           /\ x.op = "send" => x.to = {a}
           /\ x.op \in {"send", "broadcast"} => Honest(x.msg)'
  BY <1>1, HeadAndTail DEF GoodReply
<1>4. /\ todo' \in [Actors -> Seq(Ops)] /\ todo'[a] = s
      /\ \A b \in Actors \ {a} : todo'[b] = todo[b]
  BY <1>1, <1>3 DEF HubInv, HubShape
<1>5. HubShape'
  BY <1>2, <1>4 DEF HubInv, HubShape
<1>6. HubSends'
  <2>1. ASSUME NEW c \in Conns
        PROVE  /\ phase'[c] = "closed" => outbox'[c] = <<>>
               /\ phase'[c] = "fetching" => todo'[c] = <<>>
    BY <1>2, <1>4 DEF HubInv, HubSends, Actors
  <2>2. ASSUME NEW b \in Actors, NEW x \in Range(todo'[b]), x.op = "send", NEW c \in x.to
        PROVE  phase'[c] # "closed"
    <3>1. CASE b = a
      <4>1. x.to = {a} /\ x \in Ops
        BY <1>3, <1>4, <2>2, <3>1, RangeOfSequence
      <4>2. a \in Conns
        BY <2>2, <4>1, OpsRead
      <4>3. QED
        BY <2>2, <4>1, <4>2
    <3>2. CASE b # a
      <4>1. x \in Range(todo[b]) /\ todo[b] \in Seq(Ops)
        BY <1>4, <2>2, <3>2 DEF HubInv, HubShape
      <4>2. c \in Conns
        BY <2>2, <4>1, OpsRead, RangeOfSequence
      <4>3. phase[c] # "closed"
        BY <2>2, <4>1 DEF HubInv, HubSends
      <4>4. QED
        BY <4>2, <4>3
    <3>3. QED
      BY <3>1, <3>2
  <2>3. ASSUME NEW b \in Actors, todo'[b] # <<>>, NEW x \in Range(Tail(todo'[b])),
               x.op = "send"
        PROVE  x.to = {b}
    BY <1>3, <1>4, <2>3 DEF HubInv, HubSends
  <2>4. QED
    BY <2>1, <2>2, <2>3 DEF HubSends
<1>7. HubTruth'
  <2>1. /\ \A msg : Honest(msg) => Honest(msg)'
        /\ \A st : Happened(st) => Happened(st)'
    BY HonestStays
  <2>2. /\ status' = "ended" => endReason' # "none"
        /\ \A c \in Conns : view[c].winner # NoMovie =>
             status' = "matched" /\ view[c].winner = winner'
    BY DEF HubInv, HubTruth, Onward
  <2>3. \A b \in Actors : \A x \in Range(todo'[b]) :
          x.op \in {"send", "broadcast"} => Honest(x.msg)'
    BY <1>3, <1>4, <2>1 DEF HubInv, HubTruth
  <2>4. QED
    BY <1>2, <2>1, <2>2, <2>3 DEF HubInv, HubTruth
<1>8. ASSUME NEW c, NEW msg, OnTheWay(c, msg)
      PROVE  OnTheWay(c, msg)'
  <2>1. \A b \in Actors : \A x \in Range(todo[b]) : x \in Range(todo'[b])
    BY <1>2, <1>4, EmptyRange
  <2>2. QED
    BY <1>2, <1>8, <2>1 DEF OnTheWay, Reaches
<1>9. QED
  BY <1>5, <1>6, <1>7, <1>8

\* Every handler but those that open, join and close a connection: who is
\* attached stays, and a match or a deal leaves a broadcast of itself.
LEMMA HandlerKeeps ==
  ASSUME IInv, HubInv, Onward, NEW a \in Actors, Answers(a),
         UNCHANGED <<ident, clients>>,
         \A c \in Conns :
           /\ phase'[c] = "closed" => c # a /\ phase[c] = "closed"
           /\ phase'[c] = "fetching" =>
                (c # a /\ phase[c] = "fetching") \/ todo'[c] = <<>>,
         status' = "matched" =>
           \/ status = "matched"
           \/ \E m : m = winner' /\ Broadcast(MatchMsg(m)) \in Range(todo'[a]),
         locked' /\ endReason' = "none" =>
           \/ locked /\ endReason = "none"
           \/ \E d : d = deck' /\ Broadcast(DeckMsg(d)) \in Range(todo'[a])
  PROVE  HubInv'
<1>1. /\ HubShape' /\ HubSends' /\ HubTruth'
      /\ \A c, msg : OnTheWay(c, msg) => OnTheWay(c, msg)'
  BY AnswersKeep
<1>2. UNCHANGED <<view, dropped>>
  BY DEF Answers
<1>3. \A c \in Conns : Follows(c)' => Follows(c)
  BY <1>2 DEF Follows, Attached
<1>4. ASSUME NEW c \in Conns, NEW msg, Broadcast(msg) \in Range(todo'[a])
      PROVE  OnTheWay(c, msg)'
  <2>1. Reaches(Broadcast(msg), c, msg)'
    BY DEF Reaches, Broadcast
  <2>2. QED
    BY <1>4, <2>1 DEF OnTheWay, Reaches
<1>5. ASSUME NEW c \in Conns, Follows(c)', status' = "matched"
      PROVE  view'[c].winner = winner' \/ OnTheWay(c, MatchMsg(winner))'
  <2>1. CASE status = "matched"
    BY <1>1, <1>2, <1>3, <1>5, <2>1 DEF HubInv, HubReach, MatchMsg, Onward
  <2>2. ASSUME NEW m, m = winner', Broadcast(MatchMsg(m)) \in Range(todo'[a])
        PROVE  OnTheWay(c, MatchMsg(winner))'
    <3>1. OnTheWay(c, MatchMsg(m))'
      BY <1>4, <2>2 DEF MatchMsg
    <3>2. QED
      BY <2>2, <3>1 DEF MatchMsg
  <2>3. QED
    BY <1>5, <2>1, <2>2
<1>6. ASSUME NEW c \in Conns, Follows(c)', locked', endReason' = "none"
      PROVE  view'[c].deck = deck' \/ OnTheWay(c, DeckMsg(deck))'
  <2>1. CASE locked /\ endReason = "none"
    BY <1>1, <1>2, <1>3, <1>6, <2>1 DEF HubInv, HubReach, DeckMsg, Onward
  <2>2. ASSUME NEW d, d = deck', Broadcast(DeckMsg(d)) \in Range(todo'[a])
        PROVE  OnTheWay(c, DeckMsg(deck))'
    <3>1. OnTheWay(c, DeckMsg(d))'
      BY <1>4, <2>2 DEF DeckMsg
    <3>2. QED
      BY <2>2, <3>1 DEF DeckMsg
  <2>3. QED
    BY <1>6, <2>1, <2>2
<1>7. HubReach'
  BY <1>5, <1>6 DEF HubReach
<1>8. QED
  BY <1>1, <1>7 DEF HubInv

LEMMA LobbyKeeps ==
  ASSUME IInv, HubInv, Onward, NEW c \in Conns,
         (\E wait \in BOOLEAN : HubHostOptions(c, wait))
           \/ (\E isReady \in BOOLEAN : HubReady(c, isReady))
  PROVE  HubInv'
<1>1. Answers(c)
  BY RosterReply DEF HubHostOptions, HubReady, Idle, Leaves, Answers
<1>2. /\ UNCHANGED <<status, winner, locked, deck, endReason, ident, clients, phase>>
      /\ phase[c] = "reading"
  BY DEF HubHostOptions, HubReady, HostOptions, Ready, roomVars, peopleVars, connVars
<1>3. \A d \in Conns :
        /\ phase'[d] = "closed" => d # c /\ phase[d] = "closed"
        /\ phase'[d] = "fetching" => d # c /\ phase[d] = "fetching"
  BY <1>2
<1>4. c \in Actors
  BY DEF Actors
<1>5. QED
  BY <1>1, <1>2, <1>3, <1>4, HandlerKeeps

\* The handlers that send nothing: host:start before and without its commit,
\* and undo.
LEMMA SilentKeeps ==
  ASSUME IInv, HubInv, Onward, NEW c \in Conns,
         HubHostStartBegin(c) \/ HubHostStartFail(c) \/ HubUndo(c)
  PROVE  HubInv'
<1>1. UNCHANGED hubVars /\ todo[c] = <<>>
  BY DEF HubHostStartBegin, HubHostStartFail, HostStartFail, HubUndo, Idle,
         HubInv, HubSends
<1>2. c \in Actors /\ todo' = [todo EXCEPT ![c] = <<>>]
  BY <1>1 DEF Actors, hubVars, HubInv, HubShape
<1>3. Answers(c)
  BY <1>1, <1>2, NoReply DEF Answers, hubVars
<1>4. /\ UNCHANGED <<status, winner, locked, deck, endReason, ident, clients>>
      /\ phase' \in {phase, [phase EXCEPT ![c] = "fetching"], [phase EXCEPT ![c] = "reading"]}
      /\ phase[c] # "closed"
  BY DEF HubHostStartBegin, HubHostStartFail, HubUndo, HostStartBegin,
         HostStartFail, Undo, roomVars, peopleVars, connVars
<1>5. \A d \in Conns :
        /\ phase'[d] = "closed" => d # c /\ phase[d] = "closed"
        /\ phase'[d] = "fetching" =>
             (d # c /\ phase[d] = "fetching") \/ todo'[d] = <<>>
  BY <1>1, <1>4 DEF hubVars, IInv, TypeOK
<1>6. QED
  BY <1>2, <1>3, <1>4, <1>5, HandlerKeeps

LEMMA CommitKeeps ==
  ASSUME IInv, HubInv, Onward, NEW c \in Conns, NEW d \in SUBSET Movies,
         NEW n \in RequestedCounts, HubHostStartCommit(c, d, n)
  PROVE  HubInv'
<1>1. /\ phase[c] = "fetching" /\ phase' = [phase EXCEPT ![c] = "reading"]
      /\ status' = "active" /\ locked' /\ deck' = d
      /\ UNCHANGED <<winner, endReason, ident, clients>>
      /\ Leaves(c, <<Broadcast(DeckMsg(d))>> \o BroadcastSessionState)
  BY DEF HubHostStartCommit, HostStartCommit, peopleVars
<1>2. todo[c] = <<>> /\ c \in Actors
  BY <1>1 DEF HubInv, HubSends, Actors
<1>3. PICK msg \in Messages : msg = DeckMsg(d)
  BY MessagesTyped DEF IInv
<1>4. Honest(msg)'
  BY <1>1, <1>3 DEF Honest, DeckMsg
<1>5. PICK s : s = <<Broadcast(msg)>> \o BroadcastSessionState
  OBVIOUS
<1>6. GoodReply(c, s) /\ Broadcast(msg) \in Range(s)
  <2>1. /\ GoodReply(c, <<Broadcast(msg)>>)
        /\ Broadcast(msg) \in Range(<<Broadcast(msg)>>)
    BY <1>4, BroadcastReply
  <2>2. GoodReply(c, BroadcastSessionState)
    BY StatusReply
  <2>3. QED
    BY <1>5, <2>1, <2>2, BothReplies
<1>7. todo' = [todo EXCEPT ![c] = s] /\ UNCHANGED <<outbox, view, dropped>>
  BY <1>1, <1>3, <1>5 DEF Leaves
<1>8. Answers(c)
  BY <1>2, <1>6, <1>7 DEF Answers
<1>9. Broadcast(DeckMsg(d)) \in Range(todo'[c])
  BY <1>2, <1>3, <1>6, <1>7 DEF HubInv, HubShape
<1>10. \A e \in Conns :
         /\ phase'[e] = "closed" => e # c /\ phase[e] = "closed"
         /\ phase'[e] = "fetching" => e # c /\ phase[e] = "fetching"
  BY <1>1 DEF IInv, TypeOK
<1>11. QED
  BY <1>1, <1>2, <1>8, <1>9, <1>10, HandlerKeeps

\* A swipe that wins, a pick of the host: the winner is broadcast.
LEMMA MatchKeeps ==
  ASSUME IInv, HubInv, Onward, NEW c \in Conns, NEW m \in Movies, Idle(c),
         Leaves(c, <<Broadcast(MatchMsg(m))>>),
         status' = "matched", winner' = m, phase[c] = "reading",
         UNCHANGED <<locked, deck, endReason, ident, clients, phase>>
  PROVE  HubInv'
<1>1. todo[c] = <<>> /\ c \in Actors
  BY DEF Idle, Actors
<1>2. PICK msg \in Messages : msg = MatchMsg(m)
  BY MessagesTyped DEF IInv
<1>3. Honest(msg)'
  BY <1>2 DEF Honest, MatchMsg
<1>4. /\ GoodReply(c, <<Broadcast(msg)>>)
      /\ Broadcast(msg) \in Range(<<Broadcast(msg)>>)
  BY <1>3, BroadcastReply
<1>5. todo' = [todo EXCEPT ![c] = <<Broadcast(msg)>>] /\ UNCHANGED <<outbox, view, dropped>>
  BY <1>2 DEF Leaves
<1>6. Answers(c)
  BY <1>1, <1>4, <1>5 DEF Answers
<1>7. Broadcast(MatchMsg(m)) \in Range(todo'[c])
  BY <1>1, <1>2, <1>4, <1>5 DEF HubInv, HubShape
<1>8. \A d \in Conns :
        /\ phase'[d] = "closed" => d # c /\ phase[d] = "closed"
        /\ phase'[d] = "fetching" => d # c /\ phase[d] = "fetching"
  OBVIOUS
<1>9. QED
  BY <1>1, <1>6, <1>7, <1>8, HandlerKeeps

\* A session that ends without a winner: the leaderboard is broadcast.
LEMMA EndKeeps ==
  ASSUME IInv, HubInv, Onward, NEW a \in Actors, Idle(a), Leaves(a, BroadcastEnded),
         status' = "ended", endReason' # "none", a \in Conns => phase[a] = "reading",
         UNCHANGED <<ident, clients, phase>>
  PROVE  HubInv'
<1>1. Answers(a)
  BY EndedReply DEF IInv, Idle, Leaves, Answers
<1>2. \A d \in Conns :
        /\ phase'[d] = "closed" => d # a /\ phase[d] = "closed"
        /\ phase'[d] = "fetching" => d # a /\ phase[d] = "fetching"
  OBVIOUS
<1>3. QED
  BY <1>1, <1>2, HandlerKeeps

LEMMA SwipeKeeps ==
  ASSUME IInv, HubInv, Onward, NEW c \in Conns, NEW m \in Movies,
         NEW dir \in {"yes", "no"}, HubSwipe(c, m, dir)
  PROVE  HubInv'
<1>1. /\ UNCHANGED <<locked, deck, ident, clients, phase>>
      /\ phase[c] = "reading" /\ status = "active" /\ Idle(c) /\ c \in Actors
  BY DEF HubSwipe, Swipe, peopleVars, connVars, Actors
<1>2. CASE status' = "matched" /\ winner' = m /\ endReason' = endReason
  <2>1. Leaves(c, <<Broadcast(MatchMsg(m))>>)
    BY <1>2 DEF HubSwipe
  <2>2. QED
    BY <1>1, <1>2, <2>1, MatchKeeps
<1>3. CASE status' = "ended" /\ endReason' = "deck_exhausted"
  <2>1. Leaves(c, BroadcastEnded)
    BY <1>3 DEF HubSwipe
  <2>2. QED
    BY <1>1, <1>3, <2>1, EndKeeps
<1>4. CASE UNCHANGED <<status, winner, endReason>>
  <2>1. Leaves(c, <<>>)
    BY <1>1, <1>4 DEF HubSwipe
  <2>2. Answers(c)
    BY <1>1, <2>1, NoReply DEF Idle, Leaves, Answers
  <2>3. \A d \in Conns :
          /\ phase'[d] = "closed" => d # c /\ phase[d] = "closed"
          /\ phase'[d] = "fetching" => d # c /\ phase[d] = "fetching"
    BY <1>1
  <2>4. QED
    BY <1>1, <1>4, <2>2, <2>3, HandlerKeeps
<1>5. QED
  BY <1>2, <1>3, <1>4 DEF HubSwipe, Swipe

\* A join replies to its own connection with the deck, once there is one, and
\* with the winner, once there is one.
LEMMA JoinKeeps ==
  ASSUME IInv, IInv', HubInv, Onward, NEW c \in Conns, NEW p \in People, HubJoin(c, p)
  PROVE  HubInv'
<1>1. /\ phase[c] = "reading" /\ phase' = phase
      /\ UNCHANGED <<status, locked, deck, winner, endReason>>
      /\ clients' = [clients EXCEPT ![p] = c]
      /\ ident' = [ident EXCEPT ![c] = p]
      /\ todo[c] = <<>> /\ c \in Actors
  BY DEF HubJoin, Join, Idle, roomVars, Actors
<1>2. PICK s1, s2, s3, s :
        /\ s1 = StateReply(c) /\ s2 = DeckReply(c) /\ s3 = OutcomeReply(c, connected')
        /\ s = ((s1 \o s2) \o s3) \o BroadcastParticipants
        /\ todo' = [todo EXCEPT ![c] = s]
        /\ UNCHANGED <<outbox, view, dropped>>
  BY DEF HubJoin, Leaves
<1>3. GoodReply(c, s1)
  <2>1. PICK msg \in Messages : msg = StateMsg'
    <3>1. Roster' \in Rosters /\ Part("status", status') \in PageStatuses
      BY DEF IInv, TypeOK, Roster, Part, Rosters, PageStatuses
    <3>2. QED
      BY <3>1 DEF StateMsg, Messages, Part
  <2>2. Honest(msg)'
    BY <1>1, <2>1 DEF Honest, Happened, StateMsg, Part, IInv, DealInv, HubInv, HubTruth
  <2>3. GoodReply(c, <<Send(msg, {c})>>)
    BY <2>2, OwnReply
  <2>4. QED
    BY <1>2, <2>1, <2>3, NoReply DEF StateReply, Tells
<1>4. /\ GoodReply(c, s2)
      /\ locked => \E x \in Range(s2) : Reaches(x, c, DeckMsg(deck))
  <2>1. locked => status # "lobby"
    BY DEF IInv, DealInv
  <2>2. CASE status = "lobby"
    BY <1>2, <2>1, <2>2, NoReply DEF DeckReply
  <2>3. CASE status # "lobby"
    <3>1. DeckMsg(deck) \in Messages
      BY MessagesTyped DEF IInv, TypeOK
    <3>2. \A msg : msg = DeckMsg(deck) => Honest(msg)'
      BY <1>1, <2>3 DEF Honest, DeckMsg, IInv, TypeOK, Statuses, DealInv, HubInv, HubTruth
    <3>3. s2 = <<Send(DeckMsg(deck), {c})>>
      BY <1>2, <2>3 DEF DeckReply
    <3>4. PICK msg \in Messages : msg = DeckMsg(deck)
      BY <3>1
    <3>5. /\ GoodReply(c, <<Send(msg, {c})>>)
          /\ Send(msg, {c}) \in Range(<<Send(msg, {c})>>)
          /\ Reaches(Send(msg, {c}), c, msg)
      BY <3>2, <3>4, OwnReply
    <3>6. QED
      BY <3>3, <3>4, <3>5
  <2>4. QED
    BY <2>2, <2>3
<1>5. /\ GoodReply(c, s3)
      /\ status = "matched" => \E x \in Range(s3) : Reaches(x, c, MatchMsg(winner))
  <2>1. CASE status = "matched"
    <3>1. PICK msg \in Messages : msg = MatchMsg(winner)
      BY <2>1, MessagesTyped DEF IInv, TypeOK, DealInv, WinnerOfDeck
    <3>2. Honest(msg)'
      BY <1>1, <2>1, <3>1 DEF Honest, MatchMsg
    <3>3. s3 = <<Send(msg, {c})>>
      BY <1>2, <2>1, <3>1 DEF OutcomeReply
    <3>4. QED
      BY <3>1, <3>2, <3>3, OwnReply
  <2>2. CASE status = "ended"
    <3>1. PICK msg \in Messages : msg = EndedMsg
      BY MessagesTyped DEF IInv
    <3>2. Honest(msg)'
      BY <1>1, <2>2, <3>1 DEF Honest, EndedMsg, HubInv, HubTruth
    <3>3. s3 \in {<<>>, <<Send(msg, {c})>>}
      BY <1>2, <2>2, <3>1 DEF OutcomeReply, Tells
    <3>4. QED
      BY <2>2, <3>2, <3>3, OwnReply, NoReply
  <2>3. CASE status \notin {"matched", "ended"}
    BY <1>2, <2>3, NoReply DEF OutcomeReply
  <2>4. QED
    BY <2>1, <2>2, <2>3
<1>6. GoodReply(c, s) /\ Range(s2) \subseteq Range(s) /\ Range(s3) \subseteq Range(s)
  <2>1. GoodReply(c, s1 \o s2) /\ Range(s1 \o s2) = Range(s1) \cup Range(s2)
    BY <1>3, <1>4, BothReplies
  <2>2. /\ GoodReply(c, (s1 \o s2) \o s3)
        /\ Range((s1 \o s2) \o s3) = Range(s1 \o s2) \cup Range(s3)
    BY <1>5, <2>1, BothReplies
  <2>3. GoodReply(c, BroadcastParticipants)
    BY RosterReply
  <2>4. PICK s4 : s4 = BroadcastParticipants
    OBVIOUS
  <2>5. /\ GoodReply(c, ((s1 \o s2) \o s3) \o s4)
        /\ Range(((s1 \o s2) \o s3) \o s4) = Range((s1 \o s2) \o s3) \cup Range(s4)
    BY <2>2, <2>3, <2>4, BothReplies
  <2>6. QED
    BY <1>2, <2>1, <2>2, <2>4, <2>5
<1>7. Answers(c) /\ todo'[c] = s
  BY <1>1, <1>2, <1>6 DEF Answers, HubInv, HubShape
<1>8. /\ HubShape' /\ HubSends' /\ HubTruth'
      /\ \A d, msg : OnTheWay(d, msg) => OnTheWay(d, msg)'
  <2>1. \A d \in Conns :
          /\ phase'[d] = "closed" => d # c /\ phase[d] = "closed"
          /\ phase'[d] = "fetching" => d # c /\ phase[d] = "fetching"
    BY <1>1
  <2>2. QED
    BY <1>1, <1>7, <2>1, AnswersKeep
<1>9. ASSUME NEW x \in Range(s), NEW msg, Reaches(x, c, msg)
      PROVE  OnTheWay(c, msg)'
  BY <1>1, <1>7, <1>9 DEF OnTheWay, Reaches
<1>10. HubReach'
  <2>1. ASSUME NEW d \in Conns, d # c, Follows(d)'
        PROVE  Follows(d)
    BY <1>1, <1>2, <2>1 DEF Follows, Attached, IInv, TypeOK
  <2>2. ASSUME NEW d \in Conns, Follows(d)', status' = "matched"
        PROVE  view'[d].winner = winner' \/ OnTheWay(d, MatchMsg(winner))'
    <3>1. CASE d # c
      BY <1>1, <1>2, <1>8, <2>1, <2>2, <3>1 DEF HubInv, HubReach, MatchMsg
    <3>2. CASE d = c
      BY <1>1, <1>5, <1>6, <1>9, <2>2, <3>2 DEF MatchMsg
    <3>3. QED
      BY <3>1, <3>2
  <2>3. ASSUME NEW d \in Conns, Follows(d)', locked', endReason' = "none"
        PROVE  view'[d].deck = deck' \/ OnTheWay(d, DeckMsg(deck))'
    <3>1. CASE d # c
      BY <1>1, <1>2, <1>8, <2>1, <2>3, <3>1 DEF HubInv, HubReach, DeckMsg
    <3>2. CASE d = c
      BY <1>1, <1>4, <1>6, <1>9, <2>3, <3>2 DEF DeckMsg
    <3>3. QED
      BY <3>1, <3>2
  <2>4. QED
    BY <2>2, <2>3 DEF HubReach
<1>11. QED
  BY <1>8, <1>10 DEF HubInv

\* A connection that has just opened is attached to no one.
LEMMA ConnectKeeps ==
  ASSUME IInv, HubInv, NEW c \in Conns, NEW t \in roster \cup {NoOne}, HubConnect(c, t)
  PROVE  HubInv'
<1>1. /\ phase[c] = "closed" /\ phase' = [phase EXCEPT ![c] = "reading"]
      /\ ident' = [ident EXCEPT ![c] = NoOne]
      /\ dropped' = dropped \ {c}
      /\ UNCHANGED <<todo, outbox, view, clients, status, locked, deck, winner, endReason>>
  BY DEF HubConnect, Connect, roomVars, peopleVars
<1>2. /\ \A msg : Honest(msg)' <=> Honest(msg)
      /\ \A s : Happened(s)' <=> Happened(s)
  BY <1>1 DEF Honest, Happened
<1>3. HubShape'
  BY <1>1 DEF HubInv, HubShape
<1>4. HubSends'
  BY <1>1 DEF HubInv, HubSends, IInv, TypeOK
<1>5. HubTruth'
  BY <1>1, <1>2 DEF HubInv, HubTruth
<1>6. \A d \in Conns : Follows(d)' => Follows(d)
  BY <1>1, NoneAssumption DEF Follows, Attached, IInv, TypeOK
<1>7. \A d, msg : OnTheWay(d, msg)' <=> OnTheWay(d, msg)
  BY <1>1 DEF OnTheWay, Reaches
<1>8. HubReach'
  BY <1>1, <1>6, <1>7 DEF HubInv, HubReach, MatchMsg, DeckMsg
<1>9. QED
  BY <1>3, <1>4, <1>5, <1>8 DEF HubInv

\* What is left of a list when the connection c no longer takes messages.
LEMMA WithoutTargetProperties ==
  ASSUME NEW s \in Seq(Ops), NEW c \in Conns
  PROVE  /\ WithoutTarget(s, c) \in Seq(Ops)
         /\ \A y \in Range(WithoutTarget(s, c)) :
              \/ y \in Range(s) /\ (y.op = "send" => s # <<>> /\ y \in Range(Tail(s)))
              \/ /\ y.op = "send" /\ c \notin y.to
                 /\ \E x \in Range(s) : x.op = "send" /\ x.msg = y.msg /\ y.to \subseteq x.to
         /\ WithoutTarget(s, c) # <<>> =>
              \A y \in Range(Tail(WithoutTarget(s, c))) :
                s # <<>> /\ y \in Range(Tail(s))
         /\ \A x \in Range(s), d \in Conns \ {c} : \A msg :
              Reaches(x, d, msg) => \E y \in Range(WithoutTarget(s, c)) : Reaches(y, d, msg)
<1> DEFINE x == Head(s)
           left == x.to \ {c}
<1>1. CASE s # <<>> /\ x.op = "send"
  <2>1. /\ x \in Ops /\ Tail(s) \in Seq(Ops)
        /\ Range(s) = {x} \cup Range(Tail(s))
    BY <1>1, HeadAndTail
  <2>2. x.msg \in Messages /\ left \in SUBSET Conns
    BY <1>1, <2>1, OpsRead
  <2>3. PICK w : w = Then(x.msg, left, Tail(s)) /\ w = WithoutTarget(s, c)
    BY <1>1 DEF WithoutTarget
  <2>4. PICK y : y = Send(x.msg, left) /\ y.op = "send" /\ y.msg = x.msg /\ y.to = left
    BY <2>2, OpsTyped
  <2>5. /\ w \in Seq(Ops)
        /\ Range(w) = Range(Tail(s)) \cup (IF left = {} THEN {} ELSE {y})
        /\ w # <<>> => Range(Tail(w)) \subseteq Range(Tail(s))
    <3>1. /\ Then(x.msg, left, Tail(s)) \in Seq(Ops)
          /\ Range(Then(x.msg, left, Tail(s))) =
               Range(Tail(s)) \cup (IF left = {} THEN {} ELSE {Send(x.msg, left)})
          /\ Then(x.msg, left, Tail(s)) # <<>> =>
               Range(Tail(Then(x.msg, left, Tail(s)))) \subseteq Range(Tail(s))
      BY <2>1, <2>2, ThenProperties
    <3>2. QED
      BY <2>3, <2>4, <3>1
  <2>6. ASSUME NEW z \in Range(s), NEW d \in Conns \ {c}, NEW msg, Reaches(z, d, msg)
        PROVE  \E u \in Range(w) : Reaches(u, d, msg)
    <3>1. CASE z \in Range(Tail(s))
      BY <2>5, <2>6, <3>1
    <3>2. CASE z = x
      <4>1. d \in left /\ msg = x.msg
        BY <1>1, <2>6, <3>2 DEF Reaches
      <4>2. y \in Range(w) /\ Reaches(y, d, msg)
        BY <2>4, <2>5, <4>1 DEF Reaches
      <4>3. QED
        BY <4>2
    <3>3. QED
      BY <2>1, <2>6, <3>1, <3>2
  <2>7. QED
    BY <1>1, <2>1, <2>3, <2>4, <2>5, <2>6
<1>2. CASE s = <<>>
  BY <1>2, EmptyRange DEF WithoutTarget
<1>3. CASE s # <<>> /\ x.op # "send"
  <2>1. WithoutTarget(s, c) = s
    BY <1>3 DEF WithoutTarget
  <2>2. Range(s) = {x} \cup Range(Tail(s))
    BY <1>3, HeadAndTail
  <2>3. QED
    BY <1>3, <2>1, <2>2
<1>4. QED
  BY <1>1, <1>2, <1>3

\* A connection that closes has nothing left to send, and is sent no more.
LEMMA DisconnectKeeps ==
  ASSUME IInv, HubInv, Onward, NEW c \in Conns, HubDisconnect(c)
  PROVE  HubInv'
<1>1. /\ phase[c] = "reading" /\ phase' = [phase EXCEPT ![c] = "closed"]
      /\ UNCHANGED <<status, locked, deck, winner, endReason, view, dropped>>
      /\ outbox' = [outbox EXCEPT ![c] = <<>>]
      /\ todo[c] = <<>> /\ c \in Actors
  BY DEF HubDisconnect, Disconnect, Idle, roomVars, Actors
<1>2. /\ \A msg : Honest(msg)' <=> Honest(msg)
      /\ \A s : Happened(s)' <=> Happened(s)
  BY <1>1 DEF Honest, Happened
<1>3. \A d \in Conns : Attached(d)' => d # c /\ Attached(d)
  BY NoneAssumption DEF HubDisconnect, Disconnect, Attached, IInv, TypeOK, Voters
<1>4. /\ outbox' \in [Conns -> Seq(Messages)] /\ outbox'[c] = <<>>
      /\ \A d \in Conns \ {c} : outbox'[d] = outbox[d]
      /\ Len(outbox'[c]) <= SendBuffer
  BY <1>1, EmptySeq, BufferAssumption DEF HubInv, HubShape
\* what the lists become
<1>5. PICK own : /\ own = (IF Attached(c) THEN BroadcastParticipants ELSE <<>>)
                 /\ own \in Seq(Ops)
                 /\ \A x \in Range(own) : x.op = "participants"
  <2>1. <<[op |-> "participants"]>> \in Seq(Ops)
        /\ Range(<<[op |-> "participants"]>>) = {[op |-> "participants"]}
    BY OpsTyped, RangeOfOne
  <2>2. <<>> \in Seq(Ops) /\ Range(<<>>) = {}
    BY EmptySeq, EmptyRange
  <2>3. /\ BroadcastParticipants \in Seq(Ops)
        /\ \A x \in Range(BroadcastParticipants) : x.op = "participants"
    BY <2>1, <2>2 DEF BroadcastParticipants, Tells
  <2>4. QED
    BY <2>2, <2>3
<1>6. todo'[c] = own /\ \A a \in Actors \ {c} : todo'[a] = WithoutTarget(todo[a], c)
  BY <1>1, <1>5 DEF HubDisconnect
<1>7. todo' \in [Actors -> Seq(Ops)]
  <2>1. \A a \in Actors : WithoutTarget(todo[a], c) \in Seq(Ops)
    BY WithoutTargetProperties DEF HubInv, HubShape
  <2>2. QED
    BY <1>5, <2>1 DEF HubDisconnect
<1>8. ASSUME NEW a \in Actors \ {c}, NEW y \in Range(todo'[a])
      PROVE  \/ /\ y \in Range(todo[a])
                /\ y.op = "send" => todo[a] # <<>> /\ y \in Range(Tail(todo[a]))
             \/ /\ y.op = "send" /\ c \notin y.to
                /\ \E x \in Range(todo[a]) :
                     x.op = "send" /\ x.msg = y.msg /\ y.to \subseteq x.to
  BY <1>6, <1>8, WithoutTargetProperties DEF HubInv, HubShape
<1>9. HubShape'
  BY <1>1, <1>4, <1>7 DEF HubInv, HubShape
<1>10. HubSends'
  <2>1. ASSUME NEW d \in Conns
        PROVE  /\ phase'[d] = "closed" => outbox'[d] = <<>>
               /\ phase'[d] = "fetching" => todo'[d] = <<>>
    <3>1. CASE d = c
      BY <1>1, <1>4, <3>1 DEF IInv, TypeOK
    <3>2. CASE d # c
      <4>1. phase'[d] = phase[d] /\ outbox'[d] = outbox[d]
        BY <1>1, <1>4, <3>2
      <4>2. phase[d] = "fetching" => todo'[d] = <<>>
        BY <1>6, <3>2 DEF HubInv, HubSends, Actors, WithoutTarget
      <4>3. QED
        BY <4>1, <4>2 DEF HubInv, HubSends
    <3>3. QED
      BY <3>1, <3>2
  <2>2. ASSUME NEW a \in Actors, NEW y \in Range(todo'[a]), y.op = "send", NEW d \in y.to
        PROVE  phase'[d] # "closed"
    <3>1. a # c
      BY <1>5, <1>6, <2>2
    <3>2. d # c /\ \E x \in Range(todo[a]) : x.op = "send" /\ d \in x.to
      <4>1. CASE /\ y \in Range(todo[a])
                 /\ todo[a] # <<>> /\ y \in Range(Tail(todo[a]))
        BY <2>2, <3>1, <4>1 DEF HubInv, HubSends
      <4>2. QED
        BY <1>8, <2>2, <3>1, <4>1
    <3>3. PICK x \in Range(todo[a]) : x.op = "send" /\ d \in x.to
      BY <3>2
    <3>4. x \in Ops
      BY RangeOfSequence DEF HubInv, HubShape
    <3>5. d \in Conns /\ phase[d] # "closed"
      BY <3>3, <3>4, OpsRead DEF HubInv, HubSends
    <3>6. QED
      BY <1>1, <3>2, <3>5
  <2>3. ASSUME NEW a \in Actors, todo'[a] # <<>>, NEW y \in Range(Tail(todo'[a])),
               y.op = "send"
        PROVE  y.to = {a}
    <3>1. CASE a = c
      <4>1. y \in Range(own)
        BY <1>5, <1>6, <2>3, <3>1, HeadAndTail
      <4>2. QED
        BY <1>5, <2>3, <4>1
    <3>2. CASE a # c
      <4>1. todo[a] # <<>> /\ y \in Range(Tail(todo[a]))
        BY <1>6, <2>3, <3>2, WithoutTargetProperties DEF HubInv, HubShape
      <4>2. QED
        BY <2>3, <4>1 DEF HubInv, HubSends
    <3>3. QED
      BY <3>1, <3>2
  <2>4. QED
    BY <2>1, <2>2, <2>3 DEF HubSends
<1>11. HubTruth'
  <2>1. ASSUME NEW a \in Actors, NEW y \in Range(todo'[a]), y.op \in {"send", "broadcast"}
        PROVE  Honest(y.msg)
    <3>1. a # c
      BY <1>5, <1>6, <2>1
    <3>2. QED
      BY <1>8, <2>1, <3>1 DEF HubInv, HubTruth
  <2>2. \A d \in Conns : \A msg \in Range(outbox'[d]) : Honest(msg)
    BY <1>4, EmptyRange DEF HubInv, HubTruth
  <2>3. QED
    BY <1>1, <1>2, <2>1, <2>2 DEF HubInv, HubTruth
<1>12. ASSUME NEW d \in Conns \ {c}, NEW msg, OnTheWay(d, msg)
       PROVE  OnTheWay(d, msg)'
  <2>1. CASE msg \in Range(outbox[d])
    BY <1>4, <2>1 DEF OnTheWay
  <2>2. ASSUME NEW a \in Actors, NEW x \in Range(todo[a]), Reaches(x, d, msg)
        PROVE  OnTheWay(d, msg)'
    <3>1. a # c
      BY <1>1, <2>2, EmptyRange
    <3>2. PICK y \in Range(todo'[a]) : Reaches(y, d, msg)
      <4>1. todo[a] \in Seq(Ops)
        BY DEF HubInv, HubShape
      <4>2. \E y \in Range(WithoutTarget(todo[a], c)) : Reaches(y, d, msg)
        BY <2>2, <4>1, WithoutTargetProperties
      <4>3. QED
        BY <1>6, <3>1, <4>2
    <3>3. QED
      BY <3>2 DEF OnTheWay, Reaches
  <2>3. QED
    BY <1>12, <2>1, <2>2 DEF OnTheWay
<1>13. HubReach'
  <2>1. \A d \in Conns : Follows(d)' => d # c /\ Follows(d)
    BY <1>1, <1>3 DEF Follows
  <2>2. ASSUME NEW d \in Conns, Follows(d)', status' = "matched"
        PROVE  view'[d].winner = winner' \/ OnTheWay(d, MatchMsg(winner))'
    BY <1>1, <1>12, <2>1, <2>2 DEF HubInv, HubReach, MatchMsg
  <2>3. ASSUME NEW d \in Conns, Follows(d)', locked', endReason' = "none"
        PROVE  view'[d].deck = deck' \/ OnTheWay(d, DeckMsg(deck))'
    BY <1>1, <1>12, <2>1, <2>3 DEF HubInv, HubReach, DeckMsg
  <2>4. QED
    BY <2>2, <2>3 DEF HubReach
<1>14. QED
  BY <1>9, <1>10, <1>11, <1>13 DEF HubInv

----------------------------------------------------------------------------
(***************************************************************************)
(* The theorems.                                                           *)
(***************************************************************************)

LEMMA HubInvInit == HubInit => HubInv
<1> SUFFICES ASSUME HubInit
             PROVE  HubInv
  OBVIOUS
<1> USE DEF HubInit
<1>1. BlankView \in Pages /\ BlankView.winner = NoMovie /\ Happened(BlankView.status)
  BY DEF BlankView, Pages, NoRoster, Rosters, Part, PageStatuses, Statuses, Happened
<1>2. HubShape
  <2>1. <<>> \in Seq(Ops) /\ <<>> \in Seq(Messages) /\ Len(<<>>) = 0
    BY EmptySeq
  <2>2. QED
    BY <1>1, <2>1, BufferAssumption DEF HubShape
<1>3. HubSends
  BY EmptyRange DEF HubSends, Init, Actors
<1>4. HubTruth
  BY <1>1, EmptyRange DEF HubTruth, Init
<1>5. HubReach
  BY DEF HubReach, Init
<1>6. QED
  BY <1>2, <1>3, <1>4, <1>5 DEF HubInv

LEMMA HubInvNext ==
  ASSUME IInv, IInv', HubInv, [HubNext]_allVars
  PROVE  HubInv'
<1>1. [Next]_vars
  BY HubStepIsStep DEF allVars
<1>2. Onward
  BY <1>1, SessionsGoOnward
<1>3. ASSUME NEW c \in Conns, HubHandler(c)
      PROVE  HubInv'
  <2>1. ASSUME NEW t \in roster \cup {NoOne}, HubConnect(c, t)
        PROVE  HubInv'
    BY <2>1, ConnectKeeps
  <2>2. ASSUME NEW p \in People, HubJoin(c, p)
        PROVE  HubInv'
    BY <1>2, <2>2, JoinKeeps
  <2>3. CASE HubDisconnect(c)
    BY <1>2, <2>3, DisconnectKeeps
  <2>4. ASSUME NEW wait \in BOOLEAN, HubHostOptions(c, wait)
        PROVE  HubInv'
    BY <1>2, <2>4, LobbyKeeps
  <2>5. ASSUME NEW isReady \in BOOLEAN, HubReady(c, isReady)
        PROVE  HubInv'
    BY <1>2, <2>5, LobbyKeeps
  <2>6. CASE HubHostStartBegin(c) \/ HubHostStartFail(c) \/ HubUndo(c)
    BY <1>2, <2>6, SilentKeeps
  <2>7. ASSUME NEW d \in SUBSET Movies, NEW n \in RequestedCounts,
               HubHostStartCommit(c, d, n)
        PROVE  HubInv'
    BY <1>2, <2>7, CommitKeeps
  <2>8. ASSUME NEW m \in Movies, NEW dir \in {"yes", "no"}, HubSwipe(c, m, dir)
        PROVE  HubInv'
    BY <1>2, <2>8, SwipeKeeps
  <2>9. ASSUME NEW m \in Movies, HubHostPick(c, m)
        PROVE  HubInv'
    <3>1. /\ Idle(c) /\ Leaves(c, <<Broadcast(MatchMsg(m))>>)
          /\ status' = "matched" /\ winner' = m /\ phase[c] = "reading"
          /\ UNCHANGED <<locked, deck, endReason, ident, clients, phase>>
      BY <2>9 DEF HubHostPick, HostPick, peopleVars, connVars
    <3>2. QED
      BY <1>2, <3>1, MatchKeeps
  <2>10. CASE HubHostEnd(c)
    <3>1. /\ Idle(c) /\ Leaves(c, BroadcastEnded) /\ c \in Actors
          /\ status' = "ended" /\ endReason' # "none" /\ phase[c] = "reading"
          /\ UNCHANGED <<ident, clients, phase>>
      BY <2>10 DEF HubHostEnd, HostEnd, peopleVars, connVars, Actors
    <3>2. QED
      BY <1>2, <3>1, EndKeeps
  <2>11. QED
    BY <1>3, <2>1, <2>2, <2>3, <2>4, <2>5, <2>6, <2>7, <2>8, <2>9, <2>10 DEF HubHandler
<1>4. ASSUME HubEndAll
      PROVE  HubInv'
  <2>1. /\ Idle(Server) /\ Leaves(Server, BroadcastEnded) /\ Server \in Actors
        /\ status' = "ended" /\ endReason' # "none"
        /\ UNCHANGED <<ident, clients, phase>>
    BY <1>4 DEF HubEndAll, EndAll, peopleVars, connVars, Actors
  <2>2. QED
    BY <1>2, <2>1, EndKeeps, ServerAssumption
<1>5. ASSUME UNCHANGED allVars
      PROVE  HubInv'
  <2>1. UNCHANGED <<vars, todo, outbox, view, dropped>>
    BY <1>5 DEF allVars, hubVars
  <2>2. /\ HubShape' /\ HubSends' /\ HubTruth'
    BY <2>1, SessionAsItWas DEF HubInv, HubShape, HubSends, HubTruth
  <2>3. \A c, msg : OnTheWay(c, msg)' <=> OnTheWay(c, msg)
    BY <2>1 DEF OnTheWay, Reaches
  <2>4. HubReach'
    BY <2>1, <2>3, SessionAsItWas DEF HubInv, HubReach, Follows, MatchMsg, DeckMsg
  <2>5. QED
    BY <2>2, <2>4 DEF HubInv
<1>6. QED
  BY <1>3, <1>4, <1>5, SnapshotKeeps, TrySendKeeps, DeliverKeeps, ReloadKeeps DEF HubNext

\* The session inside the hub is a session: sending changes nothing of it, so
\* all that is proved of Session holds of it.
THEOREM HubRunsASession == HubSpec => Spec
<1>1. HubInit => Init
  BY DEF HubInit
<1>2. [HubNext]_allVars => [Next]_vars
  BY HubStepIsStep DEF allVars
<1>3. QED
  BY <1>1, <1>2, PTL DEF HubSpec, Spec

\* The inductive invariant holds in every reachable state.
THEOREM HubInvariant == HubSpec => [](IInv /\ HubInv)
<1>1. HubSpec => []IInv
  BY HubRunsASession, SessionInvariant, PTL
<1>2. HubInit => HubInv
  BY HubInvInit
<1>3. IInv /\ IInv' /\ HubInv /\ [HubNext]_allVars => HubInv'
  BY HubInvNext
<1>4. QED
  BY <1>1, <1>2, <1>3, PTL DEF HubSpec

\* No buffer overflows and a closed socket's is empty, for any capacity.
THEOREM HubTypeCorrect == HubSpec => []HubTypeOK
<1>1. IInv /\ HubInv => HubTypeOK
  BY DEF IInv, HubInv, HubShape, HubSends, HubTypeOK, Pages, PageStatuses
<1>2. QED
  BY <1>1, HubInvariant, PTL

\* Whatever was overtaken on the way, a winner a page shows is the winner.
THEOREM WinnersShownAreTrue == HubSpec => []NoFalseWinner
<1>1. IInv /\ HubInv => NoFalseWinner
  BY DEF HubInv, HubTruth, NoFalseWinner
<1>2. QED
  BY <1>1, HubInvariant, PTL

\* What a page says of the session has happened.
THEOREM PagesLagAtMost == HubSpec => []PagesNeverLead
<1>1. IInv /\ HubInv => PagesNeverLead
  BY DEF HubInv, HubTruth, Happened, PagesNeverLead
<1>2. QED
  BY <1>1, HubInvariant, PTL

\* When nothing is on its way any more nothing can be missing: the winner is
\* shown by, or on its way to, everyone who follows.
THEOREM WinnerIsHeard == HubSpec => []WinnerHeard
<1>1. IInv /\ HubInv => WinnerHeard
  <2> SUFFICES ASSUME HubInv, Quiet, status = "matched", NEW c \in Conns, Follows(c)
               PROVE  view[c].winner = winner
    BY DEF WinnerHeard
  <2>1. ~OnTheWay(c, MatchMsg(winner))
    BY EmptyRange DEF OnTheWay, Quiet
  <2>2. QED
    BY <2>1 DEF HubInv, HubReach
<1>2. QED
  BY <1>1, HubInvariant, PTL

\* The same for the deck of a session that runs.
THEOREM DeckIsHeard == HubSpec => []DeckHeard
<1>1. IInv /\ HubInv => DeckHeard
  <2> SUFFICES ASSUME IInv, HubInv, Quiet, status = "active", endReason = "none",
                      NEW c \in Conns, Follows(c)
               PROVE  view[c].deck = deck
    BY DEF DeckHeard
  <2>1. ~OnTheWay(c, DeckMsg(deck))
    BY EmptyRange DEF OnTheWay, Quiet
  <2>2. locked
    BY DEF IInv, DealInv
  <2>3. QED
    BY <2>1, <2>2 DEF HubInv, HubReach
<1>2. QED
  BY <1>1, HubInvariant, PTL

============================================================================
