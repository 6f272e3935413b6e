-------------------------- MODULE WebClientProofs --------------------------
(***************************************************************************)
(* Proofs about WebClient, for any number of cards, sockets, swipes and    *)
(* undos: whatever broke, was late or was dropped, once the page has had a  *)
(* whole answer to its join no passed card is left without a vote.         *)
(***************************************************************************)
EXTENDS WebClient, SequenceTheorems, WellFoundedInduction, TLAPS

Vote == {"yes", "no", None}

Joins == [type : {"join"}]
Swipes == [type : {"swipe"}, card : Card, dir : {"yes", "no"}]
Undos == [type : {"undo"}, early : BOOLEAN]
UpMessages == Joins \cup Swipes \cup Undos

States == [type : {"session_state"}, votes : [Card -> Vote], final : BOOLEAN]
Decks == [type : {"deck"}, final : BOOLEAN]
DownMessages == States \cup Decks

WebClientTypeOK ==
  /\ mine \in [Card -> Vote] /\ index \in 0..Cards /\ dealt \in BOOLEAN
  /\ undoable \in Card \cup {None} /\ acts \in Nat
  /\ socket \in {"opening", "open", "closed"} /\ conn \in Conns /\ synced \in BOOLEAN
  /\ phase \in {"lobby", "locked", "dealt", "told"}
  /\ votes \in [Card -> Vote] /\ last \in Card \cup {None}
  /\ attached \in Conns /\ newest \in Conns
  /\ up \in [Conns -> Seq(UpMessages)]
  /\ down \in [Conns -> Seq(DownMessages)]
  /\ reply \in [Conns -> Seq(DownMessages)]
  /\ crossed \in BOOLEAN

IsState(message) == message.type = "session_state"
IsDeck(message) == message.type = "deck"
FinalDeck(message) == IsDeck(message) /\ message.final
FinalState(message) == IsState(message) /\ message.final

Swiped(message, card) == message.type = "swipe" /\ message.card = card
TakesBack(message) == message.type = "undo" /\ ~message.early
Harmless == {message \in UpMessages : ~TakesBack(message)}

\* Messages that tell of no vote, and those that tell of none on the card.
NoVoteStates == {message \in States : message.votes = NoVotes}
Blanks == Decks \cup NoVoteStates
Silent(card) == Decks \cup {message \in States : message.votes[card] = None}

\* What can be undone is the card passed last, and before the deck there is none.
PageInv ==
  /\ undoable # None => undoable = index + 1
  /\ ~dealt => index = Cards /\ undoable = None

\* Before the session is started nobody has voted.
LobbyInv ==
  phase = "lobby" =>
    /\ ~dealt /\ mine = NoVotes /\ votes = NoVotes
    /\ \A c \in Conns :
         /\ up[c] \in Seq(Joins)
         /\ down[c] \in Seq(NoVoteStates)
         /\ reply[c] \in Seq(NoVoteStates)

\* A socket joins once, as the first thing it says, and is told nothing before.
SocketInv ==
  /\ newest <= conn /\ attached <= newest
  /\ socket = "opening" => newest < conn /\ up[conn] = <<>>
  /\ \A c \in Conns :
       /\ c > conn => up[c] = <<>>
       /\ c > newest => reply[c] = <<>> /\ down[c] = <<>>
       /\ \A i \in 1..Len(up[c]) : up[c][i].type = "join" => i = 1 /\ c # newest
  /\ synced => socket = "open" /\ newest = conn
  /\ socket = "open" /\ ~synced => up[conn] \in Seq(Harmless)

\* The page's socket is open, and the server has taken its join.
Live == socket = "open" /\ newest = conn

\* The page has had the end of the answer, or it is a state that is on its way.
Told(answer, sent) ==
  \/ \E i \in 1..Len(answer) : FinalState(answer[i])
  \/ \E i \in 1..Len(sent) : FinalState(sent[i])

\* The answer to the join, in the order it is sent: the votes, then the deck, which
\* is not the end of a whole answer when the votes were dropped.
AnswerShape(answer) ==
  \/ answer = <<>>
  \/ Len(answer) = 1 /\ (answer[1].final \/ IsDeck(answer[1]))
  \/ Len(answer) = 2 /\ IsState(answer[1]) /\ ~answer[1].final /\ FinalDeck(answer[2])

\* After the last message of the answer no state tells of votes: the only one that
\* may still come is the broadcast of the start.
AnswerOrder(answer, sent, heard) ==
  /\ heard => answer = <<>> /\ sent \in Seq(Blanks)
  /\ \A j \in 1..Len(sent) : sent[j].final =>
       answer = <<>> /\ \A i \in 1..Len(sent) : i > j => sent[i] \in Blanks
  /\ Told(answer, sent) => answer \in Seq(Blanks) /\ sent \in Seq(Blanks)

AnswerInv == Live => AnswerShape(reply[conn]) /\ AnswerOrder(reply[conn], down[conn], synced)

\* The server has a vote on the card, or will have one when it has read what it was
\* sent: the last swipe of it on its way is not taken back, or, when none is on its
\* way, neither is the vote it has.
KeptIn(sent, theVotes, theLast, card) ==
  /\ \A i \in 1..Len(sent) :
       Swiped(sent[i], card) /\ i < Len(sent) /\ TakesBack(sent[i + 1]) =>
         \E j \in 1..Len(sent) : j > i /\ Swiped(sent[j], card)
  /\ (\A i \in 1..Len(sent) : ~Swiped(sent[i], card)) =>
       /\ theVotes[card] # None
       /\ ~(theLast = card /\ sent # <<>> /\ TakesBack(sent[1]))

Kept(card) == KeptIn(up[conn], votes, last, card)

MineKept == \A card \in Card : mine[card] # None => Kept(card)
PassedKept == \A card \in Card : card > index => Kept(card)

\* What the page would take back is the last thing the server has heard, or will.
LastIs(card, sent, theLast) ==
  IF sent = <<>> THEN theLast = card ELSE Swiped(sent[Len(sent)], card)

UndoesTheLast == undoable # None => LastIs(undoable, up[conn], last)

AllKept == MineKept /\ PassedKept /\ UndoesTheLast

\* The votes of an answer that the page has not read yet are kept.
AnswerKept ==
  \A card \in Card : ~Kept(card) =>
    reply[conn] \in Seq(Silent(card)) /\ down[conn] \in Seq(Silent(card))

\* When the deck of a whole answer is read, what the page believes has been.
VotesBeforeDeck ==
  /\ Len(reply[conn]) = 1 /\ FinalDeck(reply[conn][1]) =>
       MineKept \/ \E i \in 1..Len(down[conn]) : IsState(down[conn][i])
  /\ \A j \in 1..Len(down[conn]) : FinalDeck(down[conn][j]) =>
       MineKept \/ \E i \in 1..Len(down[conn]) : i < j /\ IsState(down[conn][i])

KeepInv ==
  Live /\ ~crossed =>
    AnswerKept /\ VotesBeforeDeck /\ (synced \/ Told(reply[conn], down[conn]) => AllKept)

WebClientInv == PageInv /\ LobbyInv /\ SocketInv /\ AnswerInv /\ KeepInv

----------------------------------------------------------------------------
(***************************************************************************)
(* Sequences, index by index.                                              *)
(***************************************************************************)

LEMMA AppendedTo ==
  ASSUME NEW S, NEW s \in Seq(S), NEW x \in S
  PROVE  /\ Append(s, x) \in Seq(S)
         /\ Append(s, x) # <<>>
         /\ Len(s) \in Nat
         /\ Len(Append(s, x)) = Len(s) + 1
         /\ \A i \in 1..Len(s) : Append(s, x)[i] = s[i]
         /\ Append(s, x)[Len(s) + 1] = x
BY AppendProperties, LenProperties

LEMMA HeadAndTailOf ==
  ASSUME NEW S, NEW s \in Seq(S), s # <<>>
  PROVE  /\ Head(s) = s[1] /\ Head(s) \in S
         /\ Tail(s) \in Seq(S)
         /\ Len(s) \in Nat \ {0}
         /\ Len(Tail(s)) = Len(s) - 1
         /\ \A i \in 1..Len(s) - 1 : Tail(s)[i] = s[i + 1]
         /\ Tail(s) = <<>> <=> Len(s) = 1
<1>1. /\ Head(s) \in S
      /\ Tail(s) \in Seq(S)
      /\ Len(Tail(s)) = Len(s) - 1
      /\ \A i \in 1..Len(Tail(s)) : Tail(s)[i] = s[i + 1]
  BY HeadTailProperties
<1>2. Len(s) \in Nat \ {0}
  BY EmptySeq
<1>3. Head(s) = s[1]
  OBVIOUS
<1>4. \A t \in Seq(S) : t = <<>> <=> Len(t) = 0
  BY EmptySeq
<1>5. Tail(s) = <<>> <=> Len(Tail(s)) = 0
  BY <1>1, <1>4
<1>6. QED
  BY <1>1, <1>2, <1>3, <1>5

LEMMA ShortSeqs ==
  ASSUME NEW S, NEW x \in S, NEW y \in S
  PROVE  /\ <<x>> \in Seq(S) /\ Len(<<x>>) = 1 /\ <<x>>[1] = x
         /\ <<x, y>> \in Seq(S) /\ Len(<<x, y>>) = 2
         /\ <<x, y>>[1] = x /\ <<x, y>>[2] = y
OBVIOUS

LEMMA PrefixOf ==
  ASSUME NEW S, NEW s \in Seq(S), NEW n \in 0..Len(s)
  PROVE  /\ SubSeq(s, 1, n) \in Seq(S)
         /\ Len(SubSeq(s, 1, n)) = n
         /\ \A i \in 1..n : SubSeq(s, 1, n)[i] = s[i]
<1>1. Len(s) \in Nat /\ \A i \in 1..Len(s) : s[i] \in S
  BY LenProperties, ElementOfSeq
<1>2. \A i \in 1..n : s[i] \in S
  BY <1>1
<1>3. n \in Int
  BY <1>1
<1>4. /\ SubSeq(s, 1, n) \in Seq(S)
      /\ Len(SubSeq(s, 1, n)) = IF 1 <= n THEN n - 1 + 1 ELSE 0
      /\ \A i \in 1..n - 1 + 1 : SubSeq(s, 1, n)[i] = s[1 + i - 1]
  BY <1>2, <1>3, SubSeqProperties
<1>5. QED
  BY <1>1, <1>4

----------------------------------------------------------------------------
(***************************************************************************)
(* What is sent, and what is read, keeps the votes of the cards.           *)
(***************************************************************************)

\* A swipe keeps the vote of its own card, and what was kept.
LEMMA SwipeKeeps ==
  ASSUME NEW sent \in Seq(UpMessages), NEW theVotes, NEW theLast, NEW card,
         NEW message \in UpMessages, message.type = "swipe",
         KeptIn(sent, theVotes, theLast, card) \/ message.card = card
  PROVE  KeptIn(Append(sent, message), theVotes, theLast, card)
<1> DEFINE more == Append(sent, message)
<1>1. /\ more # <<>>
      /\ Len(sent) \in Nat
      /\ Len(more) = Len(sent) + 1
      /\ \A i \in 1..Len(sent) : more[i] = sent[i]
      /\ more[Len(sent) + 1] = message
  BY AppendedTo
<1>2. sent # <<>> => Len(sent) > 0
  BY <1>1, EmptySeq
<1> HIDE DEF more
<1>3. ~TakesBack(message)
  BY DEF TakesBack
<1>4. ASSUME NEW i \in 1..Len(more), Swiped(more[i], card), i < Len(more), TakesBack(more[i + 1])
      PROVE  \E j \in 1..Len(more) : j > i /\ Swiped(more[j], card)
  <2>1. i + 1 # Len(more)
    BY <1>1, <1>3, <1>4
  <2>2. i \in 1..Len(sent) /\ i < Len(sent)
    BY <1>1, <1>4, <2>1
  <2>3. more[i] = sent[i] /\ more[i + 1] = sent[i + 1]
    BY <1>1, <2>2
  <2>4. CASE message.card = card
    BY <1>1, <2>2, <2>4 DEF Swiped
  <2>5. CASE KeptIn(sent, theVotes, theLast, card)
    <3>1. PICK j \in 1..Len(sent) : j > i /\ Swiped(sent[j], card)
      BY <1>4, <2>2, <2>3, <2>5 DEF KeptIn
    <3>2. QED
      BY <1>1, <3>1
  <2>6. QED
    BY <2>4, <2>5
<1>5. ASSUME \A i \in 1..Len(more) : ~Swiped(more[i], card)
      PROVE  theVotes[card] # None /\ ~(theLast = card /\ more # <<>> /\ TakesBack(more[1]))
  <2>1. message.card # card
    BY <1>1, <1>5 DEF Swiped
  <2>2. \A i \in 1..Len(sent) : ~Swiped(sent[i], card)
    BY <1>1, <1>5
  <2>3. theVotes[card] # None /\ ~(theLast = card /\ sent # <<>> /\ TakesBack(sent[1]))
    BY <2>1, <2>2 DEF KeptIn
  <2>4. sent = <<>> => more[1] = message
    BY <1>1
  <2>5. sent # <<>> => more[1] = sent[1]
    BY <1>1, <1>2
  <2>6. QED
    BY <1>3, <2>3, <2>4, <2>5
<1>6. KeptIn(more, theVotes, theLast, card)
  BY <1>4, <1>5 DEF KeptIn
<1>7. QED
  BY <1>6 DEF more

\* So does an undo that takes back another card, or nothing.
LEMMA UndoKeeps ==
  ASSUME NEW sent \in Seq(UpMessages), NEW theVotes, NEW theLast, NEW card,
         NEW message \in UpMessages, message.type = "undo",
         NEW taken, taken # card,
         message.early \/ LastIs(taken, sent, theLast),
         KeptIn(sent, theVotes, theLast, card)
  PROVE  KeptIn(Append(sent, message), theVotes, theLast, card)
<1> DEFINE more == Append(sent, message)
<1>1. /\ more # <<>>
      /\ Len(sent) \in Nat
      /\ Len(more) = Len(sent) + 1
      /\ \A i \in 1..Len(sent) : more[i] = sent[i]
      /\ more[Len(sent) + 1] = message
  BY AppendedTo
<1>2. sent # <<>> => Len(sent) > 0
  BY <1>1, EmptySeq
<1> HIDE DEF more
<1>3. ASSUME NEW i \in 1..Len(more), Swiped(more[i], card), i < Len(more), TakesBack(more[i + 1])
      PROVE  \E j \in 1..Len(more) : j > i /\ Swiped(more[j], card)
  <2>1. i \in 1..Len(sent) /\ more[i] = sent[i]
    BY <1>1, <1>3
  <2>2. i # Len(sent)
    <3> SUFFICES ASSUME i = Len(sent) PROVE FALSE
      OBVIOUS
    <3>1. ~message.early
      BY <1>1, <1>3 DEF TakesBack
    <3>2. sent # <<>>
      BY <2>1
    <3>3. Swiped(sent[i], taken)
      BY <3>1, <3>2 DEF LastIs
    <3>4. QED
      BY <1>3, <2>1, <3>3 DEF Swiped
  <2>3. i < Len(sent) /\ more[i + 1] = sent[i + 1]
    BY <1>1, <2>1, <2>2
  <2>4. PICK j \in 1..Len(sent) : j > i /\ Swiped(sent[j], card)
    BY <1>3, <2>1, <2>3 DEF KeptIn
  <2>5. QED
    BY <1>1, <2>4
<1>4. ASSUME \A i \in 1..Len(more) : ~Swiped(more[i], card)
      PROVE  theVotes[card] # None /\ ~(theLast = card /\ more # <<>> /\ TakesBack(more[1]))
  <2>1. \A i \in 1..Len(sent) : ~Swiped(sent[i], card)
    BY <1>1, <1>4
  <2>2. theVotes[card] # None /\ ~(theLast = card /\ sent # <<>> /\ TakesBack(sent[1]))
    BY <2>1 DEF KeptIn
  <2>3. sent = <<>> => more[1] = message
    BY <1>1
  <2>4. sent # <<>> => more[1] = sent[1]
    BY <1>1, <1>2
  <2>5. sent = <<>> /\ TakesBack(message) => theLast = taken
    BY DEF LastIs, TakesBack
  <2>6. QED
    BY <2>2, <2>3, <2>4, <2>5
<1>5. KeptIn(more, theVotes, theLast, card)
  BY <1>3, <1>4 DEF KeptIn
<1>6. QED
  BY <1>5 DEF more

\* Reading a swipe records the vote.
LEMMA SwipeRead ==
  ASSUME NEW sent \in Seq(UpMessages), sent # <<>>,
         NEW theVotes \in [Card -> Vote], NEW theLast, NEW card \in Card,
         Head(sent) \in Swipes,
         KeptIn(sent, theVotes, theLast, card)
  PROVE  KeptIn(Tail(sent), [theVotes EXCEPT ![Head(sent).card] = Head(sent).dir],
                Head(sent).card, card)
<1> DEFINE rest == Tail(sent)
           message == Head(sent)
           after == [theVotes EXCEPT ![message.card] = message.dir]
<1>1. /\ message = sent[1]
      /\ Len(sent) \in Nat \ {0}
      /\ Len(rest) = Len(sent) - 1
      /\ \A i \in 1..Len(sent) - 1 : rest[i] = sent[i + 1]
      /\ rest = <<>> <=> Len(sent) = 1
  BY HeadAndTailOf
<1>2. /\ message.type = "swipe" /\ message.card \in Card /\ message.dir # None
      /\ after[message.card] = message.dir
      /\ card # message.card => after[card] = theVotes[card]
  BY NoneAssumption DEF Swipes
<1> HIDE DEF rest, message, after
<1>3. ASSUME NEW i \in 1..Len(rest), Swiped(rest[i], card), i < Len(rest), TakesBack(rest[i + 1])
      PROVE  \E j \in 1..Len(rest) : j > i /\ Swiped(rest[j], card)
  <2>1. /\ i + 1 \in 1..Len(sent) /\ i + 1 < Len(sent)
        /\ Swiped(sent[i + 1], card) /\ TakesBack(sent[i + 1 + 1])
    BY <1>1, <1>3
  <2>2. PICK j \in 1..Len(sent) : j > i + 1 /\ Swiped(sent[j], card)
    BY <2>1 DEF KeptIn
  <2>3. j - 1 \in 1..Len(rest) /\ j - 1 > i /\ rest[j - 1] = sent[j]
    BY <1>1, <2>2
  <2>4. QED
    BY <2>2, <2>3
<1>4. ASSUME \A i \in 1..Len(rest) : ~Swiped(rest[i], card)
      PROVE  /\ after[card] # None
             /\ ~(message.card = card /\ rest # <<>> /\ TakesBack(rest[1]))
  <2>1. \A i \in 1..Len(sent) : i > 1 => ~Swiped(sent[i], card)
    <3> SUFFICES ASSUME NEW i \in 1..Len(sent), i > 1 PROVE ~Swiped(sent[i], card)
      OBVIOUS
    <3>1. i - 1 \in 1..Len(rest) /\ rest[i - 1] = sent[i]
      BY <1>1
    <3>2. QED
      BY <1>4, <3>1
  <2>2. CASE message.card = card
    <3>1. 1 \in 1..Len(sent) /\ Swiped(sent[1], card)
      BY <1>1, <1>2, <2>2 DEF Swiped
    <3>2. ~(1 < Len(sent) /\ TakesBack(sent[1 + 1]))
      BY <2>1, <3>1 DEF KeptIn
    <3>3. rest # <<>> => 1 < Len(sent) /\ rest[1] = sent[1 + 1]
      BY <1>1
    <3>4. QED
      BY <1>2, <2>2, <3>2, <3>3
  <2>3. CASE message.card # card
    <3>1. \A i \in 1..Len(sent) : ~Swiped(sent[i], card)
      BY <1>1, <2>1, <2>3 DEF Swiped
    <3>2. theVotes[card] # None
      BY <3>1 DEF KeptIn
    <3>3. QED
      BY <1>2, <2>3, <3>2
  <2>4. QED
    BY <2>2, <2>3
<1>5. KeptIn(rest, after, message.card, card)
  BY <1>3, <1>4 DEF KeptIn
<1>6. QED
  BY <1>5 DEF rest, message, after

\* Reading an undo that is not early clears the vote it was sent for, and no other.
LEMMA UndoRead ==
  ASSUME NEW sent \in Seq(UpMessages), sent # <<>>,
         NEW theVotes, NEW theLast, NEW after, NEW card,
         Head(sent).type = "undo",
         theLast = card => ~Head(sent).early,
         theLast # card => after[card] = theVotes[card],
         KeptIn(sent, theVotes, theLast, card)
  PROVE  \A x : x # card => KeptIn(Tail(sent), after, x, card)
<1> DEFINE rest == Tail(sent)
           message == Head(sent)
<1>1. /\ message = sent[1]
      /\ Len(sent) \in Nat \ {0}
      /\ Len(rest) = Len(sent) - 1
      /\ \A i \in 1..Len(sent) - 1 : rest[i] = sent[i + 1]
  BY HeadAndTailOf
<1> HIDE DEF rest, message
<1>2. ASSUME NEW i \in 1..Len(rest), Swiped(rest[i], card), i < Len(rest), TakesBack(rest[i + 1])
      PROVE  \E j \in 1..Len(rest) : j > i /\ Swiped(rest[j], card)
  <2>1. /\ i + 1 \in 1..Len(sent) /\ i + 1 < Len(sent)
        /\ Swiped(sent[i + 1], card) /\ TakesBack(sent[i + 1 + 1])
    BY <1>1, <1>2
  <2>2. PICK j \in 1..Len(sent) : j > i + 1 /\ Swiped(sent[j], card)
    BY <2>1 DEF KeptIn
  <2>3. j - 1 \in 1..Len(rest) /\ j - 1 > i /\ rest[j - 1] = sent[j]
    BY <1>1, <2>2
  <2>4. QED
    BY <2>2, <2>3
<1>3. ASSUME \A i \in 1..Len(rest) : ~Swiped(rest[i], card)
      PROVE  after[card] # None
  <2>1. \A i \in 1..Len(sent) : ~Swiped(sent[i], card)
    <3> SUFFICES ASSUME NEW i \in 1..Len(sent) PROVE ~Swiped(sent[i], card)
      OBVIOUS
    <3>1. i = 1 => sent[i].type = "undo"
      BY <1>1 DEF message
    <3>2. i # 1 => i - 1 \in 1..Len(rest) /\ rest[i - 1] = sent[i]
      BY <1>1
    <3>3. QED
      BY <1>3, <3>1, <3>2 DEF Swiped
  <2>2. theVotes[card] # None /\ ~(theLast = card /\ TakesBack(message))
    BY <1>1, <2>1 DEF KeptIn
  <2>3. QED
    BY <2>2 DEF TakesBack, message
<1>4. ASSUME NEW x, x # card
      PROVE  KeptIn(rest, after, x, card)
  BY <1>2, <1>3, <1>4 DEF KeptIn
<1>5. QED
  BY <1>4 DEF rest

\* What a join is answered with is kept, when nothing behind it takes a vote back.
LEMMA JoinKeeps ==
  ASSUME NEW sent \in Seq(UpMessages), NEW theVotes, NEW theLast, NEW card,
         theVotes[card] # None,
         sent \in Seq(Harmless)
  PROVE  KeptIn(sent, theVotes, theLast, card)
<1>1. Len(sent) \in Nat
  BY LenProperties
<1>2. sent # <<>> => 1 \in 1..Len(sent)
  BY EmptySeq
<1>3. \A i \in 1..Len(sent) : ~TakesBack(sent[i])
  BY ElementOfSeq DEF Harmless
<1>4. QED
  BY <1>1, <1>2, <1>3 DEF KeptIn

----------------------------------------------------------------------------
(***************************************************************************)
(* The first card without a vote.                                          *)
(***************************************************************************)

\* A set of cards that is not empty has a highest card: below a card as far from
\* the top as any of them there is none.
LEMMA HighestCard ==
  ASSUME NEW S \in SUBSET Card, S # {}
  PROVE  \E card \in S : \A other \in S : other <= card
<1> DEFINE Below == {n \in Nat : \E card \in S : card + n = Cards}
<1>1. PICK R : R = OpToRel(<, Nat)
  OBVIOUS
<1>2. IsWellFoundedOn(R, Nat)
  BY <1>1, NatLessThanWellFounded
<1>3. Below \subseteq Nat /\ Below # {}
  <2>1. PICK card \in S : TRUE
    OBVIOUS
  <2>2. card \in Nat /\ card <= Cards
    BY CardsAssumption DEF Card
  <2>3. Cards - card \in Nat /\ card + (Cards - card) = Cards
    BY <2>2, CardsAssumption
  <2>4. Cards - card \in Below
    BY <2>1, <2>3
  <2>5. QED
    BY <2>4
<1>4. PICK n \in Below : \A m \in Below : <<m, n>> \notin R
  <2> HIDE DEF Below
  <2>1. QED
    BY <1>2, <1>3, WFMin
<1>5. \A m \in Nat : m < n => <<m, n>> \in R
  BY <1>1, <1>3 DEF OpToRel
<1>6. PICK card \in S : card + n = Cards
  OBVIOUS
<1>7. ASSUME NEW other \in S, other > card
      PROVE  FALSE
  <2>1. /\ card \in Nat /\ other \in Nat /\ other <= Cards
        /\ n \in Nat
    BY CardsAssumption DEF Card
  <2>2. Cards - other \in Nat /\ Cards - other < n
    BY <2>1, <1>6, <1>7, CardsAssumption
  <2>3. Cards - other \in Below
    BY <2>1, <2>2, CardsAssumption
  <2>4. QED
    BY <1>4, <1>5, <2>2, <2>3
<1>8. QED
  BY <1>7, CardsAssumption DEF Card

LEMMA FirstWithoutIsFirst ==
  ASSUME NEW theVotes
  PROVE  /\ FirstWithout(theVotes) \in 0..Cards
         /\ \A card \in Card : card > FirstWithout(theVotes) => theVotes[card] # None
<1> DEFINE without == {card \in Card : theVotes[card] = None}
           first == CHOOSE card \in without : \A other \in without : other <= card
<1>1. CASE without = {}
  <2>1. FirstWithout(theVotes) = 0
    BY <1>1 DEF FirstWithout
  <2>2. QED
    BY <1>1, <2>1, CardsAssumption
<1>2. CASE without # {}
  <2>1. FirstWithout(theVotes) = first
    BY <1>2 DEF FirstWithout
  <2>2. \E card \in without : \A other \in without : other <= card
    <3>1. without \in SUBSET Card
      OBVIOUS
    <3> HIDE DEF without
    <3>2. QED
      BY <1>2, <3>1, HighestCard
  <2>3. first \in without /\ \A other \in without : other <= first
    BY <2>2
  <2> HIDE DEF first
  <2>4. QED
    BY <2>1, <2>3, CardsAssumption DEF Card
<1>3. QED
  BY <1>1, <1>2

----------------------------------------------------------------------------
(***************************************************************************)
(* What the steps do to what is on its way.                                *)
(***************************************************************************)

LEMMA EarlierSeq ==
  ASSUME NEW S, NEW s \in Seq(S), NEW T, \A i \in 1..Len(s) : s[i] \in T
  PROVE  s \in Seq(T)
<1>1. Len(s) \in Nat /\ s \in [1..Len(s) -> S]
  BY LenProperties
<1>2. s \in [1..Len(s) -> T]
  BY <1>1
<1>3. QED
  BY <1>1, <1>2, SeqDef

LEMMA SendAppends ==
  ASSUME WebClientTypeOK, NEW message \in UpMessages, Send(message)
  PROVE  /\ up' \in [Conns -> Seq(UpMessages)]
         /\ \A c \in Conns : c # conn => up'[c] = up[c]
         /\ socket = "open" => up'[conn] = Append(up[conn], message)
         /\ socket # "open" => up' = up
<1>1. up[conn] \in Seq(UpMessages) /\ conn \in Conns /\ up \in [Conns -> Seq(UpMessages)]
  BY DEF WebClientTypeOK
<1>2. Append(up[conn], message) \in Seq(UpMessages)
  BY <1>1, AppendedTo
<1>3. QED
  BY <1>1, <1>2 DEF Send

LEMMA TakesHead ==
  ASSUME WebClientTypeOK, NEW c \in Conns, NEW type, Takes(c, type)
  PROVE  /\ reply[c] = <<>> /\ up[c] # <<>>
         /\ up[c] \in Seq(UpMessages)
         /\ Head(up[c]) \in UpMessages /\ Head(up[c]) = up[c][1] /\ Head(up[c]).type = type
         /\ up' \in [Conns -> Seq(UpMessages)]
         /\ \A d \in Conns : d # c => up'[d] = up[d]
         /\ up'[c] = Tail(up[c])
<1>1. up[c] \in Seq(UpMessages) /\ up \in [Conns -> Seq(UpMessages)]
  BY DEF WebClientTypeOK
<1>2. reply[c] = <<>> /\ up[c] # <<>> /\ Head(up[c]).type = type /\ up' = [up EXCEPT ![c] = Tail(@)]
  BY DEF Takes
<1>3. Tail(up[c]) \in Seq(UpMessages) /\ Head(up[c]) \in UpMessages /\ Head(up[c]) = up[c][1]
  BY <1>1, <1>2, HeadAndTailOf
<1>4. QED
  BY <1>1, <1>2, <1>3

LEMMA DeliverAppends ==
  ASSUME WebClientTypeOK, NEW c \in Conns, NEW message \in DownMessages, TrySend(c, message)
  PROVE  /\ down' \in [Conns -> Seq(DownMessages)]
         /\ \/ down' = down
            \/ /\ c = conn /\ down'[conn] = Append(down[conn], message)
               /\ \A d \in Conns : d # c => down'[d] = down[d]
<1>1. down[c] \in Seq(DownMessages) /\ down \in [Conns -> Seq(DownMessages)]
  BY DEF WebClientTypeOK
<1>2. Append(down[c], message) \in Seq(DownMessages)
  BY <1>1, AppendedTo
<1>3. CASE Deliver(c, message)
  BY <1>1, <1>2, <1>3 DEF Deliver
<1>4. CASE UNCHANGED down
  BY <1>1, <1>4
<1>5. QED
  BY <1>3, <1>4 DEF TrySend

LEMMA ReplyHead ==
  ASSUME WebClientTypeOK, NEW c \in Conns, reply[c] # <<>>
  PROVE  /\ reply[c] \in Seq(DownMessages)
         /\ Head(reply[c]) \in DownMessages /\ Head(reply[c]) = reply[c][1]
         /\ Tail(reply[c]) \in Seq(DownMessages)
<1>1. reply[c] \in Seq(DownMessages)
  BY DEF WebClientTypeOK
<1>2. QED
  BY <1>1, HeadAndTailOf

\* What is left of an answer is still one, message by message, when it is torn.
LEMMA TornOf ==
  ASSUME NEW S, \A message \in S : [message EXCEPT !.final = FALSE] \in S, NEW s \in Seq(S)
  PROVE  /\ Torn(s) \in Seq(S) /\ Len(Torn(s)) = Len(s) /\ Len(s) \in Nat
         /\ \A i \in 1..Len(s) : Torn(s)[i] = [s[i] EXCEPT !.final = FALSE]
<1>1. /\ Len(s) \in Nat /\ DOMAIN s = 1..Len(s)
      /\ \A i \in 1..Len(s) : s[i] \in S
  BY LenProperties, ElementOfSeq
<1>2. Torn(s) = [i \in 1..Len(s) |-> [s[i] EXCEPT !.final = FALSE]]
  BY <1>1 DEF Torn
<1>3. Torn(s) \in [1..Len(s) -> S]
  BY <1>1, <1>2
<1>4. Torn(s) \in Seq(S) /\ Len(Torn(s)) = Len(s)
  <2>1. Torn(s) \in Seq(S)
    BY <1>1, <1>3, SeqDef
  <2>2. DOMAIN Torn(s) = 1..Len(s)
    BY <1>2
  <2>3. QED
    BY <1>1, <2>1, <2>2, LenProperties
<1>5. QED
  BY <1>1, <1>2, <1>4

\* A message that is not the last of a whole answer says the same.
LEMMA NotFinal ==
  /\ \A message \in Decks : [message EXCEPT !.final = FALSE] \in Decks
  /\ \A message \in States :
       /\ [message EXCEPT !.final = FALSE] \in States
       /\ [message EXCEPT !.final = FALSE].votes = message.votes
  /\ \A message \in DownMessages :
       /\ [message EXCEPT !.final = FALSE] \in DownMessages
       /\ [message EXCEPT !.final = FALSE].type = message.type
       /\ ~[message EXCEPT !.final = FALSE].final
  /\ \A message \in NoVoteStates : [message EXCEPT !.final = FALSE] \in NoVoteStates
  /\ \A card : \A message \in Silent(card) : [message EXCEPT !.final = FALSE] \in Silent(card)
<1>1. ASSUME NEW message \in Decks
      PROVE  /\ [message EXCEPT !.final = FALSE] \in Decks
             /\ [message EXCEPT !.final = FALSE].type = message.type
             /\ ~[message EXCEPT !.final = FALSE].final
  BY DEF Decks
<1>2. ASSUME NEW message \in States
      PROVE  /\ [message EXCEPT !.final = FALSE] \in States
             /\ [message EXCEPT !.final = FALSE].votes = message.votes
             /\ [message EXCEPT !.final = FALSE].type = message.type
             /\ ~[message EXCEPT !.final = FALSE].final
  BY DEF States
<1>3. \A message \in NoVoteStates : [message EXCEPT !.final = FALSE] \in NoVoteStates
  BY <1>2 DEF NoVoteStates
<1>4. \A card : \A message \in Silent(card) : [message EXCEPT !.final = FALSE] \in Silent(card)
  BY <1>1, <1>2 DEF Silent
<1>5. QED
  BY <1>1, <1>2, <1>3, <1>4 DEF DownMessages

\* A message of the answer is sent, or dropped and the rest torn.
LEMMA ReplySent ==
  ASSUME WebClientTypeOK, NEW c \in Conns, SendReply(c)
  PROVE  /\ reply[c] # <<>>
         /\ reply' \in [Conns -> Seq(DownMessages)] /\ down' \in [Conns -> Seq(DownMessages)]
         /\ \A d \in Conns : d # c => reply'[d] = reply[d] /\ down'[d] = down[d]
         /\ \/ /\ c = conn /\ down'[c] = Append(down[c], Head(reply[c]))
               /\ reply'[c] = Tail(reply[c])
            \/ down' = down /\ reply'[c] = Torn(Tail(reply[c]))
<1>0. /\ reply \in [Conns -> Seq(DownMessages)] /\ down \in [Conns -> Seq(DownMessages)]
      /\ reply[c] # <<>>
  BY DEF WebClientTypeOK, SendReply
<1>1. Head(reply[c]) \in DownMessages /\ Tail(reply[c]) \in Seq(DownMessages)
  BY <1>0, ReplyHead
<1>2. CASE /\ Deliver(c, Head(reply[c]))
           /\ reply' = [reply EXCEPT ![c] = Tail(@)]
  <2>1. Append(down[c], Head(reply[c])) \in Seq(DownMessages)
    BY <1>0, <1>1, AppendedTo
  <2>2. c = conn /\ down' = [down EXCEPT ![c] = Append(@, Head(reply[c]))]
    BY <1>2 DEF Deliver
  <2>3. QED
    BY <1>0, <1>1, <1>2, <2>1, <2>2
<1>3. CASE /\ UNCHANGED down
           /\ reply' = [reply EXCEPT ![c] = Torn(Tail(@))]
  <2>1. Torn(Tail(reply[c])) \in Seq(DownMessages)
    BY <1>1, NotFinal, TornOf
  <2>2. QED
    BY <1>0, <1>3, <2>1
<1>4. QED
  BY <1>0, <1>2, <1>3 DEF SendReply

LEMMA DownHead ==
  ASSUME WebClientTypeOK, down[conn] # <<>>
  PROVE  /\ down[conn] \in Seq(DownMessages)
         /\ Head(down[conn]) \in DownMessages /\ Head(down[conn]) = down[conn][1]
         /\ Tail(down[conn]) \in Seq(DownMessages)
<1>1. down[conn] \in Seq(DownMessages)
  BY DEF WebClientTypeOK
<1>2. QED
  BY <1>1, HeadAndTailOf

\* The messages the steps send are messages.
LEMMA MessagesSent ==
  /\ \A dir \in {"yes", "no"} : \A card \in Card :
       [type |-> "swipe", card |-> card, dir |-> dir] \in UpMessages
  /\ \A b \in BOOLEAN : [type |-> "undo", early |-> b] \in UpMessages
  /\ [type |-> "join"] \in UpMessages
  /\ \A b \in BOOLEAN : DeckOf(b) \in DownMessages /\ DeckOf(b) \in Decks
  /\ \A b \in BOOLEAN : \A v \in [Card -> Vote] : State(v, b) \in DownMessages /\ State(v, b) \in States
  /\ NoVotes \in [Card -> Vote]
<1>1. /\ \A dir \in {"yes", "no"} : \A card \in Card :
           [type |-> "swipe", card |-> card, dir |-> dir] \in Swipes
      /\ \A b \in BOOLEAN : [type |-> "undo", early |-> b] \in Undos
      /\ [type |-> "join"] \in Joins
  BY DEF Swipes, Undos, Joins
<1>2. /\ \A b \in BOOLEAN : DeckOf(b) \in Decks
      /\ \A b \in BOOLEAN : \A v \in [Card -> Vote] : State(v, b) \in States
      /\ NoVotes \in [Card -> Vote]
  BY DEF DeckOf, Decks, State, States, NoVotes, Vote
<1>3. QED
  BY <1>1, <1>2 DEF UpMessages, DownMessages

\* What the two kinds of messages from the server are.
LEMMA DownKinds ==
  ASSUME NEW message \in DownMessages
  PROVE  /\ message.final \in BOOLEAN
         /\ IsState(message) <=> message \in States
         /\ IsDeck(message) <=> message \in Decks
         /\ IsState(message) \/ IsDeck(message)
         /\ ~(IsState(message) /\ IsDeck(message))
         /\ IsState(message) => message.votes \in [Card -> Vote]
BY DEF DownMessages, States, Decks, IsState, IsDeck

LEMMA UpKinds ==
  ASSUME NEW message \in UpMessages
  PROVE  /\ message \in Swipes \/ message \in Undos \/ message \in Joins
         /\ message.type = "swipe" <=> message \in Swipes
         /\ message.type = "undo" <=> message \in Undos
         /\ message.type = "join" <=> message \in Joins
BY DEF UpMessages, Swipes, Undos, Joins

\* A break leaves a part of what the socket carried up, and nothing of the rest.
LEMMA BreakCuts ==
  ASSUME WebClientTypeOK, Break
  PROVE  /\ up' \in [Conns -> Seq(UpMessages)] /\ down' \in [Conns -> Seq(DownMessages)]
         /\ \A c \in Conns : c # conn => up'[c] = up[c] /\ down'[c] = down[c]
         /\ down'[conn] = <<>>
         /\ \E n \in 0..Len(up[conn]) : up'[conn] = SubSeq(up[conn], 1, n)
<1>1. /\ conn \in Conns /\ up \in [Conns -> Seq(UpMessages)] /\ up[conn] \in Seq(UpMessages)
      /\ down \in [Conns -> Seq(DownMessages)]
  BY DEF WebClientTypeOK
<1>2. PICK n \in 0..Len(up[conn]) : up' = [up EXCEPT ![conn] = SubSeq(@, 1, n)]
  BY DEF Break
<1>3. SubSeq(up[conn], 1, n) \in Seq(UpMessages)
  BY <1>1, PrefixOf
<1>4. <<>> \in Seq(DownMessages)
  BY EmptySeq
<1>5. up' \in [Conns -> Seq(UpMessages)] /\ up'[conn] = SubSeq(up[conn], 1, n)
  BY <1>1, <1>2, <1>3
<1>6. down' \in [Conns -> Seq(DownMessages)] /\ down'[conn] = <<>>
  BY <1>1, <1>4 DEF Break
<1>7. \A c \in Conns : c # conn => up'[c] = up[c] /\ down'[c] = down[c]
  BY <1>1, <1>2 DEF Break
<1>8. QED
  BY <1>5, <1>6, <1>7

LEMMA OpenJoins ==
  ASSUME WebClientTypeOK, Open
  PROVE  /\ up' \in [Conns -> Seq(UpMessages)]
         /\ \A c \in Conns : c # conn => up'[c] = up[c]
         /\ up'[conn] = <<[type |-> "join"]>>
         /\ up'[conn] \in Seq(Joins)
<1>1. conn \in Conns /\ up \in [Conns -> Seq(UpMessages)]
  BY DEF WebClientTypeOK
<1>2. [type |-> "join"] \in Joins /\ [type |-> "join"] \in UpMessages
  BY DEF Joins, UpMessages
<1>3. <<[type |-> "join"]>> \in Seq(UpMessages) /\ <<[type |-> "join"]>> \in Seq(Joins)
  BY <1>2
<1>4. QED
  BY <1>1, <1>3 DEF Open

----------------------------------------------------------------------------
(***************************************************************************)
(* Every step keeps the types.                                             *)
(***************************************************************************)

LEMMA TypesStart == Init => WebClientTypeOK
<1> SUFFICES ASSUME Init PROVE WebClientTypeOK
  OBVIOUS
<1>1. 1 \in Conns /\ Cards \in 0..Cards
  BY CardsAssumption DEF Conns
<1>2. NoVotes \in [Card -> Vote]
  BY MessagesSent
<1>3. <<>> \in Seq(UpMessages) /\ <<>> \in Seq(DownMessages)
  BY EmptySeq
<1>4. QED
  BY <1>1, <1>2, <1>3 DEF Init, WebClientTypeOK

LEMMA TypesStep == WebClientTypeOK /\ [Next]_vars => WebClientTypeOK'
<1> SUFFICES ASSUME WebClientTypeOK, [Next]_vars PROVE WebClientTypeOK'
  OBVIOUS
<1>0. Conns = 1..MaxConns /\ Card = 1..Cards /\ Cards \in Nat /\ MaxConns \in Nat /\ MaxActs \in Nat
  BY CardsAssumption DEF Conns, Card
<1>1. ASSUME NEW dir \in {"yes", "no"}, Swipe(dir) PROVE WebClientTypeOK'
  <2>1. index \in Card
    BY <1>0, <1>1 DEF Swipe, WebClientTypeOK
  <2>2. up' \in [Conns -> Seq(UpMessages)]
    <3>1. [type |-> "swipe", card |-> index, dir |-> dir] \in UpMessages
      BY <2>1, MessagesSent
    <3>2. QED
      BY <1>1, <3>1, SendAppends DEF Swipe
  <2>3. mine' \in [Card -> Vote] /\ undoable' \in Card \cup {None} /\ acts' \in Nat
    BY <1>1, <2>1 DEF Swipe, WebClientTypeOK, Vote
  <2>4. index' \in 0..Cards
    BY <1>0, <1>1, <2>1 DEF Swipe
  <2>5. QED
    BY <1>1, <2>2, <2>3, <2>4 DEF Swipe, WebClientTypeOK, socketVars, voteVars, joinVars
<1>2. CASE Undo
  <2>1. index' \in 0..Cards
    BY <1>0, <1>2 DEF Undo, WebClientTypeOK
  <2>2. up' \in [Conns -> Seq(UpMessages)]
    <3>1. synced \in BOOLEAN
      BY DEF WebClientTypeOK
    <3>2. [type |-> "undo", early |-> ~synced] \in UpMessages
      BY <3>1, MessagesSent
    <3>3. QED
      BY <1>2, <3>2, SendAppends DEF Undo
  <2>3. mine' \in [Card -> Vote] /\ undoable' \in Card \cup {None} /\ acts' \in Nat
    BY <1>2 DEF Undo, WebClientTypeOK, Vote
  <2>4. QED
    BY <1>2, <2>1, <2>2, <2>3 DEF Undo, WebClientTypeOK, socketVars, voteVars, joinVars
<1>3. CASE Break
  <2>1. up' \in [Conns -> Seq(UpMessages)] /\ down' \in [Conns -> Seq(DownMessages)]
    BY <1>3, BreakCuts
  <2>2. QED
    BY <1>3, <2>1 DEF Break, WebClientTypeOK, pageVars, voteVars, joinVars
<1>4. CASE Reconnect
  <2>1. conn' \in Conns
    BY <1>0, <1>4 DEF Reconnect, WebClientTypeOK
  <2>2. QED
    BY <1>4, <2>1 DEF Reconnect, WebClientTypeOK, pageVars, voteVars, joinVars
<1>5. CASE Open
  <2>1. up' \in [Conns -> Seq(UpMessages)]
    BY <1>5, OpenJoins
  <2>2. QED
    BY <1>5, <2>1 DEF Open, WebClientTypeOK, pageVars, voteVars, joinVars
<1>6. CASE Receive
  <2> DEFINE message == Head(down[conn])
  <2>1. down[conn] # <<>>
    BY <1>6 DEF Receive
  <2>2. message \in DownMessages /\ Tail(down[conn]) \in Seq(DownMessages)
    BY <2>1, DownHead
  <2>3. message.final \in BOOLEAN /\ (message.type = "session_state" => message.votes \in [Card -> Vote])
    BY <2>2, DownKinds DEF IsState
  <2>4. FirstWithout(mine) \in 0..Cards
    BY FirstWithoutIsFirst
  <2>5. down' \in [Conns -> Seq(DownMessages)]
    BY <1>6, <2>2 DEF Receive, WebClientTypeOK
  <2>6. /\ \/ message.type = "session_state" /\ mine' = message.votes /\ UNCHANGED <<index, dealt, undoable>>
           \/ message.type = "deck" /\ Deck /\ UNCHANGED mine
        /\ synced' = (synced \/ message.final)
    BY <1>6 DEF Receive
  <2>7. UNCHANGED <<acts, socket, conn, voteVars, joinVars, phase, up>>
    BY <1>6 DEF Receive
  <2> HIDE DEF message
  <2>8. mine' \in [Card -> Vote] /\ index' \in 0..Cards /\ dealt' \in BOOLEAN
        /\ undoable' \in Card \cup {None} /\ synced' \in BOOLEAN
    BY <2>3, <2>4, <2>6 DEF Deck, WebClientTypeOK
  <2>9. QED
    BY <2>5, <2>7, <2>8 DEF WebClientTypeOK, voteVars, joinVars
<1>7. ASSUME NEW c \in Conns, HandleJoin(c) PROVE WebClientTypeOK'
  <2>1. up' \in [Conns -> Seq(UpMessages)]
    BY <1>7, TakesHead DEF HandleJoin
  <2>2. <<State(votes, TRUE)>> \in Seq(DownMessages) /\ <<State(votes, FALSE), DeckOf(TRUE)>> \in Seq(DownMessages)
    <3>1. votes \in [Card -> Vote]
      BY DEF WebClientTypeOK
    <3>2. State(votes, TRUE) \in DownMessages /\ State(votes, FALSE) \in DownMessages /\ DeckOf(TRUE) \in DownMessages
      BY <3>1, MessagesSent
    <3>3. QED
      BY <3>2, ShortSeqs
  <2>3. reply' \in [Conns -> Seq(DownMessages)]
    BY <1>7, <2>2 DEF HandleJoin, WebClientTypeOK
  <2>4. attached' \in Conns /\ newest' \in Conns /\ crossed' \in BOOLEAN
    BY <1>7 DEF HandleJoin, WebClientTypeOK, Late
  <2>5. QED
    BY <1>7, <2>1, <2>3, <2>4 DEF HandleJoin, WebClientTypeOK, pageVars, socketVars
<1>8. ASSUME NEW c \in Conns, SendReply(c) PROVE WebClientTypeOK'
  <2>1. down' \in [Conns -> Seq(DownMessages)] /\ reply' \in [Conns -> Seq(DownMessages)]
    BY <1>8, ReplySent
  <2>2. UNCHANGED <<pageVars, socketVars, voteVars, attached, newest, phase, up>>
    BY <1>8 DEF SendReply
  <2>3. QED
    BY <2>1, <2>2 DEF WebClientTypeOK, pageVars, socketVars, voteVars
<1>9. ASSUME NEW c \in Conns, HandleSwipe(c) PROVE WebClientTypeOK'
  <2>1. up' \in [Conns -> Seq(UpMessages)] /\ Head(up[c]) \in UpMessages /\ Head(up[c]).type = "swipe"
    BY <1>9, TakesHead DEF HandleSwipe
  <2>2. Head(up[c]) \in Swipes
    BY <2>1, UpKinds
  <2>3. Head(up[c]).card \in Card /\ Head(up[c]).dir \in Vote
    BY <2>2 DEF Swipes, Vote
  <2>4. votes' \in [Card -> Vote] /\ last' \in Card \cup {None} /\ crossed' \in BOOLEAN
    BY <1>9, <2>3 DEF HandleSwipe, WebClientTypeOK, voteVars, Late
  <2>5. QED
    BY <1>9, <2>1, <2>4 DEF HandleSwipe, WebClientTypeOK, pageVars, socketVars, joinVars
<1>10. ASSUME NEW c \in Conns, HandleUndo(c) PROVE WebClientTypeOK'
  <2>1. up' \in [Conns -> Seq(UpMessages)] /\ Head(up[c]) \in UpMessages /\ Head(up[c]).type = "undo"
    BY <1>10, TakesHead DEF HandleUndo
  <2>2. Head(up[c]) \in Undos
    BY <2>1, UpKinds
  <2>3. Head(up[c]).early \in BOOLEAN
    BY <2>2 DEF Undos
  <2>4. votes' \in [Card -> Vote] /\ last' \in Card \cup {None} /\ crossed' \in BOOLEAN
    BY <1>10, <2>3 DEF HandleUndo, WebClientTypeOK, voteVars, Late, Vote
  <2>5. QED
    BY <1>10, <2>1, <2>4 DEF HandleUndo, WebClientTypeOK, pageVars, socketVars, joinVars
<1>11. CASE HostStart
  BY <1>11 DEF HostStart, WebClientTypeOK, pageVars, socketVars, voteVars, joinVars
<1>12. CASE BroadcastDeck
  <2>1. down' \in [Conns -> Seq(DownMessages)]
    <3>1. attached \in Conns /\ DeckOf(FALSE) \in DownMessages
      BY MessagesSent DEF WebClientTypeOK
    <3>2. QED
      BY <1>12, <3>1, DeliverAppends DEF BroadcastDeck
  <2>2. QED
    BY <1>12, <2>1 DEF BroadcastDeck, WebClientTypeOK, pageVars, socketVars, voteVars, joinVars
<1>13. CASE BroadcastSessionState
  <2>1. down' \in [Conns -> Seq(DownMessages)]
    <3>1. attached \in Conns /\ State(NoVotes, FALSE) \in DownMessages
      BY MessagesSent DEF WebClientTypeOK
    <3>2. QED
      BY <1>13, <3>1, DeliverAppends DEF BroadcastSessionState
  <2>2. QED
    BY <1>13, <2>1 DEF BroadcastSessionState, WebClientTypeOK, pageVars, socketVars, voteVars, joinVars
<1>14. CASE UNCHANGED vars
  BY <1>14 DEF vars, WebClientTypeOK, pageVars, socketVars, voteVars, joinVars
<1>15. QED
  BY <1>1, <1>2, <1>3, <1>4, <1>5, <1>6, <1>7, <1>8, <1>9, <1>10, <1>11, <1>12, <1>13, <1>14 DEF Next

----------------------------------------------------------------------------
(***************************************************************************)
(* The parts of the invariant, one after the other.                        *)
(***************************************************************************)

LEMMA PageStep ==
  ASSUME WebClientTypeOK, PageInv, Next
  PROVE  PageInv'
<1>0. index \in 0..Cards /\ Cards \in Nat /\ None \notin Card
  BY CardsAssumption, NoneAssumption DEF WebClientTypeOK, Card
<1>1. ASSUME NEW dir \in {"yes", "no"}, Swipe(dir) PROVE PageInv'
  BY <1>0, <1>1 DEF PageInv, Swipe
<1>2. CASE Undo
  BY <1>0, <1>2 DEF PageInv, Undo
<1>3. CASE Break \/ Reconnect \/ Open
  BY <1>3 DEF PageInv, Break, Reconnect, Open, pageVars
<1>4. CASE Receive
  BY <1>4 DEF PageInv, Receive, Deck
<1>5. ASSUME NEW c \in Conns, HandleJoin(c) \/ SendReply(c) \/ HandleSwipe(c) \/ HandleUndo(c)
      PROVE  PageInv'
  BY <1>5 DEF PageInv, HandleJoin, SendReply, HandleSwipe, HandleUndo, pageVars
<1>6. CASE HostStart \/ BroadcastDeck \/ BroadcastSessionState
  BY <1>6 DEF PageInv, HostStart, BroadcastDeck, BroadcastSessionState, pageVars
<1>7. QED
  BY <1>1, <1>2, <1>3, <1>4, <1>5, <1>6 DEF Next

LEMMA LobbyStep ==
  ASSUME WebClientTypeOK, PageInv, LobbyInv, Next
  PROVE  LobbyInv'
<1> SUFFICES ASSUME phase' = "lobby"
             PROVE  /\ ~dealt' /\ mine' = NoVotes /\ votes' = NoVotes
                    /\ \A c \in Conns : /\ up'[c] \in Seq(Joins)
                                        /\ down'[c] \in Seq(NoVoteStates)
                                        /\ reply'[c] \in Seq(NoVoteStates)
  BY DEF LobbyInv
<1>0. phase = "lobby"
  <2>1. phase' = phase \/ phase' \in {"locked", "dealt", "told"}
    BY DEF Next, Swipe, Undo, Break, Reconnect, Open, Receive, HandleJoin, SendReply, HandleSwipe,
           HandleUndo, HostStart, BroadcastDeck, BroadcastSessionState
  <2>2. QED
    BY <2>1
<1>p. /\ ~dealt /\ undoable = None /\ mine = NoVotes /\ votes = NoVotes
      /\ \A c \in Conns : /\ up[c] \in Seq(Joins)
                          /\ down[c] \in Seq(NoVoteStates)
                          /\ reply[c] \in Seq(NoVoteStates)
  BY <1>0 DEF LobbyInv, PageInv
<1>t. conn \in Conns /\ attached \in Conns
  BY DEF WebClientTypeOK
<1>e. <<>> \in Seq(NoVoteStates)
  BY EmptySeq
<1>1. ASSUME NEW dir \in {"yes", "no"}, Swipe(dir) PROVE FALSE
  BY <1>1, <1>p DEF Swipe
<1>2. CASE Undo
  BY <1>2, <1>p DEF Undo
<1>3. CASE Break
  <2>1. \A n \in 0..Len(up[conn]) : SubSeq(up[conn], 1, n) \in Seq(Joins)
    BY <1>p, <1>t, PrefixOf
  <2>2. /\ \A c \in Conns : c # conn => up'[c] = up[c] /\ down'[c] = down[c]
        /\ down'[conn] = <<>>
        /\ \E n \in 0..Len(up[conn]) : up'[conn] = SubSeq(up[conn], 1, n)
    BY <1>3, BreakCuts
  <2>3. \A c \in Conns : up'[c] \in Seq(Joins) /\ down'[c] \in Seq(NoVoteStates)
    BY <2>1, <2>2, <1>p, <1>e
  <2>4. QED
    BY <1>3, <1>p, <2>3 DEF Break, pageVars, voteVars, joinVars
<1>4. CASE Reconnect
  BY <1>4, <1>p DEF Reconnect, pageVars, voteVars, joinVars
<1>5. CASE Open
  <2>1. \A c \in Conns : up'[c] \in Seq(Joins)
    BY <1>5, <1>p, OpenJoins
  <2>2. QED
    BY <1>5, <1>p, <2>1 DEF Open, pageVars, voteVars, joinVars
<1>6. CASE Receive
  <2>1. down[conn] # <<>>
    BY <1>6 DEF Receive
  <2>2. Head(down[conn]) \in NoVoteStates /\ Tail(down[conn]) \in Seq(NoVoteStates)
    BY <1>p, <1>t, <2>1, HeadAndTailOf
  <2>3. Head(down[conn]).type = "session_state" /\ Head(down[conn]).votes = NoVotes
    BY <2>2 DEF NoVoteStates, States
  <2>4. mine' = NoVotes /\ dealt' = dealt
    BY <1>6, <2>3 DEF Receive
  <2>5. \A c \in Conns : down'[c] \in Seq(NoVoteStates)
    BY <1>6, <1>p, <2>2 DEF Receive, WebClientTypeOK
  <2>6. QED
    BY <1>6, <1>p, <2>4, <2>5 DEF Receive, voteVars, joinVars
<1>7. ASSUME NEW c \in Conns, HandleJoin(c)
      PROVE  /\ ~dealt' /\ mine' = NoVotes /\ votes' = NoVotes
             /\ \A d \in Conns : /\ up'[d] \in Seq(Joins)
                                 /\ down'[d] \in Seq(NoVoteStates)
                                 /\ reply'[d] \in Seq(NoVoteStates)
  <2>1. up[c] # <<>> /\ up'[c] = Tail(up[c]) /\ \A d \in Conns : d # c => up'[d] = up[d]
    BY <1>7, TakesHead DEF HandleJoin
  <2>2. Tail(up[c]) \in Seq(Joins)
    BY <1>p, <2>1, HeadAndTailOf
  <2>3. State(votes, TRUE) \in NoVoteStates
    <3>1. State(votes, TRUE) \in States
      BY MessagesSent DEF WebClientTypeOK
    <3>2. QED
      BY <3>1, <1>p DEF NoVoteStates, State
  <2>4. <<State(votes, TRUE)>> \in Seq(NoVoteStates)
    BY <2>3, ShortSeqs
  <2>5. \A d \in Conns : reply'[d] \in Seq(NoVoteStates)
    BY <1>0, <1>7, <1>p, <2>4 DEF HandleJoin, WebClientTypeOK
  <2>6. QED
    BY <1>7, <1>p, <2>1, <2>2, <2>5 DEF HandleJoin, pageVars
<1>8. ASSUME NEW c \in Conns, SendReply(c)
      PROVE  /\ ~dealt' /\ mine' = NoVotes /\ votes' = NoVotes
             /\ \A d \in Conns : /\ up'[d] \in Seq(Joins)
                                 /\ down'[d] \in Seq(NoVoteStates)
                                 /\ reply'[d] \in Seq(NoVoteStates)
  <2>1. /\ reply[c] # <<>>
        /\ \A d \in Conns : d # c => reply'[d] = reply[d] /\ down'[d] = down[d]
        /\ \/ down'[c] = Append(down[c], Head(reply[c])) /\ reply'[c] = Tail(reply[c])
           \/ down' = down /\ reply'[c] = Torn(Tail(reply[c]))
    BY <1>8, ReplySent
  <2>2. Head(reply[c]) \in NoVoteStates /\ Tail(reply[c]) \in Seq(NoVoteStates)
    BY <1>p, <2>1, HeadAndTailOf
  <2>3. Append(down[c], Head(reply[c])) \in Seq(NoVoteStates)
    BY <1>p, <2>2, AppendedTo
  <2>4. Torn(Tail(reply[c])) \in Seq(NoVoteStates)
    BY <2>2, NotFinal, TornOf
  <2>5. \A d \in Conns : down'[d] \in Seq(NoVoteStates) /\ reply'[d] \in Seq(NoVoteStates)
    BY <1>p, <2>1, <2>2, <2>3, <2>4
  <2>6. UNCHANGED <<pageVars, voteVars, up>>
    BY <1>8 DEF SendReply
  <2>7. QED
    BY <1>p, <2>5, <2>6 DEF pageVars, voteVars
<1>9. ASSUME NEW c \in Conns, HandleSwipe(c) \/ HandleUndo(c)
      PROVE  FALSE
  <2>1. up[c] # <<>> /\ Head(up[c]).type \in {"swipe", "undo"}
    BY <1>9 DEF HandleSwipe, HandleUndo, Takes
  <2>2. Head(up[c]) \in Joins
    BY <1>p, <2>1, HeadAndTailOf
  <2>3. QED
    BY <2>1, <2>2 DEF Joins
<1>10. CASE HostStart \/ BroadcastDeck \/ BroadcastSessionState
  BY <1>10, <1>0 DEF HostStart, BroadcastDeck, BroadcastSessionState
<1>11. QED
  BY <1>1, <1>2, <1>3, <1>4, <1>5, <1>6, <1>7, <1>8, <1>9, <1>10 DEF Next

\* A sequence without joins stays so when its head is taken, or something other than
\* a join is sent.
LEMMA NoJoinBehind ==
  ASSUME NEW sent \in Seq(UpMessages),
         \A i \in 1..Len(sent) : sent[i].type = "join" => i = 1
  PROVE  /\ \A message \in UpMessages : message.type # "join" =>
              \A i \in 1..Len(Append(sent, message)) :
                Append(sent, message)[i].type = "join" => i = 1 /\ sent # <<>> /\ sent[1].type = "join"
         /\ sent # <<>> => \A i \in 1..Len(Tail(sent)) : Tail(sent)[i].type # "join"
         /\ \A n \in 0..Len(sent) : \A i \in 1..Len(SubSeq(sent, 1, n)) :
              SubSeq(sent, 1, n)[i].type = "join" => i = 1 /\ sent # <<>> /\ sent[1].type = "join"
<1>1. ASSUME NEW message \in UpMessages, message.type # "join",
             NEW i \in 1..Len(Append(sent, message)), Append(sent, message)[i].type = "join"
      PROVE  i = 1 /\ sent # <<>> /\ sent[1].type = "join"
  <2>1. /\ Len(sent) \in Nat
        /\ Len(Append(sent, message)) = Len(sent) + 1
        /\ \A j \in 1..Len(sent) : Append(sent, message)[j] = sent[j]
        /\ Append(sent, message)[Len(sent) + 1] = message
    BY AppendedTo
  <2>2. i \in 1..Len(sent)
    BY <1>1, <2>1
  <2>3. QED
    BY <1>1, <2>1, <2>2
<1>2. ASSUME sent # <<>>, NEW i \in 1..Len(Tail(sent))
      PROVE  Tail(sent)[i].type # "join"
  <2>1. /\ Len(sent) \in Nat \ {0}
        /\ Len(Tail(sent)) = Len(sent) - 1
        /\ \A j \in 1..Len(sent) - 1 : Tail(sent)[j] = sent[j + 1]
    BY <1>2, HeadAndTailOf
  <2>2. Tail(sent)[i] = sent[i + 1] /\ i + 1 \in 1..Len(sent) /\ i + 1 # 1
    BY <1>2, <2>1
  <2>3. QED
    BY <2>2
<1>3. ASSUME NEW n \in 0..Len(sent), NEW i \in 1..Len(SubSeq(sent, 1, n)),
             SubSeq(sent, 1, n)[i].type = "join"
      PROVE  i = 1 /\ sent # <<>> /\ sent[1].type = "join"
  <2>1. /\ Len(SubSeq(sent, 1, n)) = n
        /\ \A j \in 1..n : SubSeq(sent, 1, n)[j] = sent[j]
        /\ Len(sent) \in Nat
    BY PrefixOf, LenProperties
  <2>2. sent[i].type = "join" /\ i \in 1..Len(sent)
    BY <1>3, <2>1
  <2>3. QED
    BY <2>2
<1>4. QED
  BY <1>1, <1>2, <1>3

\* The sockets, one by one, for a step that says nothing of which is open or has joined.
SocketOf(c) ==
  /\ c > conn => up[c] = <<>>
  /\ c > newest => reply[c] = <<>> /\ down[c] = <<>>
  /\ \A i \in 1..Len(up[c]) : up[c][i].type = "join" => i = 1 /\ c # newest

LEMMA HarmlessTail ==
  ASSUME NEW S, NEW sent \in Seq(S), sent # <<>>
  PROVE  Tail(sent) \in Seq(S)
BY HeadAndTailOf

LEMMA SocketStep ==
  ASSUME WebClientTypeOK, SocketInv, Next
  PROVE  SocketInv'
<1>0. /\ conn \in Conns /\ newest \in Conns /\ attached \in Conns
      /\ Conns \subseteq Nat /\ Conns = 1..MaxConns /\ MaxConns \in Nat
      /\ \A c \in Conns : up[c] \in Seq(UpMessages)
  BY CardsAssumption DEF WebClientTypeOK, Conns
<1>s. /\ newest <= conn /\ attached <= newest
      /\ socket = "opening" => newest < conn /\ up[conn] = <<>>
      /\ \A c \in Conns : SocketOf(c)
      /\ synced => socket = "open" /\ newest = conn
      /\ socket = "open" /\ ~synced => up[conn] \in Seq(Harmless)
  BY DEF SocketInv, SocketOf
<1>g. SocketInv' <=>
        /\ newest' <= conn' /\ attached' <= newest'
        /\ socket' = "opening" => newest' < conn' /\ up'[conn'] = <<>>
        /\ \A c \in Conns : SocketOf(c)'
        /\ synced' => socket' = "open" /\ newest' = conn'
        /\ socket' = "open" /\ ~synced' => up'[conn'] \in Seq(Harmless)
  BY DEF SocketInv, SocketOf
<1>j. \A c \in Conns :
        /\ \A message \in UpMessages : message.type # "join" =>
             \A i \in 1..Len(Append(up[c], message)) :
               Append(up[c], message)[i].type = "join" => i = 1 /\ up[c] # <<>> /\ up[c][1].type = "join"
        /\ up[c] # <<>> => \A i \in 1..Len(Tail(up[c])) : Tail(up[c])[i].type # "join"
        /\ \A n \in 0..Len(up[c]) : \A i \in 1..Len(SubSeq(up[c], 1, n)) :
             SubSeq(up[c], 1, n)[i].type = "join" => i = 1 /\ up[c] # <<>> /\ up[c][1].type = "join"
  BY <1>0, <1>s, NoJoinBehind DEF SocketOf
<1>k. \A c \in Conns : up[c] # <<>> /\ up[c][1].type = "join" => c # newest
  <2> SUFFICES ASSUME NEW c \in Conns, up[c] # <<>>, up[c][1].type = "join" PROVE c # newest
    OBVIOUS
  <2>1. 1 \in 1..Len(up[c])
    BY <1>0, EmptySeq
  <2>2. QED
    BY <1>s, <2>1 DEF SocketOf
\* A message that is no join, sent on the page's socket.
<1>m. ASSUME NEW message \in UpMessages, message.type # "join", Send(message),
             ~synced => message \in Harmless,
             UNCHANGED <<socket, conn, synced, attached, newest, reply, down>>
      PROVE  SocketInv'
  <2>1. /\ \A c \in Conns : c # conn => up'[c] = up[c]
        /\ socket = "open" => up'[conn] = Append(up[conn], message)
        /\ socket # "open" => up' = up
    BY <1>m, SendAppends
  <2>2. socket = "open" /\ ~synced => Append(up[conn], message) \in Seq(Harmless)
    BY <1>m, <1>s, AppendedTo
  <2>3. ASSUME NEW c \in Conns, c = conn PROVE SocketOf(c)'
    <3>1. SocketOf(c)
      BY <1>s
    <3>2. CASE socket # "open"
      BY <1>m, <2>1, <3>1, <3>2 DEF SocketOf
    <3>3. CASE socket = "open"
      <4>1. \A i \in 1..Len(Append(up[c], message)) :
               Append(up[c], message)[i].type = "join" => i = 1 /\ up[c] # <<>> /\ up[c][1].type = "join"
        BY <1>j, <1>m
      <4>2. up'[c] = Append(up[c], message)
        BY <2>1, <2>3, <3>3
      <4>3. \A i \in 1..Len(up'[c]) : up'[c][i].type = "join" => i = 1 /\ c # newest
        BY <1>k, <4>1, <4>2
      <4>4. QED
        BY <1>0, <1>m, <2>3, <3>1, <4>3 DEF SocketOf
    <3>4. QED
      BY <3>2, <3>3
  <2>4. ASSUME NEW c \in Conns PROVE SocketOf(c)'
    <3>1. CASE c # conn
      <4>1. SocketOf(c) /\ up'[c] = up[c]
        BY <1>s, <2>1, <3>1
      <4>2. QED
        BY <1>m, <4>1 DEF SocketOf
    <3>2. QED
      BY <2>3, <3>1
  <2>5. QED
    BY <1>0, <1>g, <1>m, <1>s, <2>1, <2>2, <2>4
\* A message taken on a socket that has joined.
<1>n. ASSUME NEW c \in Conns, NEW type, type # "join", Takes(c, type),
             UNCHANGED <<socket, conn, synced, attached, newest, reply, down>>
      PROVE  SocketInv'
  <2>1. /\ up[c] # <<>> /\ up'[c] = Tail(up[c])
        /\ \A d \in Conns : d # c => up'[d] = up[d]
    BY <1>n, TakesHead
  <2>2. ASSUME NEW d \in Conns PROVE SocketOf(d)'
    <3>1. SocketOf(d) /\ SocketOf(c)
      BY <1>s
    <3>2. CASE d = c
      <4>1. c <= conn
        BY <1>0, <2>1, <3>1 DEF SocketOf
      <4>2. \A i \in 1..Len(up'[c]) : up'[c][i].type # "join"
        BY <1>j, <2>1
      <4>3. QED
        BY <1>0, <1>n, <3>1, <3>2, <4>1, <4>2 DEF SocketOf
    <3>3. CASE d # c
      BY <1>n, <2>1, <3>1, <3>3 DEF SocketOf
    <3>4. QED
      BY <3>2, <3>3
  <2>3. socket = "open" /\ ~synced => up'[conn] \in Seq(Harmless)
    <3>1. up[conn] \in Seq(Harmless) /\ up[conn] # <<>> => Tail(up[conn]) \in Seq(Harmless)
      BY HarmlessTail
    <3>2. QED
      BY <1>0, <1>s, <2>1, <3>1
  <2>4. QED
    BY <1>0, <1>g, <1>n, <1>s, <2>1, <2>2, <2>3

<1>1. ASSUME NEW dir \in {"yes", "no"}, Swipe(dir) PROVE SocketInv'
  <2>1. index \in Card
    BY <1>1, CardsAssumption DEF Swipe, WebClientTypeOK, Card
  <2>2. PICK message : message = [type |-> "swipe", card |-> index, dir |-> dir]
    OBVIOUS
  <2>3. message \in UpMessages /\ message.type = "swipe"
    BY <2>1, <2>2, MessagesSent
  <2>4. message \in Harmless
    BY <2>3 DEF Harmless, TakesBack
  <2>5. Send(message)
    BY <1>1, <2>2 DEF Swipe
  <2>6. QED
    BY <1>1, <1>m, <2>3, <2>4, <2>5 DEF Swipe, socketVars, joinVars
<1>2. CASE Undo
  <2>1. PICK message : message = [type |-> "undo", early |-> ~synced]
    OBVIOUS
  <2>2. message \in UpMessages /\ message.type = "undo" /\ message.early = ~synced
    BY <2>1, MessagesSent DEF WebClientTypeOK
  <2>3. ~synced => message \in Harmless
    BY <2>2 DEF Harmless, TakesBack
  <2>4. Send(message)
    BY <1>2, <2>1 DEF Undo
  <2>5. QED
    BY <1>2, <1>m, <2>2, <2>3, <2>4 DEF Undo, socketVars, joinVars
<1>3. CASE Break
  <2>1. /\ \A c \in Conns : c # conn => up'[c] = up[c] /\ down'[c] = down[c]
        /\ down'[conn] = <<>>
    BY <1>3, BreakCuts
  <2>2. PICK n \in 0..Len(up[conn]) : up'[conn] = SubSeq(up[conn], 1, n)
    BY <1>3, BreakCuts
  <2>3. UNCHANGED <<conn, attached, newest, reply>> /\ socket' = "closed" /\ ~synced'
    BY <1>3 DEF Break, joinVars
  <2>4. ASSUME NEW c \in Conns PROVE SocketOf(c)'
    <3>1. SocketOf(c)
      BY <1>s
    <3>2. CASE c = conn
      <4>1. \A i \in 1..Len(up'[c]) : up'[c][i].type = "join" => i = 1 /\ c # newest
        BY <1>0, <1>j, <1>k, <2>2, <3>2
      <4>2. QED
        BY <1>0, <2>1, <2>3, <3>1, <3>2, <4>1 DEF SocketOf
    <3>3. CASE c # conn
      BY <2>1, <2>3, <3>1, <3>3 DEF SocketOf
    <3>4. QED
      BY <3>2, <3>3
  <2>5. QED
    BY <1>g, <1>s, <2>3, <2>4
<1>4. CASE Reconnect
  <2>1. /\ conn' = conn + 1 /\ conn' \in Conns /\ socket' = "opening" /\ ~synced'
        /\ UNCHANGED <<attached, newest, reply, up, down>>
    BY <1>0, <1>4, <1>s DEF Reconnect, joinVars
  <2>2. ASSUME NEW c \in Conns PROVE SocketOf(c)'
    <3>1. SocketOf(c)
      BY <1>s
    <3>2. QED
      BY <1>0, <2>1, <3>1 DEF SocketOf
  <2>3. up[conn'] = <<>>
    <3>1. SocketOf(conn')
      BY <1>s, <2>1
    <3>2. QED
      BY <1>0, <2>1, <3>1 DEF SocketOf
  <2>4. QED
    BY <1>0, <1>g, <1>s, <2>1, <2>2, <2>3
<1>5. CASE Open
  <2>1. /\ \A c \in Conns : c # conn => up'[c] = up[c]
        /\ up'[conn] = <<[type |-> "join"]>>
        /\ up'[conn] \in Seq(Joins)
    BY <1>5, OpenJoins
  <2>2. UNCHANGED <<conn, synced, attached, newest, reply, down>> /\ socket = "opening"
    BY <1>5 DEF Open, joinVars
  <2>3. [type |-> "join"] \in Harmless
    BY MessagesSent DEF Harmless, TakesBack
  <2>4. up'[conn] \in Seq(Harmless)
    BY <2>1, <2>3, ShortSeqs
  <2>5. ASSUME NEW c \in Conns PROVE SocketOf(c)'
    <3>1. SocketOf(c)
      BY <1>s
    <3>2. CASE c = conn
      <4>1. Len(<<[type |-> "join"]>>) = 1
        BY <2>3, ShortSeqs
      <4>2. c # newest
        BY <1>0, <1>s, <2>2, <3>2
      <4>3. up'[c] = <<[type |-> "join"]>>
        BY <2>1, <3>2
      <4>4. Len(up'[c]) = 1
        BY <4>1, <4>3
      <4>5. QED
        BY <1>0, <2>2, <3>1, <3>2, <4>2, <4>4 DEF SocketOf
    <3>3. CASE c # conn
      BY <2>1, <2>2, <3>1, <3>3 DEF SocketOf
    <3>4. QED
      BY <3>2, <3>3
  <2>6. ~synced' /\ socket' = "open"
    BY <1>5, <1>s, <2>2 DEF Open
  <2>7. QED
    BY <1>0, <1>g, <1>s, <2>2, <2>4, <2>5, <2>6
<1>6. CASE Receive
  <2>1. /\ UNCHANGED <<socket, conn, attached, newest, reply, up>>
        /\ socket = "open" /\ down[conn] # <<>>
        /\ \A c \in Conns : c # conn => down'[c] = down[c]
        /\ synced => synced'
        /\ synced' \in BOOLEAN
    <3>1. WebClientTypeOK'
      BY TypesStep
    <3>2. QED
      BY <1>0, <1>6, <3>1 DEF Receive, joinVars, WebClientTypeOK
  <2>2. newest = conn
    <3>1. SocketOf(conn)
      BY <1>0, <1>s
    <3>2. QED
      BY <1>0, <1>s, <2>1, <3>1 DEF SocketOf
  <2>3. ASSUME NEW c \in Conns PROVE SocketOf(c)'
    <3>1. SocketOf(c)
      BY <1>s
    <3>2. QED
      BY <1>0, <2>1, <2>2, <3>1 DEF SocketOf
  <2>4. QED
    BY <1>g, <1>s, <2>1, <2>2, <2>3
<1>7. ASSUME NEW c \in Conns, HandleJoin(c) PROVE SocketInv'
  <2>1. /\ up[c] # <<>> /\ up'[c] = Tail(up[c]) /\ Head(up[c]) = up[c][1] /\ Head(up[c]).type = "join"
        /\ \A d \in Conns : d # c => up'[d] = up[d]
    BY <1>7, TakesHead DEF HandleJoin
  <2>2. /\ UNCHANGED <<socket, conn, synced, down>>
        /\ attached' = c /\ newest' = IF c < newest THEN newest ELSE c
        /\ \A d \in Conns : d # c => reply'[d] = reply[d]
    BY <1>7 DEF HandleJoin, socketVars, Late, WebClientTypeOK
  <2>3. c # newest
    BY <1>k, <2>1
  <2>4. c <= conn
    <3>1. SocketOf(c)
      BY <1>s
    <3>2. QED
      BY <1>0, <2>1, <3>1 DEF SocketOf
  <2>5. ASSUME NEW d \in Conns PROVE SocketOf(d)'
    <3>1. SocketOf(d)
      BY <1>s
    <3>2. CASE d = c
      <4>1. \A i \in 1..Len(Tail(up[c])) : Tail(up[c])[i].type # "join"
        BY <1>j, <2>1
      <4>2. \A i \in 1..Len(up'[d]) : up'[d][i].type # "join"
        BY <2>1, <3>2, <4>1
      <4>3. c <= conn' /\ c <= newest'
        BY <1>0, <2>2, <2>4
      <4>4. conn' \in Nat /\ newest' \in Nat
        BY <1>0, <2>2
      <4>5. QED
        BY <1>0, <3>2, <4>2, <4>3, <4>4 DEF SocketOf
    <3>3. CASE d # c
      <4>1. d # newest => d # newest'
        BY <2>2, <3>3
      <4>2. d > newest' => d > newest
        BY <1>0, <2>2
      <4>3. up'[d] = up[d] /\ reply'[d] = reply[d] /\ down'[d] = down[d] /\ conn' = conn
        BY <2>1, <2>2, <3>3
      <4>4. QED
        BY <3>1, <4>1, <4>2, <4>3 DEF SocketOf
    <3>4. QED
      BY <3>2, <3>3
  <2>6. socket = "open" /\ ~synced => up'[conn] \in Seq(Harmless)
    <3>1. up[conn] \in Seq(Harmless) /\ up[conn] # <<>> => Tail(up[conn]) \in Seq(Harmless)
      BY HarmlessTail
    <3>2. QED
      BY <1>0, <1>s, <2>1, <3>1
  <2>7. socket = "opening" => newest' < conn /\ up'[conn] = <<>>
    BY <1>0, <1>s, <2>1, <2>2, <2>4
  <2>8. synced => newest' = conn
    BY <1>0, <1>s, <2>2, <2>4
  <2>9. newest' <= conn /\ attached' <= newest'
    BY <1>0, <1>s, <2>2, <2>4
  <2>10. QED
    BY <1>g, <1>s, <2>2, <2>5, <2>6, <2>7, <2>8, <2>9
<1>8. ASSUME NEW c \in Conns, SendReply(c) PROVE SocketInv'
  <2>1. UNCHANGED <<socket, conn, synced, attached, newest, up>>
    BY <1>8 DEF SendReply, socketVars
  <2>2. /\ reply[c] # <<>>
        /\ \A d \in Conns : d # c => reply'[d] = reply[d] /\ down'[d] = down[d]
    BY <1>8, ReplySent
  <2>3. c <= newest
    <3>1. SocketOf(c)
      BY <1>s
    <3>2. QED
      BY <1>0, <2>2, <3>1 DEF SocketOf
  <2>4. ASSUME NEW d \in Conns PROVE SocketOf(d)'
    <3>1. SocketOf(d)
      BY <1>s
    <3>2. QED
      BY <1>0, <2>1, <2>2, <2>3, <3>1 DEF SocketOf
  <2>5. QED
    BY <1>g, <1>s, <2>1, <2>4
<1>9. ASSUME NEW c \in Conns, HandleSwipe(c) PROVE SocketInv'
  BY <1>9, <1>n DEF HandleSwipe, socketVars, joinVars
<1>10. ASSUME NEW c \in Conns, HandleUndo(c) PROVE SocketInv'
  BY <1>10, <1>n DEF HandleUndo, socketVars, joinVars
<1>11. CASE HostStart
  BY <1>11 DEF HostStart, SocketInv, socketVars, joinVars
<1>12. CASE BroadcastDeck \/ BroadcastSessionState
  <2>1. UNCHANGED <<socket, conn, synced, attached, newest, reply, up>>
    BY <1>12 DEF BroadcastDeck, BroadcastSessionState, socketVars, joinVars
  <2>2. \A d \in Conns : d # attached => down'[d] = down[d]
    <3>1. DeckOf(FALSE) \in DownMessages /\ State(NoVotes, FALSE) \in DownMessages
      BY MessagesSent
    <3>2. TrySend(attached, DeckOf(FALSE)) \/ TrySend(attached, State(NoVotes, FALSE))
      BY <1>12 DEF BroadcastDeck, BroadcastSessionState
    <3>3. QED
      BY <1>0, <3>1, <3>2, DeliverAppends
  <2>3. ASSUME NEW d \in Conns PROVE SocketOf(d)'
    <3>1. SocketOf(d)
      BY <1>s
    <3>2. QED
      BY <1>0, <1>s, <2>1, <2>2, <3>1 DEF SocketOf
  <2>4. QED
    BY <1>g, <1>s, <2>1, <2>3
<1>13. QED
  BY <1>1, <1>2, <1>3, <1>4, <1>5, <1>6, <1>7, <1>8, <1>9, <1>10, <1>11, <1>12 DEF Next

\* A socket is live until it breaks, from the moment the server takes its join.
LEMMA LiveSince ==
  ASSUME WebClientTypeOK, SocketInv, Next, Live'
  PROVE  /\ conn' = conn /\ socket = "open"
         /\ (Live /\ newest' = newest) \/ HandleJoin(conn)
<1>0. /\ conn \in Conns /\ newest \in Conns /\ newest <= conn /\ Conns \subseteq Nat
      /\ socket = "opening" => newest < conn
  BY DEF WebClientTypeOK, SocketInv, Conns
<1>l. socket' = "open" /\ newest' = conn'
  BY DEF Live
<1>1. ASSUME NEW dir \in {"yes", "no"}, Swipe(dir)
      PROVE  UNCHANGED <<socket, conn, newest>>
  BY <1>1 DEF Swipe, socketVars, joinVars
<1>2. CASE Undo \/ Receive
  BY <1>2, <1>l DEF Undo, Receive, socketVars, joinVars, Live
<1>3. CASE Break \/ Reconnect
  BY <1>3, <1>l DEF Break, Reconnect
<1>4. CASE Open
  BY <1>4, <1>0, <1>l DEF Open, joinVars
<1>5. ASSUME NEW c \in Conns, HandleJoin(c)
      PROVE  /\ conn' = conn /\ socket = "open"
             /\ (Live /\ newest' = newest) \/ HandleJoin(conn)
  <2>1. UNCHANGED <<socket, conn>> /\ newest' = IF c < newest THEN newest ELSE c
    BY <1>5 DEF HandleJoin, socketVars, Late
  <2>2. newest' = newest \/ c = conn
    BY <2>1, <1>l
  <2>3. QED
    BY <1>5, <1>l, <2>1, <2>2 DEF Live
<1>6. ASSUME NEW c \in Conns, SendReply(c) \/ HandleSwipe(c) \/ HandleUndo(c)
      PROVE  UNCHANGED <<socket, conn, newest>>
  BY <1>6 DEF SendReply, HandleSwipe, HandleUndo, socketVars, joinVars
<1>7. CASE HostStart \/ BroadcastDeck \/ BroadcastSessionState
  BY <1>7, <1>l DEF HostStart, BroadcastDeck, BroadcastSessionState, socketVars, joinVars, Live
<1>8. QED
  BY <1>1, <1>2, <1>3, <1>4, <1>5, <1>6, <1>7, <1>l DEF Next, Live

\* When its join is taken nothing has been said to the page's socket.
LEMMA JoinTaken ==
  ASSUME WebClientTypeOK, SocketInv, HandleJoin(conn)
  PROVE  /\ conn \in Conns /\ newest < conn /\ ~synced /\ ~Live
         /\ reply[conn] = <<>> /\ down[conn] = <<>> /\ down'[conn] = <<>>
         /\ up[conn] # <<>> /\ up'[conn] = Tail(up[conn])
         /\ reply'[conn] = IF phase = "lobby" THEN <<State(votes, TRUE)>>
                           ELSE <<State(votes, FALSE), DeckOf(TRUE)>>
         /\ UNCHANGED <<pageVars, socketVars, votes, last, phase, down>>
         /\ crossed' = FALSE
<1>0. /\ conn \in Conns /\ newest \in Conns /\ newest <= conn /\ Conns \subseteq Nat
      /\ reply \in [Conns -> Seq(DownMessages)]
      /\ crossed \in BOOLEAN
  BY DEF WebClientTypeOK, SocketInv, Conns
<1>1. /\ up[conn] # <<>> /\ up[conn] \in Seq(UpMessages) /\ up[conn][1].type = "join"
      /\ up'[conn] = Tail(up[conn]) /\ reply[conn] = <<>>
  BY <1>0, TakesHead DEF HandleJoin
<1>2. 1 \in 1..Len(up[conn])
  BY <1>1, EmptySeq
<1>3. conn # newest
  BY <1>0, <1>1, <1>2 DEF SocketInv
<1>4. newest < conn
  BY <1>0, <1>3
<1>5. down[conn] = <<>> /\ ~synced
  BY <1>0, <1>4 DEF SocketInv
<1>6. ~Late(conn) /\ ~Live
  BY <1>0, <1>4 DEF Late, Live
<1>7. QED
  BY <1>0, <1>1, <1>4, <1>5, <1>6 DEF HandleJoin

----------------------------------------------------------------------------
(***************************************************************************)
(* The answer to a join, as it is sent and read.                           *)
(***************************************************************************)

LEMMA ToldOfAppended ==
  ASSUME NEW answer, NEW sent \in Seq(DownMessages), NEW message \in DownMessages
  PROVE  Told(answer, Append(sent, message)) <=> Told(answer, sent) \/ FinalState(message)
<1> DEFINE more == Append(sent, message)
<1>1. /\ Len(sent) \in Nat
      /\ Len(more) = Len(sent) + 1
      /\ \A i \in 1..Len(sent) : more[i] = sent[i]
      /\ more[Len(sent) + 1] = message
  BY AppendedTo
<1> HIDE DEF more
<1>2. (\E i \in 1..Len(more) : FinalState(more[i])) <=>
        (\E i \in 1..Len(sent) : FinalState(sent[i])) \/ FinalState(message)
  <2>1. ASSUME NEW i \in 1..Len(more), FinalState(more[i])
        PROVE  (\E j \in 1..Len(sent) : FinalState(sent[j])) \/ FinalState(message)
    <3>1. i \in 1..Len(sent) \/ i = Len(sent) + 1
      BY <1>1
    <3>2. QED
      BY <1>1, <2>1, <3>1
  <2>2. ASSUME NEW i \in 1..Len(sent), FinalState(sent[i])
        PROVE  \E j \in 1..Len(more) : FinalState(more[j])
    <3>1. i \in 1..Len(more)
      BY <1>1
    <3>2. QED
      BY <1>1, <2>2, <3>1
  <2>3. ASSUME FinalState(message)
        PROVE  \E j \in 1..Len(more) : FinalState(more[j])
    <3>1. Len(sent) + 1 \in 1..Len(more)
      BY <1>1
    <3>2. QED
      BY <1>1, <2>3, <3>1
  <2>4. QED
    BY <2>1, <2>2, <2>3
<1>3. QED
  BY <1>2 DEF Told, more

LEMMA FinalInTail ==
  ASSUME NEW sent \in Seq(DownMessages), sent # <<>>
  PROVE  (\E i \in 1..Len(sent) : FinalState(sent[i])) <=>
           FinalState(Head(sent)) \/ \E i \in 1..Len(Tail(sent)) : FinalState(Tail(sent)[i])
<1> DEFINE rest == Tail(sent)
<1>1. /\ Head(sent) = sent[1]
      /\ Len(sent) \in Nat \ {0}
      /\ Len(rest) = Len(sent) - 1
      /\ \A i \in 1..Len(sent) - 1 : rest[i] = sent[i + 1]
  BY HeadAndTailOf
<1> HIDE DEF rest
<1>2. ASSUME NEW i \in 1..Len(sent), FinalState(sent[i])
      PROVE  FinalState(sent[1]) \/ \E j \in 1..Len(rest) : FinalState(rest[j])
  <2>1. i # 1 => i - 1 \in 1..Len(rest) /\ rest[i - 1] = sent[i]
    BY <1>1
  <2>2. QED
    BY <1>2, <2>1
<1>3. ASSUME NEW j \in 1..Len(rest), FinalState(rest[j])
      PROVE  \E i \in 1..Len(sent) : FinalState(sent[i])
  <2>1. j + 1 \in 1..Len(sent) /\ rest[j] = sent[j + 1]
    BY <1>1
  <2>2. QED
    BY <1>3, <2>1
<1>4. 1 \in 1..Len(sent)
  BY <1>1
<1>5. QED
  BY <1>1, <1>2, <1>3, <1>4 DEF rest

\* The head of the answer goes out: nothing else is told than was going to be.
LEMMA AnswerSent ==
  ASSUME NEW answer \in Seq(DownMessages), answer # <<>>, NEW sent \in Seq(DownMessages),
         NEW heard \in BOOLEAN,
         AnswerShape(answer), AnswerOrder(answer, sent, heard)
  PROVE  /\ AnswerShape(Tail(answer))
         /\ AnswerOrder(Tail(answer), Append(sent, Head(answer)), heard)
         /\ Told(Tail(answer), Append(sent, Head(answer))) <=> Told(answer, sent)
<1> DEFINE rest == Tail(answer)
           message == Head(answer)
           more == Append(sent, message)
<1>1. /\ message = answer[1] /\ message \in DownMessages
      /\ rest \in Seq(DownMessages)
      /\ Len(answer) \in Nat \ {0}
      /\ Len(rest) = Len(answer) - 1
      /\ \A i \in 1..Len(answer) - 1 : rest[i] = answer[i + 1]
      /\ rest = <<>> <=> Len(answer) = 1
  BY HeadAndTailOf
<1>2. /\ Len(sent) \in Nat
      /\ Len(more) = Len(sent) + 1
      /\ \A i \in 1..Len(sent) : more[i] = sent[i]
      /\ more[Len(sent) + 1] = message
  BY <1>1, AppendedTo
<1>3. Told(rest, more) <=> Told(answer, sent)
  <2>1. Told(rest, more) <=> Told(rest, sent) \/ FinalState(message)
    BY <1>1, ToldOfAppended
  <2>2. (\E i \in 1..Len(answer) : FinalState(answer[i])) <=>
          FinalState(message) \/ \E i \in 1..Len(rest) : FinalState(rest[i])
    BY FinalInTail
  <2> HIDE DEF rest, message, more
  <2>3. QED
    BY <2>1, <2>2 DEF Told
<1>4. ~heard /\ \A j \in 1..Len(sent) : ~sent[j].final
  BY DEF AnswerOrder
<1>5. Told(answer, sent) => rest \in Seq(Blanks) /\ more \in Seq(Blanks)
  <2> SUFFICES ASSUME Told(answer, sent) PROVE rest \in Seq(Blanks) /\ more \in Seq(Blanks)
    OBVIOUS
  <2>1. answer \in Seq(Blanks) /\ sent \in Seq(Blanks)
    BY DEF AnswerOrder
  <2>2. rest \in Seq(Blanks) /\ message \in Blanks
    BY <2>1, HeadAndTailOf
  <2>3. QED
    BY <2>1, <2>2, AppendedTo
<1> HIDE DEF rest, message, more
<1>6. AnswerShape(rest)
  <2>1. CASE Len(answer) = 1
    BY <1>1, <2>1 DEF AnswerShape
  <2>2. CASE Len(answer) # 1
    <3>1. Len(answer) = 2 /\ FinalDeck(answer[2])
      BY <1>1, <2>2 DEF AnswerShape
    <3>2. Len(rest) = 1 /\ rest[1] = answer[2]
      BY <1>1, <3>1
    <3>3. QED
      BY <3>1, <3>2 DEF AnswerShape, FinalDeck
  <2>3. QED
    BY <2>1, <2>2
<1>7. ASSUME NEW j \in 1..Len(more), more[j].final
      PROVE  rest = <<>> /\ \A i \in 1..Len(more) : i > j => more[i] \in Blanks
  <2>1. j = Len(sent) + 1
    BY <1>2, <1>4, <1>7
  <2>2. answer[1].final
    BY <1>1, <1>2, <1>7, <2>1
  <2>3. Len(answer) = 1
    BY <1>1, <2>2 DEF AnswerShape
  <2>4. QED
    BY <1>1, <1>2, <2>1, <2>3
<1>8. AnswerOrder(rest, more, heard)
  BY <1>3, <1>4, <1>5, <1>7 DEF AnswerOrder
<1>9. QED
  BY <1>3, <1>6, <1>8 DEF rest, message, more

\* The head of the answer is dropped: what is left does not end a whole answer.
LEMMA AnswerTorn ==
  ASSUME NEW answer \in Seq(DownMessages), answer # <<>>, NEW sent \in Seq(DownMessages),
         NEW heard \in BOOLEAN,
         AnswerShape(answer), AnswerOrder(answer, sent, heard)
  PROVE  /\ AnswerShape(Torn(Tail(answer)))
         /\ AnswerOrder(Torn(Tail(answer)), sent, heard)
         /\ ~heard /\ ~Told(Torn(Tail(answer)), sent)
         /\ \A i \in 1..Len(Torn(Tail(answer))) : ~Torn(Tail(answer))[i].final
<1> DEFINE rest == Tail(answer)
           torn == Torn(rest)
<1>1. /\ answer[1] \in DownMessages
      /\ rest \in Seq(DownMessages)
      /\ Len(answer) \in Nat \ {0}
      /\ Len(rest) = Len(answer) - 1
      /\ \A i \in 1..Len(answer) - 1 : rest[i] = answer[i + 1]
  BY HeadAndTailOf
<1>2. /\ torn \in Seq(DownMessages) /\ Len(torn) = Len(rest)
      /\ \A i \in 1..Len(rest) : torn[i] = [rest[i] EXCEPT !.final = FALSE]
  BY <1>1, NotFinal, TornOf
<1>3. \A i \in 1..Len(rest) : rest[i] \in DownMessages
  BY <1>1, ElementOfSeq
<1>4. \A i \in 1..Len(rest) : ~torn[i].final /\ torn[i].type = rest[i].type
  BY <1>2, <1>3, NotFinal
<1>5. torn = <<>> <=> Len(torn) = 0
  BY <1>2, EmptySeq
<1> HIDE DEF rest, torn
<1>6. AnswerShape(torn)
  <2>1. CASE Len(answer) = 1
    BY <1>1, <1>2, <1>5, <2>1 DEF AnswerShape
  <2>2. CASE Len(answer) # 1
    <3>1. Len(answer) = 2 /\ IsDeck(answer[2])
      BY <1>1, <2>2, EmptySeq DEF AnswerShape, FinalDeck
    <3>2. Len(torn) = 1 /\ torn[1].type = answer[2].type
      BY <1>1, <1>2, <1>4, <3>1
    <3>3. QED
      BY <3>1, <3>2 DEF AnswerShape, IsDeck
  <2>3. QED
    BY <2>1, <2>2
<1>7. ~heard /\ \A j \in 1..Len(sent) : ~sent[j].final
  BY DEF AnswerOrder
<1>8. ~Told(torn, sent)
  BY <1>2, <1>4, <1>7 DEF Told, FinalState
<1>9. AnswerOrder(torn, sent, heard)
  BY <1>7, <1>8 DEF AnswerOrder
<1>10. QED
  BY <1>2, <1>4, <1>6, <1>7, <1>8, <1>9 DEF torn, rest

\* The page reads the head of what it was sent.
LEMMA AnswerRead ==
  ASSUME NEW answer \in Seq(DownMessages), NEW sent \in Seq(DownMessages), sent # <<>>,
         NEW heard \in BOOLEAN,
         AnswerOrder(answer, sent, heard)
  PROVE  /\ AnswerOrder(answer, Tail(sent), heard \/ Head(sent).final)
         /\ Told(answer, sent) <=> FinalState(Head(sent)) \/ Told(answer, Tail(sent))
<1> DEFINE rest == Tail(sent)
           message == Head(sent)
<1>1. /\ message = sent[1] /\ message \in DownMessages
      /\ rest \in Seq(DownMessages)
      /\ Len(sent) \in Nat \ {0}
      /\ Len(rest) = Len(sent) - 1
      /\ \A i \in 1..Len(sent) - 1 : rest[i] = sent[i + 1]
  BY HeadAndTailOf
<1>2. Told(answer, sent) <=> FinalState(message) \/ Told(answer, rest)
  BY FinalInTail DEF Told
<1>3. sent \in Seq(Blanks) => rest \in Seq(Blanks)
  BY HeadAndTailOf
<1> HIDE DEF rest, message
<1>4. message.final => answer = <<>> /\ rest \in Seq(Blanks)
  <2> SUFFICES ASSUME message.final PROVE answer = <<>> /\ rest \in Seq(Blanks)
    OBVIOUS
  <2>1. 1 \in 1..Len(sent) /\ sent[1].final
    BY <1>1
  <2>2. answer = <<>> /\ \A i \in 1..Len(sent) : i > 1 => sent[i] \in Blanks
    BY <2>1 DEF AnswerOrder
  <2>3. \A i \in 1..Len(rest) : rest[i] \in Blanks
    BY <1>1, <2>2
  <2>4. QED
    BY <1>1, <2>2, <2>3, EarlierSeq
<1>5. ASSUME NEW j \in 1..Len(rest), rest[j].final
      PROVE  answer = <<>> /\ \A i \in 1..Len(rest) : i > j => rest[i] \in Blanks
  <2>1. j + 1 \in 1..Len(sent) /\ sent[j + 1].final
    BY <1>1, <1>5
  <2>2. answer = <<>> /\ \A i \in 1..Len(sent) : i > j + 1 => sent[i] \in Blanks
    BY <2>1 DEF AnswerOrder
  <2>3. \A i \in 1..Len(rest) : i > j => i + 1 \in 1..Len(sent) /\ i + 1 > j + 1 /\ rest[i] = sent[i + 1]
    BY <1>1
  <2>4. QED
    BY <2>2, <2>3
<1>6. AnswerOrder(answer, rest, heard \/ message.final)
  BY <1>2, <1>3, <1>4, <1>5 DEF AnswerOrder
<1>7. QED
  BY <1>2, <1>6 DEF rest, message

\* The broadcasts of the start tell of no vote, and are not the last of an answer.
LEMMA AnswerPassed ==
  ASSUME NEW answer \in Seq(DownMessages), NEW sent \in Seq(DownMessages),
         NEW heard \in BOOLEAN, NEW message \in Blanks, ~message.final,
         AnswerOrder(answer, sent, heard)
  PROVE  /\ AnswerOrder(answer, Append(sent, message), heard)
         /\ Told(answer, Append(sent, message)) <=> Told(answer, sent)
<1> DEFINE more == Append(sent, message)
<1>0. message \in DownMessages
  BY DEF Blanks, NoVoteStates, DownMessages
<1>1. /\ Len(sent) \in Nat
      /\ Len(more) = Len(sent) + 1
      /\ \A i \in 1..Len(sent) : more[i] = sent[i]
      /\ more[Len(sent) + 1] = message
  BY <1>0, AppendedTo
<1>2. Told(answer, more) <=> Told(answer, sent)
  BY <1>0, ToldOfAppended DEF FinalState
<1>3. sent \in Seq(Blanks) => more \in Seq(Blanks)
  BY AppendedTo
<1> HIDE DEF more
<1>4. ASSUME NEW j \in 1..Len(more), more[j].final
      PROVE  answer = <<>> /\ \A i \in 1..Len(more) : i > j => more[i] \in Blanks
  <2>1. j \in 1..Len(sent) /\ sent[j].final
    BY <1>1, <1>4
  <2>2. answer = <<>> /\ \A i \in 1..Len(sent) : i > j => sent[i] \in Blanks
    BY <2>1 DEF AnswerOrder
  <2>3. QED
    BY <1>1, <2>2
<1>5. AnswerOrder(answer, more, heard)
  BY <1>2, <1>3, <1>4 DEF AnswerOrder
<1>6. QED
  BY <1>2, <1>5 DEF more

LEMMA AnswerStart == Init => AnswerInv
<1> SUFFICES ASSUME Init PROVE AnswerInv
  OBVIOUS
<1>1. conn \in Conns /\ reply[conn] = <<>> /\ down[conn] = <<>>
  BY CardsAssumption DEF Init, Conns
<1>2. <<>> \in Seq(Blanks) /\ Len(<<>>) = 0
  BY EmptySeq
<1>3. QED
  BY <1>1, <1>2 DEF AnswerInv, AnswerShape, AnswerOrder, Told

LEMMA AnswerStep ==
  ASSUME WebClientTypeOK, LobbyInv, SocketInv, AnswerInv, Next
  PROVE  AnswerInv'
<1> SUFFICES ASSUME Live'
             PROVE  AnswerShape(reply'[conn']) /\ AnswerOrder(reply'[conn'], down'[conn'], synced')
  BY DEF AnswerInv
<1>l. /\ conn' = conn /\ socket = "open"
      /\ (Live /\ newest' = newest) \/ HandleJoin(conn)
  BY LiveSince
<1>t. /\ conn \in Conns /\ attached \in Conns /\ synced \in BOOLEAN
      /\ reply[conn] \in Seq(DownMessages) /\ down[conn] \in Seq(DownMessages)
  BY DEF WebClientTypeOK
<1> DEFINE Goal == AnswerShape(reply'[conn]) /\ AnswerOrder(reply'[conn], down'[conn], synced')
<1>g. SUFFICES Goal
  BY <1>l
\* A step that leaves the page's answer alone.
<1>u. ASSUME ~HandleJoin(conn), reply'[conn] = reply[conn], down'[conn] = down[conn], synced' = synced
      PROVE  Goal
  <2>1. AnswerShape(reply[conn]) /\ AnswerOrder(reply[conn], down[conn], synced)
    BY <1>l, <1>u DEF AnswerInv
  <2>2. QED
    BY <1>u, <2>1
<1>j. ASSUME HandleJoin(conn) PROVE Goal
  <2>1. /\ down'[conn] = <<>> /\ ~synced /\ synced' = synced
        /\ reply'[conn] = IF phase = "lobby" THEN <<State(votes, TRUE)>>
                          ELSE <<State(votes, FALSE), DeckOf(TRUE)>>
    BY <1>j, JoinTaken DEF socketVars
  <2>2. /\ State(votes, TRUE) \in DownMessages /\ State(votes, FALSE) \in DownMessages
        /\ DeckOf(TRUE) \in DownMessages /\ State(votes, TRUE) \in States
    BY MessagesSent DEF WebClientTypeOK
  <2>3. PICK nothing : nothing = <<>>
    OBVIOUS
  <2>n. nothing \in Seq(Blanks) /\ 1..Len(nothing) = {}
    BY <2>3, EmptySeq
  <2>4. CASE phase = "lobby"
    <3>1. State(votes, TRUE) \in Blanks
      BY <2>2, <2>4 DEF LobbyInv, Blanks, NoVoteStates, State
    <3>2. PICK answer : answer = <<State(votes, TRUE)>>
      OBVIOUS
    <3>3. answer \in Seq(Blanks) /\ Len(answer) = 1 /\ answer[1] = State(votes, TRUE)
      BY <3>1, <3>2, ShortSeqs
    <3>4. State(votes, TRUE).final
      BY DEF State
    <3>5. AnswerShape(answer) /\ AnswerOrder(answer, nothing, synced)
      BY <2>1, <2>n, <3>3, <3>4 DEF AnswerShape, AnswerOrder
    <3>6. QED
      BY <2>1, <2>3, <2>4, <3>2, <3>5
  <2>5. CASE phase # "lobby"
    <3>1. PICK answer : answer = <<State(votes, FALSE), DeckOf(TRUE)>>
      OBVIOUS
    <3>2. Len(answer) = 2 /\ answer[1] = State(votes, FALSE) /\ answer[2] = DeckOf(TRUE)
      BY <2>2, <3>1, ShortSeqs
    <3>3. IsState(answer[1]) /\ ~answer[1].final /\ FinalDeck(answer[2]) /\ ~FinalState(answer[2])
      BY <3>2 DEF State, DeckOf, IsState, FinalDeck, IsDeck, FinalState
    <3>4. ~Told(answer, nothing)
      <4>1. \A i \in 1..Len(answer) : i = 1 \/ i = 2
        BY <3>2
      <4>2. ~FinalState(answer[1])
        BY <3>3 DEF FinalState
      <4>3. QED
        BY <2>n, <3>3, <4>1, <4>2 DEF Told
    <3>5. AnswerShape(answer) /\ AnswerOrder(answer, nothing, synced)
      BY <2>1, <2>n, <3>2, <3>3, <3>4 DEF AnswerShape, AnswerOrder
    <3>6. QED
      BY <2>1, <2>3, <2>5, <3>1, <3>5
  <2>6. QED
    BY <2>4, <2>5
<1>1. ASSUME NEW dir \in {"yes", "no"}, Swipe(dir), ~HandleJoin(conn) PROVE Goal
  BY <1>1, <1>u DEF Swipe, socketVars, joinVars
<1>2. CASE Undo /\ ~HandleJoin(conn)
  BY <1>2, <1>u DEF Undo, socketVars, joinVars
<1>3. CASE Break \/ Reconnect \/ Open
  <2>1. ~Live' \/ Open
    BY <1>3 DEF Break, Reconnect, Live
  <2>2. socket = "opening"
    BY <2>1 DEF Open
  <2>3. QED
    BY <1>l, <2>2
<1>6. CASE Receive /\ ~HandleJoin(conn)
  <2>1. /\ down[conn] # <<>> /\ down'[conn] = Tail(down[conn]) /\ reply' = reply
        /\ synced' = (synced \/ Head(down[conn]).final)
    BY <1>6 DEF Receive, joinVars, WebClientTypeOK
  <2>2. AnswerShape(reply[conn]) /\ AnswerOrder(reply[conn], down[conn], synced)
    BY <1>6, <1>l DEF AnswerInv
  <2>3. AnswerOrder(reply[conn], Tail(down[conn]), synced \/ Head(down[conn]).final)
    BY <1>t, <2>1, <2>2, AnswerRead
  <2>4. QED
    BY <2>1, <2>2, <2>3
<1>7. ASSUME NEW c \in Conns, HandleJoin(c), ~HandleJoin(conn) PROVE Goal
  <2>1. c # conn
    BY <1>7
  <2>2. reply'[conn] = reply[conn] /\ down' = down /\ synced' = synced
    BY <1>7, <1>t, <2>1 DEF HandleJoin, socketVars, WebClientTypeOK
  <2>3. QED
    BY <1>7, <1>u, <2>2
<1>8. ASSUME NEW c \in Conns, SendReply(c), ~HandleJoin(conn) PROVE Goal
  <2>0. AnswerShape(reply[conn]) /\ AnswerOrder(reply[conn], down[conn], synced)
    BY <1>8, <1>l DEF AnswerInv
  <2>1. synced' = synced
    BY <1>8 DEF SendReply, socketVars
  <2>2. /\ reply[c] # <<>>
        /\ \A d \in Conns : d # c => reply'[d] = reply[d] /\ down'[d] = down[d]
        /\ \/ down'[c] = Append(down[c], Head(reply[c])) /\ reply'[c] = Tail(reply[c])
           \/ down' = down /\ reply'[c] = Torn(Tail(reply[c]))
    BY <1>8, ReplySent
  <2>3. CASE c = conn
    <3>1. /\ AnswerShape(Tail(reply[conn]))
          /\ AnswerOrder(Tail(reply[conn]), Append(down[conn], Head(reply[conn])), synced)
      BY <1>t, <2>0, <2>2, <2>3, AnswerSent
    <3>2. /\ AnswerShape(Torn(Tail(reply[conn])))
          /\ AnswerOrder(Torn(Tail(reply[conn])), down[conn], synced)
      BY <1>t, <2>0, <2>2, <2>3, AnswerTorn
    <3>3. QED
      BY <2>1, <2>2, <2>3, <3>1, <3>2
  <2>4. CASE c # conn
    <3>1. reply'[conn] = reply[conn] /\ down'[conn] = down[conn]
      BY <1>t, <2>2, <2>4
    <3>2. QED
      BY <1>8, <1>u, <2>1, <3>1
  <2>5. QED
    BY <2>3, <2>4
<1>9. ASSUME NEW c \in Conns, HandleSwipe(c) \/ HandleUndo(c), ~HandleJoin(conn) PROVE Goal
  BY <1>9, <1>u DEF HandleSwipe, HandleUndo, socketVars, joinVars
<1>10. CASE HostStart /\ ~HandleJoin(conn)
  BY <1>10, <1>u DEF HostStart, socketVars, joinVars
<1>11. CASE (BroadcastDeck \/ BroadcastSessionState) /\ ~HandleJoin(conn)
  <2>0. AnswerShape(reply[conn]) /\ AnswerOrder(reply[conn], down[conn], synced)
    BY <1>11, <1>l DEF AnswerInv
  <2>1. UNCHANGED <<reply, synced>>
    BY <1>11 DEF BroadcastDeck, BroadcastSessionState, socketVars, joinVars
  <2>2. PICK message : /\ message = DeckOf(FALSE) \/ message = State(NoVotes, FALSE)
                       /\ TrySend(attached, message)
    BY <1>11 DEF BroadcastDeck, BroadcastSessionState
  <2>3. /\ message \in Blanks /\ message \in DownMessages
        /\ ~message.final
    <3>1. DeckOf(FALSE) \in Decks /\ State(NoVotes, FALSE) \in States
      BY MessagesSent
    <3>2. ~DeckOf(FALSE).final /\ ~State(NoVotes, FALSE).final /\ State(NoVotes, FALSE).votes = NoVotes
      BY DEF DeckOf, State
    <3>3. QED
      BY <2>2, <3>1, <3>2 DEF Blanks, NoVoteStates, DownMessages
  <2>4. down'[conn] = Append(down[conn], message) \/ down'[conn] = down[conn]
    BY <1>t, <2>2, <2>3, DeliverAppends
  <2>5. AnswerOrder(reply[conn], Append(down[conn], message), synced)
    BY <1>t, <2>0, <2>3, AnswerPassed
  <2>6. QED
    BY <2>0, <2>1, <2>4, <2>5
<1>12. QED
  BY <1>1, <1>2, <1>3, <1>6, <1>7, <1>8, <1>9, <1>10, <1>11, <1>j DEF Next

----------------------------------------------------------------------------
(***************************************************************************)
(* The votes are kept.                                                     *)
(***************************************************************************)

LEMMA LastOfAppended ==
  ASSUME NEW sent \in Seq(UpMessages), NEW message \in UpMessages, NEW card, NEW theLast
  PROVE  LastIs(card, Append(sent, message), theLast) <=> Swiped(message, card)
<1> DEFINE more == Append(sent, message)
<1>1. more # <<>> /\ Len(more) = Len(sent) + 1 /\ more[Len(sent) + 1] = message
  BY AppendedTo
<1> HIDE DEF more
<1>2. LastIs(card, more, theLast) <=> Swiped(message, card)
  BY <1>1 DEF LastIs
<1>3. QED
  BY <1>2 DEF more

LEMMA LastOfTail ==
  ASSUME NEW sent \in Seq(UpMessages), sent # <<>>, NEW card, NEW theLast, NEW nowLast,
         LastIs(card, sent, theLast),
         Swiped(Head(sent), card) => nowLast = card
  PROVE  LastIs(card, Tail(sent), nowLast)
<1> DEFINE rest == Tail(sent)
<1>1. /\ Head(sent) = sent[1]
      /\ Len(sent) \in Nat \ {0}
      /\ Len(rest) = Len(sent) - 1
      /\ \A i \in 1..Len(sent) - 1 : rest[i] = sent[i + 1]
      /\ rest = <<>> <=> Len(sent) = 1
  BY HeadAndTailOf
<1> HIDE DEF rest
<1>2. Swiped(sent[Len(sent)], card)
  BY DEF LastIs
<1>3. CASE rest = <<>>
  BY <1>1, <1>2, <1>3 DEF LastIs, rest
<1>4. CASE rest # <<>>
  <2>1. Len(sent) - 1 \in 1..Len(sent) - 1 /\ Len(rest) = Len(sent) - 1
    BY <1>1, <1>4
  <2>2. rest[Len(rest)] = sent[Len(sent)]
    BY <1>1, <2>1
  <2>3. LastIs(card, rest, nowLast)
    BY <1>2, <1>4, <2>2 DEF LastIs
  <2>4. QED
    BY <2>3 DEF rest
<1>5. QED
  BY <1>3, <1>4

LEMMA KeepStart == WebClientTypeOK /\ Init => KeepInv
<1> SUFFICES ASSUME WebClientTypeOK, Init PROVE KeepInv
  OBVIOUS
<1>1. conn \in Conns /\ reply[conn] = <<>> /\ down[conn] = <<>>
  BY CardsAssumption DEF Init, Conns
<1>2. PICK nothing : nothing = <<>>
  OBVIOUS
<1>3. 1..Len(nothing) = {} /\ Len(nothing) = 0 /\ \A S : nothing \in Seq(S)
  BY <1>2, EmptySeq
<1>4. AnswerKept
  BY <1>1, <1>2, <1>3 DEF AnswerKept
<1>5. MineKept /\ UndoesTheLast
  BY DEF Init, MineKept, UndoesTheLast, NoVotes
<1>6. PassedKept
  BY CardsAssumption DEF Init, PassedKept, Card
<1>7. VotesBeforeDeck
  BY <1>1, <1>2, <1>3 DEF VotesBeforeDeck
<1>8. QED
  BY <1>4, <1>5, <1>6, <1>7 DEF KeepInv, AllKept

KeepNow ==
  /\ AnswerKept /\ VotesBeforeDeck
  /\ synced \/ Told(reply[conn], down[conn]) => AllKept

\* A step that leaves the page's answer alone and keeps what is kept.
LEMMA KeptCarried ==
  ASSUME KeepNow, UNCHANGED <<conn, synced>>,
         reply'[conn] = reply[conn], down'[conn] = down[conn],
         \A card \in Card : Kept(card) => Kept(card)',
         MineKept => MineKept', AllKept => AllKept'
  PROVE  KeepNow'
<1>1. AnswerKept'
  BY DEF KeepNow, AnswerKept
<1>2. VotesBeforeDeck'
  BY DEF KeepNow, VotesBeforeDeck
<1>3. synced' \/ Told(reply'[conn'], down'[conn']) => AllKept'
  BY DEF KeepNow
<1>4. QED
  BY <1>1, <1>2, <1>3 DEF KeepNow

LEMMA KeepSwipe ==
  ASSUME WebClientTypeOK, Live, KeepNow, NEW dir \in {"yes", "no"}, Swipe(dir)
  PROVE  KeepNow'
<1>1. index \in Card /\ index' = index - 1 /\ conn \in Conns /\ up[conn] \in Seq(UpMessages)
  BY CardsAssumption DEF Swipe, WebClientTypeOK, Card
<1>2. PICK message : message = [type |-> "swipe", card |-> index, dir |-> dir]
  OBVIOUS
<1>3. message \in UpMessages /\ message.type = "swipe" /\ message.card = index
  BY <1>1, <1>2, MessagesSent
<1>4. up'[conn] = Append(up[conn], message)
  BY <1>2, <1>3, SendAppends DEF Swipe, Live
<1>5. UNCHANGED <<conn, synced, votes, last, reply, down>> /\ undoable' = index
  BY DEF Swipe, socketVars, voteVars, joinVars
<1>6. ASSUME NEW card \in Card, Kept(card) \/ card = index PROVE Kept(card)'
  <2>1. KeptIn(up[conn], votes, last, card) \/ message.card = card
    BY <1>3, <1>6 DEF Kept
  <2>2. KeptIn(Append(up[conn], message), votes, last, card)
    BY <1>1, <1>3, <2>1, SwipeKeeps
  <2>3. QED
    BY <1>4, <1>5, <2>2 DEF Kept
<1>7. MineKept => MineKept'
  <2>1. \A card \in Card : card # index => mine'[card] = mine[card]
    BY DEF Swipe, WebClientTypeOK
  <2>2. QED
    BY <1>6, <2>1 DEF MineKept
<1>8. PassedKept => PassedKept'
  <2>1. \A card \in Card : card > index' => card > index \/ card = index
    BY <1>1, CardsAssumption DEF Card
  <2>2. QED
    BY <1>6, <2>1 DEF PassedKept
<1>9. UndoesTheLast'
  <2>1. LastIs(index, Append(up[conn], message), last)
    BY <1>1, <1>3, LastOfAppended DEF Swiped
  <2>2. QED
    BY <1>4, <1>5, <2>1 DEF UndoesTheLast
<1>10. QED
  BY <1>5, <1>6, <1>7, <1>8, <1>9, KeptCarried DEF AllKept

LEMMA KeepUndo ==
  ASSUME WebClientTypeOK, PageInv, AnswerInv, Live, KeepNow, Undo
  PROVE  KeepNow'
<1>1. /\ index \in Nat /\ index' = index + 1 /\ undoable \in Card /\ undoable = index + 1
      /\ conn \in Conns /\ up[conn] \in Seq(UpMessages) /\ synced \in BOOLEAN
  BY CardsAssumption DEF Undo, WebClientTypeOK, PageInv
<1>2. PICK message : message = [type |-> "undo", early |-> ~synced]
  OBVIOUS
<1>3. message \in UpMessages /\ message.type = "undo" /\ message.early = ~synced
  BY <1>1, <1>2, MessagesSent
<1>4. up'[conn] = Append(up[conn], message)
  BY <1>2, <1>3, SendAppends DEF Undo, Live
<1>5. UNCHANGED <<conn, synced, votes, last, reply, down>> /\ undoable' = None
  BY DEF Undo, socketVars, voteVars, joinVars
<1>6. /\ mine'[undoable] = None
      /\ \A card \in Card : card # undoable => mine'[card] = mine[card]
  BY <1>1 DEF Undo, WebClientTypeOK
<1>7. UndoesTheLast'
  BY <1>5 DEF UndoesTheLast
<1>8. PassedKept => \A card \in Card : card > index' => card # undoable /\ Kept(card)
  BY <1>1, CardsAssumption DEF PassedKept, Card
<1>9. CASE ~synced
  <2>1. ASSUME NEW card \in Card, Kept(card) PROVE Kept(card)'
    <3>1. KeptIn(up[conn], votes, last, card) /\ None # card /\ message.early
      BY <1>3, <1>9, <2>1, NoneAssumption DEF Kept, Card
    <3>2. KeptIn(Append(up[conn], message), votes, last, card)
      BY <1>1, <1>3, <3>1, UndoKeeps
    <3>3. QED
      BY <1>4, <1>5, <3>2 DEF Kept
  <2>2. MineKept => MineKept'
    BY <1>6, <2>1 DEF MineKept
  <2>3. PassedKept => PassedKept'
    BY <1>8, <2>1 DEF PassedKept
  <2>4. QED
    BY <1>5, <1>7, <2>1, <2>2, <2>3, KeptCarried DEF AllKept
<1>10. CASE synced
  <2>1. AllKept
    BY <1>10 DEF KeepNow
  <2>2. ASSUME NEW card \in Card, Kept(card), card # undoable PROVE Kept(card)'
    <3>1. LastIs(undoable, up[conn], last)
      BY <1>1, <2>1, NoneAssumption DEF AllKept, UndoesTheLast, Card
    <3>2. KeptIn(up[conn], votes, last, card)
      BY <2>2 DEF Kept
    <3>3. KeptIn(Append(up[conn], message), votes, last, card)
      BY <1>1, <1>3, <2>2, <3>1, <3>2, UndoKeeps
    <3>4. QED
      BY <1>4, <1>5, <3>3 DEF Kept
  <2>3. MineKept'
    BY <1>6, <2>1, <2>2 DEF AllKept, MineKept
  <2>4. PassedKept'
    BY <1>8, <2>1, <2>2 DEF AllKept, PassedKept
  <2>5. reply[conn] = <<>> /\ down[conn] \in Seq(Blanks)
    BY <1>10 DEF AnswerInv, AnswerOrder
  <2>6. ASSUME NEW card \in Card PROVE reply[conn] \in Seq(Silent(card)) /\ down[conn] \in Seq(Silent(card))
    <3>1. Blanks \subseteq Silent(card)
      BY DEF Blanks, Silent, NoVoteStates, NoVotes
    <3>2. down[conn] \in Seq(Silent(card))
      BY <2>5, <3>1, SeqMonotonic
    <3>3. <<>> \in Seq(Silent(card))
      BY EmptySeq
    <3>4. QED
      BY <2>5, <3>2, <3>3
  <2>7. AnswerKept'
    BY <1>5, <2>6 DEF AnswerKept
  <2>8. VotesBeforeDeck'
    BY <2>3 DEF VotesBeforeDeck
  <2>9. QED
    BY <1>7, <2>3, <2>4, <2>7, <2>8 DEF KeepNow, AllKept
<1>11. QED
  BY <1>1, <1>9, <1>10

LEMMA KeepSwipeRead ==
  ASSUME WebClientTypeOK, LobbyInv, SocketInv, Live, ~crossed', KeepNow,
         NEW c \in Conns, HandleSwipe(c)
  PROVE  KeepNow'
<1>0. /\ conn \in Conns /\ newest \in Conns /\ newest = conn /\ Conns \subseteq Nat
      /\ up[conn] \in Seq(UpMessages) /\ votes \in [Card -> Vote]
  BY DEF WebClientTypeOK, Live, Conns
<1>1. /\ up[c] # <<>> /\ Head(up[c]) \in UpMessages /\ Head(up[c]).type = "swipe"
      /\ \A d \in Conns : d # c => up'[d] = up[d]
      /\ up'[c] = Tail(up[c])
  BY TakesHead DEF HandleSwipe
<1>2. Head(up[c]) \in Swipes
  BY <1>1, UpKinds
<1>3. phase # "lobby"
  <2>1. up[c] \in Seq(Joins) => Head(up[c]) \in Joins
    BY <1>1, HeadAndTailOf
  <2>2. QED
    BY <1>1, <2>1 DEF LobbyInv, Joins
<1>4. /\ votes' = [votes EXCEPT ![Head(up[c]).card] = Head(up[c]).dir]
      /\ last' = Head(up[c]).card
      /\ ~Late(c)
  BY <1>3 DEF HandleSwipe
<1>5. UNCHANGED <<conn, synced, mine, index, undoable, reply, down>>
  BY DEF HandleSwipe, pageVars, socketVars, joinVars
<1>6. c = conn
  BY <1>0, <1>1, <1>4 DEF SocketInv, Late
<1>7. ASSUME NEW card \in Card, Kept(card) PROVE Kept(card)'
  <2>1. KeptIn(up[conn], votes, last, card)
    BY <1>7 DEF Kept
  <2>2. KeptIn(Tail(up[conn]), [votes EXCEPT ![Head(up[conn]).card] = Head(up[conn]).dir],
               Head(up[conn]).card, card)
    BY <1>0, <1>1, <1>2, <1>6, <2>1, SwipeRead
  <2>3. QED
    BY <1>1, <1>4, <1>5, <1>6, <2>2 DEF Kept
<1>8. UndoesTheLast => UndoesTheLast'
  <2>1. LastIs(undoable, up[conn], last) => LastIs(undoable, Tail(up[conn]), Head(up[conn]).card)
    BY <1>0, <1>1, <1>6, LastOfTail DEF Swiped
  <2>2. QED
    BY <1>1, <1>4, <1>5, <1>6, <2>1 DEF UndoesTheLast
<1>9. MineKept => MineKept'
  BY <1>5, <1>7 DEF MineKept
<1>10. PassedKept => PassedKept'
  BY <1>5, <1>7 DEF PassedKept
<1>11. QED
  BY <1>5, <1>7, <1>8, <1>9, <1>10, KeptCarried DEF AllKept

LEMMA KeepUndoRead ==
  ASSUME WebClientTypeOK, LobbyInv, SocketInv, Live, ~crossed', KeepNow,
         NEW c \in Conns, HandleUndo(c)
  PROVE  KeepNow'
<1>0. /\ conn \in Conns /\ newest \in Conns /\ newest = conn /\ Conns \subseteq Nat
      /\ up[conn] \in Seq(UpMessages) /\ votes \in [Card -> Vote]
  BY DEF WebClientTypeOK, Live, Conns
<1>1. /\ up[c] # <<>> /\ Head(up[c]) \in UpMessages /\ Head(up[c]).type = "undo"
      /\ \A d \in Conns : d # c => up'[d] = up[d]
      /\ up'[c] = Tail(up[c])
  BY TakesHead DEF HandleUndo
<1>2. phase # "lobby"
  <2>1. up[c] \in Seq(Joins) => Head(up[c]) \in Joins
    BY <1>1, HeadAndTailOf
  <2>2. QED
    BY <1>1, <2>1 DEF LobbyInv, Joins
<1>3. UNCHANGED <<conn, synced, mine, index, undoable, reply, down>>
  BY DEF HandleUndo, pageVars, socketVars, joinVars
<1>4. last # None =>
        votes' = [votes EXCEPT ![last] = None] /\ last' = None /\ ~Late(c) /\ ~Head(up[c]).early
  BY <1>2 DEF HandleUndo
<1>5. last = None => votes' = votes /\ last' = last
  BY DEF HandleUndo, voteVars
<1>6. last' = None /\ \A card \in Card : last # card => votes'[card] = votes[card]
  BY <1>0, <1>4, <1>5
<1>7. c = conn \/ (last = None /\ c # conn)
  BY <1>0, <1>1, <1>4 DEF SocketInv, Late
<1>8. CASE c = conn
  <2>1. ASSUME NEW card \in Card, Kept(card) PROVE Kept(card)'
    <3>1. /\ KeptIn(up[conn], votes, last, card)
          /\ last = card => ~Head(up[conn]).early
          /\ last # card => votes'[card] = votes[card]
          /\ None # card
      BY <1>4, <1>6, <1>8, <2>1, NoneAssumption DEF Kept, Card
    <3>2. PICK after : after = votes'
      OBVIOUS
    <3>3. \A x : x # card => KeptIn(Tail(up[conn]), after, x, card)
      BY <1>0, <1>1, <1>8, <3>1, <3>2, UndoRead
    <3>4. KeptIn(Tail(up[conn]), after, None, card)
      BY <3>1, <3>3
    <3>5. QED
      BY <1>1, <1>3, <1>6, <1>8, <3>2, <3>4 DEF Kept
  <2>2. UndoesTheLast => UndoesTheLast'
    <3>1. ~Swiped(Head(up[conn]), undoable)
      BY <1>1, <1>8 DEF Swiped
    <3>2. LastIs(undoable, up[conn], last) => LastIs(undoable, Tail(up[conn]), None)
      BY <1>0, <1>1, <1>8, <3>1, LastOfTail
    <3>3. QED
      BY <1>1, <1>3, <1>6, <1>8, <3>2 DEF UndoesTheLast
  <2>3. MineKept => MineKept'
    BY <1>3, <2>1 DEF MineKept
  <2>4. PassedKept => PassedKept'
    BY <1>3, <2>1 DEF PassedKept
  <2>5. QED
    BY <1>3, <2>1, <2>2, <2>3, <2>4, KeptCarried DEF AllKept
<1>9. CASE last = None /\ c # conn
  <2>1. up'[conn] = up[conn] /\ votes' = votes /\ last' = last
    BY <1>0, <1>1, <1>5, <1>9
  <2>2. \A card \in Card : Kept(card) => Kept(card)'
    BY <1>3, <2>1 DEF Kept
  <2>3. MineKept => MineKept'
    BY <1>3, <2>2 DEF MineKept
  <2>4. PassedKept => PassedKept'
    BY <1>3, <2>2 DEF PassedKept
  <2>5. UndoesTheLast => UndoesTheLast'
    BY <1>3, <2>1 DEF UndoesTheLast
  <2>6. QED
    BY <1>3, <2>2, <2>3, <2>4, <2>5, KeptCarried DEF AllKept
<1>10. QED
  BY <1>7, <1>8, <1>9

\* The page and what it has sent stay as they are.
SamePage == UNCHANGED <<conn, mine, index, undoable, votes, last>> /\ up'[conn] = up[conn]

LEMMA SamePageKeeps ==
  ASSUME SamePage
  PROVE  /\ \A card \in Card : Kept(card)' <=> Kept(card)
         /\ MineKept' <=> MineKept
         /\ PassedKept' <=> PassedKept
         /\ UndoesTheLast' <=> UndoesTheLast
         /\ AllKept' <=> AllKept
<1>1. \A card \in Card : Kept(card)' <=> Kept(card)
  BY DEF SamePage, Kept
<1>2. MineKept' <=> MineKept
  BY <1>1 DEF SamePage, MineKept
<1>3. PassedKept' <=> PassedKept
  BY <1>1 DEF SamePage, PassedKept
<1>4. UndoesTheLast' <=> UndoesTheLast
  BY DEF SamePage, UndoesTheLast
<1>5. QED
  BY <1>1, <1>2, <1>3, <1>4 DEF AllKept

LEMMA KeepJoin ==
  ASSUME WebClientTypeOK, PageInv, LobbyInv, SocketInv, HandleJoin(conn), Live'
  PROVE  KeepNow'
<1>1. /\ conn \in Conns /\ ~synced
      /\ down'[conn] = <<>> /\ up[conn] # <<>> /\ up'[conn] = Tail(up[conn])
      /\ reply'[conn] = IF phase = "lobby" THEN <<State(votes, TRUE)>>
                        ELSE <<State(votes, FALSE), DeckOf(TRUE)>>
      /\ UNCHANGED <<pageVars, socketVars, votes, last>>
  BY JoinTaken
<1>2. UNCHANGED <<conn, synced, mine, index, undoable, votes, last>>
  BY <1>1 DEF pageVars, socketVars
<1>3. Tail(up[conn]) \in Seq(UpMessages) /\ Tail(up[conn]) \in Seq(Harmless)
  <2>1. socket = "open"
    BY <1>1 DEF Live, socketVars
  <2>2. up[conn] \in Seq(Harmless) /\ up[conn] \in Seq(UpMessages)
    BY <1>1, <2>1 DEF SocketInv, WebClientTypeOK
  <2>3. Tail(up[conn]) \in Seq(Harmless)
    BY <1>1, <2>2, HarmlessTail
  <2>4. Tail(up[conn]) \in Seq(UpMessages)
    BY <1>1, <2>2, HarmlessTail
  <2>5. QED
    BY <2>3, <2>4
<1>4. ASSUME NEW card \in Card, votes[card] # None PROVE Kept(card)'
  <2>1. KeptIn(Tail(up[conn]), votes, last, card)
    BY <1>3, <1>4, JoinKeeps
  <2>2. QED
    BY <1>1, <1>2, <2>1 DEF Kept
<1>5. PICK nothing : nothing = <<>>
  OBVIOUS
<1>6. 1..Len(nothing) = {} /\ \A S : nothing \in Seq(S)
  BY <1>5, EmptySeq
<1>7. /\ State(votes, TRUE) \in States /\ State(votes, FALSE) \in States /\ DeckOf(TRUE) \in Decks
      /\ State(votes, TRUE).votes = votes /\ State(votes, FALSE).votes = votes
  BY MessagesSent DEF WebClientTypeOK, State
<1>8. AnswerKept'
  <2> SUFFICES ASSUME NEW card \in Card, ~Kept(card)'
               PROVE  reply'[conn] \in Seq(Silent(card)) /\ down'[conn] \in Seq(Silent(card))
    BY <1>2 DEF AnswerKept
  <2>1. votes[card] = None
    BY <1>4
  <2>2. State(votes, TRUE) \in Silent(card) /\ State(votes, FALSE) \in Silent(card) /\ DeckOf(TRUE) \in Silent(card)
    BY <1>7, <2>1 DEF Silent
  <2>3. <<State(votes, TRUE)>> \in Seq(Silent(card)) /\ <<State(votes, FALSE), DeckOf(TRUE)>> \in Seq(Silent(card))
    BY <2>2, ShortSeqs
  <2>4. QED
    BY <1>1, <1>5, <1>6, <2>3
<1>9. VotesBeforeDeck'
  <2>1. ~(Len(reply'[conn]) = 1 /\ FinalDeck(reply'[conn][1]))
    <3>1. CASE phase = "lobby"
      <4>1. <<State(votes, TRUE)>>[1] = State(votes, TRUE)
        BY <1>7, ShortSeqs
      <4>2. ~FinalDeck(State(votes, TRUE))
        BY DEF FinalDeck, IsDeck, State
      <4>3. QED
        BY <1>1, <3>1, <4>1, <4>2
    <3>2. CASE phase # "lobby"
      <4>1. Len(<<State(votes, FALSE), DeckOf(TRUE)>>) = 2
        BY <1>7, ShortSeqs
      <4>2. QED
        BY <1>1, <3>2, <4>1
    <3>3. QED
      BY <3>1, <3>2
  <2>2. \A i \in 1..Len(down'[conn]) : FALSE
    BY <1>1, <1>5, <1>6
  <2>3. QED
    BY <1>2, <2>1, <2>2 DEF VotesBeforeDeck
<1>10. ASSUME Told(reply'[conn], down'[conn]) PROVE AllKept'
  <2>1. phase = "lobby"
    <3> SUFFICES ASSUME phase # "lobby" PROVE FALSE
      OBVIOUS
    <3>1. PICK answer : answer = <<State(votes, FALSE), DeckOf(TRUE)>>
      OBVIOUS
    <3>2. Len(answer) = 2 /\ answer[1] = State(votes, FALSE) /\ answer[2] = DeckOf(TRUE)
      BY <1>7, <3>1, ShortSeqs
    <3>3. ~FinalState(answer[1]) /\ ~FinalState(answer[2])
      BY <3>2 DEF State, DeckOf, IsState, FinalState
    <3>4. \A i \in 1..Len(answer) : i = 1 \/ i = 2
      BY <3>2
    <3>5. Told(answer, nothing)
      BY <1>1, <1>5, <1>10, <3>1
    <3>6. QED
      BY <1>6, <3>3, <3>4, <3>5 DEF Told
  <2>2. mine = NoVotes /\ index = Cards /\ undoable = None
    BY <2>1 DEF LobbyInv, PageInv
  <2>3. MineKept' /\ UndoesTheLast'
    BY <1>2, <2>2 DEF MineKept, UndoesTheLast, NoVotes
  <2>4. PassedKept'
    BY <1>2, <2>2, CardsAssumption DEF PassedKept, Card
  <2>5. QED
    BY <2>3, <2>4 DEF AllKept
<1>11. QED
  BY <1>1, <1>2, <1>8, <1>9, <1>10 DEF KeepNow

LEMMA KeepSent ==
  ASSUME WebClientTypeOK, AnswerInv, Live, KeepNow, SendReply(conn),
         down'[conn] = Append(down[conn], Head(reply[conn])), reply'[conn] = Tail(reply[conn])
  PROVE  KeepNow'
<1> DEFINE answer == reply[conn]
           sent == down[conn]
           message == Head(answer)
           rest == Tail(answer)
           more == Append(sent, message)
<1>1. /\ conn \in Conns /\ answer \in Seq(DownMessages) /\ sent \in Seq(DownMessages)
      /\ synced \in BOOLEAN /\ answer # <<>>
  BY DEF WebClientTypeOK, SendReply
<1>2. /\ message = answer[1] /\ message \in DownMessages
      /\ rest \in Seq(DownMessages)
      /\ Len(answer) \in Nat \ {0}
      /\ Len(rest) = Len(answer) - 1
      /\ \A i \in 1..Len(answer) - 1 : rest[i] = answer[i + 1]
      /\ rest = <<>> <=> Len(answer) = 1
  BY <1>1, HeadAndTailOf
<1>3. /\ Len(sent) \in Nat
      /\ Len(more) = Len(sent) + 1
      /\ \A i \in 1..Len(sent) : more[i] = sent[i]
      /\ more[Len(sent) + 1] = message
  BY <1>1, <1>2, AppendedTo
<1>4. reply'[conn] = rest /\ down'[conn] = more
  OBVIOUS
<1>5. AnswerShape(answer) /\ AnswerOrder(answer, sent, synced)
  BY DEF AnswerInv
<1>6. Told(rest, more) <=> Told(answer, sent)
  BY <1>1, <1>5, AnswerSent
<1>7. SamePage /\ UNCHANGED <<conn, synced>>
  BY DEF SendReply, SamePage, pageVars, socketVars, voteVars
<1>8. /\ \A card \in Card : Kept(card)' <=> Kept(card)
      /\ MineKept' <=> MineKept
      /\ AllKept' <=> AllKept
  BY <1>7, SamePageKeeps
<1>9. ASSUME NEW card \in Card, ~Kept(card)
      PROVE  rest \in Seq(Silent(card)) /\ more \in Seq(Silent(card))
  <2>1. answer \in Seq(Silent(card)) /\ sent \in Seq(Silent(card))
    BY <1>9 DEF KeepNow, AnswerKept
  <2>2. rest \in Seq(Silent(card)) /\ message \in Silent(card)
    BY <1>1, <2>1, HeadAndTailOf
  <2>3. QED
    BY <2>1, <2>2, AppendedTo
<1>10. AnswerKept'
  BY <1>4, <1>7, <1>8, <1>9 DEF AnswerKept
<1> HIDE DEF answer, sent, message, rest, more
<1>11. VotesBeforeDeck =>
         /\ Len(answer) = 1 /\ FinalDeck(answer[1]) =>
              MineKept \/ \E i \in 1..Len(sent) : IsState(sent[i])
         /\ \A j \in 1..Len(sent) : FinalDeck(sent[j]) =>
              MineKept \/ \E i \in 1..Len(sent) : i < j /\ IsState(sent[i])
  BY DEF VotesBeforeDeck, answer, sent
<1>12. ASSUME Len(rest) = 1, FinalDeck(rest[1])
       PROVE  \E i \in 1..Len(more) : IsState(more[i])
  <2>1. Len(answer) # 1
    <3>1. Len(<<>>) = 0
      BY EmptySeq
    <3>2. QED
      BY <1>2, <1>12, <3>1
  <2>2. IsState(message)
    BY <1>1, <1>2, <1>5, <2>1 DEF AnswerShape
  <2>3. Len(sent) + 1 \in 1..Len(more)
    BY <1>3
  <2>4. QED
    BY <1>3, <2>2, <2>3
<1>13. ASSUME NEW j \in 1..Len(more), FinalDeck(more[j])
       PROVE  MineKept \/ \E i \in 1..Len(more) : i < j /\ IsState(more[i])
  <2>1. \A i \in 1..Len(sent) : i \in 1..Len(more) /\ more[i] = sent[i]
    BY <1>3
  <2>2. CASE j \in 1..Len(sent)
    BY <1>11, <1>13, <2>1, <2>2 DEF KeepNow
  <2>3. CASE j = Len(sent) + 1
    <3>1. FinalDeck(answer[1])
      BY <1>2, <1>3, <1>13, <2>3
    <3>2. Len(answer) = 1
      BY <1>1, <1>5, <3>1 DEF AnswerShape, FinalDeck
    <3>3. MineKept \/ \E i \in 1..Len(sent) : IsState(sent[i])
      BY <1>11, <3>1, <3>2 DEF KeepNow
    <3>4. \A i \in 1..Len(sent) : i < j
      BY <1>3, <2>3
    <3>5. QED
      BY <2>1, <3>3, <3>4
  <2>4. QED
    BY <1>3, <2>2, <2>3
<1>14. VotesBeforeDeck'
  BY <1>4, <1>7, <1>8, <1>12, <1>13 DEF VotesBeforeDeck
<1>15. synced' \/ Told(reply'[conn'], down'[conn']) => AllKept'
  BY <1>4, <1>6, <1>7, <1>8 DEF KeepNow, answer, sent
<1>16. QED
  BY <1>10, <1>14, <1>15 DEF KeepNow

\* A message of the answer is dropped.
LEMMA KeepTorn ==
  ASSUME WebClientTypeOK, AnswerInv, Live, KeepNow, SendReply(conn),
         down' = down, reply'[conn] = Torn(Tail(reply[conn]))
  PROVE  KeepNow'
<1> DEFINE answer == reply[conn]
           torn == Torn(Tail(answer))
<1>1. /\ conn \in Conns /\ answer \in Seq(DownMessages) /\ down[conn] \in Seq(DownMessages)
      /\ synced \in BOOLEAN /\ answer # <<>>
  BY DEF WebClientTypeOK, SendReply
<1>2. /\ ~synced /\ ~Told(torn, down[conn])
      /\ \A i \in 1..Len(torn) : ~torn[i].final
  <2>1. AnswerShape(answer) /\ AnswerOrder(answer, down[conn], synced)
    BY DEF AnswerInv
  <2>2. QED
    BY <1>1, <2>1, AnswerTorn
<1>3. SamePage /\ UNCHANGED <<conn, synced>>
  BY DEF SendReply, SamePage, pageVars, socketVars, voteVars
<1>4. /\ \A card \in Card : Kept(card)' <=> Kept(card)
      /\ MineKept' <=> MineKept
  BY <1>3, SamePageKeeps
<1>5. ASSUME NEW card \in Card, ~Kept(card)
      PROVE  torn \in Seq(Silent(card)) /\ down[conn] \in Seq(Silent(card))
  <2>1. answer \in Seq(Silent(card)) /\ down[conn] \in Seq(Silent(card))
    BY <1>5 DEF KeepNow, AnswerKept
  <2>2. Tail(answer) \in Seq(Silent(card))
    BY <1>1, <2>1, HeadAndTailOf
  <2>3. torn \in Seq(Silent(card))
    BY <2>2, NotFinal, TornOf
  <2>4. QED
    BY <2>1, <2>3
<1>6. reply'[conn'] = torn /\ down'[conn'] = down[conn]
  BY <1>3
<1> HIDE DEF answer, torn
<1>7. AnswerKept'
  BY <1>3, <1>4, <1>5, <1>6 DEF AnswerKept
<1>8. VotesBeforeDeck'
  <2>1. ~(Len(torn) = 1 /\ FinalDeck(torn[1]))
    BY <1>2 DEF FinalDeck
  <2>2. QED
    BY <1>3, <1>4, <1>6, <2>1 DEF KeepNow, VotesBeforeDeck
<1>9. QED
  BY <1>2, <1>3, <1>6, <1>7, <1>8 DEF KeepNow

\* A message that tells of no vote and is not the last of an answer is sent.
LEMMA KeepPassed ==
  ASSUME WebClientTypeOK, AnswerInv, Live, KeepNow,
         NEW message \in Blanks, ~message.final,
         SamePage, UNCHANGED <<conn, synced>>, reply'[conn] = reply[conn],
         down'[conn] = Append(down[conn], message) \/ down'[conn] = down[conn]
  PROVE  KeepNow'
<1> DEFINE sent == down[conn]
           more == Append(sent, message)
<1>1. /\ conn \in Conns /\ reply[conn] \in Seq(DownMessages) /\ sent \in Seq(DownMessages)
      /\ synced \in BOOLEAN
      /\ message \in DownMessages
  BY DEF WebClientTypeOK, Blanks, NoVoteStates, DownMessages
<1>2. /\ Len(sent) \in Nat
      /\ Len(more) = Len(sent) + 1
      /\ \A i \in 1..Len(sent) : more[i] = sent[i]
      /\ more[Len(sent) + 1] = message
  BY <1>1, AppendedTo
<1>3. Told(reply[conn], more) <=> Told(reply[conn], sent)
  <2>1. AnswerOrder(reply[conn], sent, synced)
    BY DEF AnswerInv
  <2>2. QED
    BY <1>1, <2>1, AnswerPassed
<1>4. /\ \A card \in Card : Kept(card)' <=> Kept(card)
      /\ MineKept' <=> MineKept
      /\ AllKept' <=> AllKept
  BY SamePageKeeps
<1>5. ASSUME NEW card \in Card, ~Kept(card)
      PROVE  more \in Seq(Silent(card))
  <2>1. sent \in Seq(Silent(card))
    BY <1>5 DEF KeepNow, AnswerKept
  <2>2. message \in Silent(card)
    BY DEF Blanks, NoVoteStates, Silent, NoVotes
  <2>3. QED
    BY <2>1, <2>2, AppendedTo
<1>6. CASE down'[conn] = sent
  BY <1>4, <1>6, KeptCarried
<1>7. CASE down'[conn] = more
  <2>1. AnswerKept'
    BY <1>4, <1>5, <1>7 DEF KeepNow, AnswerKept
  <2> HIDE DEF more
  <2>2. \A i \in 1..Len(sent) : i \in 1..Len(more) /\ more[i] = sent[i]
    BY <1>2
  <2>3. \A j \in 1..Len(more) : FinalDeck(more[j]) => j \in 1..Len(sent)
    BY <1>2 DEF FinalDeck
  <2>4. VotesBeforeDeck'
    BY <1>4, <1>7, <2>2, <2>3 DEF KeepNow, VotesBeforeDeck
  <2>5. synced' \/ Told(reply'[conn'], down'[conn']) => AllKept'
    BY <1>3, <1>4, <1>7 DEF KeepNow
  <2>6. QED
    BY <2>1, <2>4, <2>5 DEF KeepNow
<1>8. QED
  BY <1>6, <1>7

LEMMA KeepReceive ==
  ASSUME WebClientTypeOK, AnswerInv, Live, KeepNow, Receive
  PROVE  KeepNow'
<1> DEFINE sent == down[conn]
           message == Head(sent)
           rest == Tail(sent)
<1>1. /\ conn \in Conns /\ reply[conn] \in Seq(DownMessages) /\ sent \in Seq(DownMessages)
      /\ synced \in BOOLEAN /\ sent # <<>> /\ down \in [Conns -> Seq(DownMessages)]
  BY DEF WebClientTypeOK, Receive
<1>2. /\ message = sent[1] /\ message \in DownMessages
      /\ rest \in Seq(DownMessages)
      /\ Len(sent) \in Nat \ {0}
      /\ Len(rest) = Len(sent) - 1
      /\ \A i \in 1..Len(sent) - 1 : rest[i] = sent[i + 1]
  BY <1>1, HeadAndTailOf
<1>3. /\ UNCHANGED <<conn, votes, last, up, reply>>
      /\ down'[conn] = rest /\ synced' = (synced \/ message.final)
      /\ \/ IsState(message) /\ mine' = message.votes /\ UNCHANGED <<index, undoable>>
         \/ IsDeck(message) /\ Deck /\ UNCHANGED mine
  BY <1>1 DEF Receive, voteVars, joinVars, IsState, IsDeck
<1>4. AnswerOrder(reply[conn], sent, synced)
  BY DEF AnswerInv
<1>5. Told(reply[conn], sent) <=> FinalState(message) \/ Told(reply[conn], rest)
  BY <1>1, <1>4, AnswerRead
<1>6. \A card \in Card : Kept(card)' <=> Kept(card)
  BY <1>3 DEF Kept
<1>7. ASSUME NEW card \in Card, ~Kept(card)
      PROVE  reply[conn] \in Seq(Silent(card)) /\ rest \in Seq(Silent(card)) /\ message \in Silent(card)
  <2>1. reply[conn] \in Seq(Silent(card)) /\ sent \in Seq(Silent(card))
    BY <1>7 DEF KeepNow, AnswerKept
  <2>2. rest \in Seq(Silent(card)) /\ message \in Silent(card)
    BY <1>1, <2>1, HeadAndTailOf
  <2>3. QED
    BY <2>1, <2>2
<1>8. AnswerKept'
  BY <1>3, <1>6, <1>7 DEF AnswerKept
<1>9. (synced \/ Told(reply[conn], sent)) => AllKept /\ message \in Blanks
  <2>1. sent \in Seq(Blanks) => message \in Blanks
    BY <1>1, HeadAndTailOf
  <2>2. QED
    BY <1>4, <2>1 DEF KeepNow, AnswerOrder
<1> HIDE DEF sent, message, rest
<1>10. /\ Len(reply[conn]) = 1 /\ FinalDeck(reply[conn][1]) =>
            MineKept \/ \E i \in 1..Len(sent) : IsState(sent[i])
       /\ \A j \in 1..Len(sent) : FinalDeck(sent[j]) =>
            MineKept \/ \E i \in 1..Len(sent) : i < j /\ IsState(sent[i])
  BY DEF KeepNow, VotesBeforeDeck, sent
<1>11. CASE IsState(message)
  <2>1. mine' = message.votes /\ UNCHANGED <<index, undoable>> /\ ~IsDeck(message)
    BY <1>2, <1>3, <1>11, DownKinds
  <2>2. MineKept'
    <3> SUFFICES ASSUME NEW card \in Card, message.votes[card] # None PROVE Kept(card)'
      BY <2>1 DEF MineKept
    <3>1. message \notin Silent(card)
      BY <1>2, <1>11 DEF Silent, Decks, States, IsState
    <3>2. QED
      BY <1>6, <1>7, <3>1
  <2>3. VotesBeforeDeck'
    BY <2>2 DEF VotesBeforeDeck
  <2>4. synced' \/ Told(reply[conn], rest) => AllKept
    <3>1. message.final => FinalState(message)
      BY <1>11 DEF FinalState
    <3>2. QED
      BY <1>3, <1>5, <1>9, <3>1
  <2>5. PassedKept' <=> PassedKept
    BY <1>6, <2>1 DEF PassedKept
  <2>6. UndoesTheLast' <=> UndoesTheLast
    BY <1>3, <2>1 DEF UndoesTheLast
  <2>7. synced' \/ Told(reply'[conn'], down'[conn']) => AllKept'
    BY <1>3, <2>2, <2>4, <2>5, <2>6 DEF AllKept
  <2>8. QED
    BY <1>8, <2>3, <2>7 DEF KeepNow
<1>12. CASE IsDeck(message)
  <2>1. UNCHANGED mine /\ undoable' = None /\ index' = FirstWithout(mine) /\ ~IsState(message)
    BY <1>2, <1>3, <1>12, DownKinds DEF Deck
  <2>2. MineKept' <=> MineKept
    BY <1>6, <2>1 DEF MineKept
  <2>3. UndoesTheLast'
    BY <2>1 DEF UndoesTheLast
  <2>4. MineKept => PassedKept'
    <3>1. \A card \in Card : card > FirstWithout(mine) => mine[card] # None
      BY FirstWithoutIsFirst
    <3>2. QED
      BY <1>6, <2>1, <3>1 DEF MineKept, PassedKept
  <2>5. message.final => MineKept
    <3>1. message.final => 1 \in 1..Len(sent) /\ FinalDeck(sent[1])
      BY <1>2, <1>12 DEF FinalDeck
    <3>2. ~\E i \in 1..Len(sent) : i < 1
      BY <1>2
    <3>3. QED
      BY <1>10, <3>1, <3>2
  <2>6. synced' \/ Told(reply'[conn'], down'[conn']) => AllKept'
    BY <1>3, <1>5, <1>9, <2>2, <2>3, <2>4, <2>5 DEF AllKept
  <2>7. ASSUME NEW i \in 1..Len(sent), IsState(sent[i])
        PROVE  i - 1 \in 1..Len(rest) /\ rest[i - 1] = sent[i]
    <3>1. i # 1
      BY <1>2, <2>1, <2>7
    <3>2. QED
      BY <1>2, <3>1
  <2>8. ASSUME Len(reply[conn]) = 1, FinalDeck(reply[conn][1])
        PROVE  MineKept \/ \E i \in 1..Len(rest) : IsState(rest[i])
    BY <1>10, <2>7, <2>8
  <2>9. ASSUME NEW j \in 1..Len(rest), FinalDeck(rest[j])
        PROVE  MineKept \/ \E i \in 1..Len(rest) : i < j /\ IsState(rest[i])
    <3>1. j + 1 \in 1..Len(sent) /\ FinalDeck(sent[j + 1])
      BY <1>2, <2>9
    <3>2. CASE MineKept
      BY <3>2
    <3>3. CASE ~MineKept
      <4>1. PICK i \in 1..Len(sent) : i < j + 1 /\ IsState(sent[i])
        BY <1>10, <3>1, <3>3
      <4>2. i - 1 \in 1..Len(rest) /\ rest[i - 1] = sent[i] /\ i - 1 < j
        BY <2>7, <4>1
      <4>3. QED
        BY <4>1, <4>2
    <3>4. QED
      BY <3>2, <3>3
  <2>10. VotesBeforeDeck'
    BY <1>3, <2>2, <2>8, <2>9 DEF VotesBeforeDeck
  <2>11. QED
    BY <1>8, <2>6, <2>10 DEF KeepNow
<1>13. QED
  BY <1>2, <1>11, <1>12, DownKinds

LEMMA KeepStep ==
  ASSUME WebClientTypeOK, PageInv, LobbyInv, SocketInv, AnswerInv, KeepInv, Next
  PROVE  KeepInv'
<1> SUFFICES ASSUME Live', ~crossed' PROVE KeepNow'
  BY DEF KeepInv, KeepNow
<1>l. /\ conn' = conn /\ socket = "open"
      /\ (Live /\ newest' = newest) \/ HandleJoin(conn)
  BY LiveSince
<1>j. ASSUME HandleJoin(conn) PROVE KeepNow'
  BY <1>j, KeepJoin
<1> SUFFICES ASSUME ~HandleJoin(conn) PROVE KeepNow'
  BY <1>j
<1>n. Live /\ newest' = newest
  BY <1>l
<1>t. conn \in Conns /\ attached \in Conns /\ newest \in Conns /\ Conns \subseteq Nat /\ crossed \in BOOLEAN
  BY DEF WebClientTypeOK, Conns
<1>c. ~crossed
  <2>1. ASSUME NEW c \in Conns, HandleJoin(c) PROVE ~crossed
    <3>1. c # conn /\ newest = conn
      BY <1>n, <2>1 DEF Live
    <3>2. Late(c)
      BY <1>n, <2>1, <3>1 DEF HandleJoin
    <3>3. QED
      BY <2>1, <3>2 DEF HandleJoin
  <2>2. ASSUME NEW c \in Conns, HandleSwipe(c) \/ HandleUndo(c) PROVE ~crossed
    BY <2>2 DEF HandleSwipe, HandleUndo, voteVars
  <2>3. ASSUME NEW c \in Conns, SendReply(c) PROVE ~crossed
    BY <2>3 DEF SendReply, voteVars
  <2>4. ASSUME NEW dir \in {"yes", "no"}, Swipe(dir) PROVE ~crossed
    BY <2>4 DEF Swipe, voteVars
  <2>5. CASE Undo \/ Break \/ Reconnect \/ Open \/ Receive
    BY <2>5 DEF Undo, Break, Reconnect, Open, Receive, voteVars
  <2>6. CASE HostStart \/ BroadcastDeck \/ BroadcastSessionState
    BY <2>6 DEF HostStart, BroadcastDeck, BroadcastSessionState, voteVars
  <2>7. QED
    BY <2>1, <2>2, <2>3, <2>4, <2>5, <2>6 DEF Next
<1>k. KeepNow
  BY <1>n, <1>c DEF KeepInv, KeepNow
\* A step that leaves alone what the page and the server have told each other.
<1>u. ASSUME SamePage, UNCHANGED <<conn, synced>>, reply'[conn] = reply[conn], down'[conn] = down[conn]
      PROVE  KeepNow'
  <2>1. /\ \A card \in Card : Kept(card)' <=> Kept(card)
        /\ MineKept' <=> MineKept
        /\ AllKept' <=> AllKept
    BY <1>u, SamePageKeeps
  <2>2. QED
    BY <1>k, <1>u, <2>1, KeptCarried
<1>1. ASSUME NEW dir \in {"yes", "no"}, Swipe(dir) PROVE KeepNow'
  BY <1>k, <1>n, <1>1, KeepSwipe
<1>2. CASE Undo
  BY <1>k, <1>n, <1>2, KeepUndo
<1>3. CASE Break \/ Reconnect \/ Open
  <2>1. ~Live' \/ socket = "opening"
    BY <1>3 DEF Break, Reconnect, Open, Live
  <2>2. QED
    BY <1>l, <2>1
<1>4. CASE Receive
  BY <1>k, <1>n, <1>4, KeepReceive
<1>5. ASSUME NEW c \in Conns, HandleJoin(c) PROVE KeepNow'
  <2>1. c # conn
    BY <1>5
  <2>2. up'[conn] = up[conn]
    BY <1>5, <1>t, <2>1, TakesHead DEF HandleJoin
  <2>3. reply'[conn] = reply[conn]
    BY <1>5, <1>t, <2>1 DEF HandleJoin, WebClientTypeOK
  <2>4. QED
    BY <1>5, <1>u, <2>2, <2>3 DEF HandleJoin, SamePage, pageVars, socketVars
<1>6. ASSUME NEW c \in Conns, SendReply(c) PROVE KeepNow'
  <2>0. /\ \A d \in Conns : d # c => reply'[d] = reply[d] /\ down'[d] = down[d]
        /\ \/ down'[c] = Append(down[c], Head(reply[c])) /\ reply'[c] = Tail(reply[c])
           \/ down' = down /\ reply'[c] = Torn(Tail(reply[c]))
    BY <1>6, ReplySent
  <2>1. CASE c = conn
    BY <1>k, <1>n, <1>6, <2>0, <2>1, KeepSent, KeepTorn
  <2>2. CASE c # conn
    <3>1. reply'[conn] = reply[conn] /\ down'[conn] = down[conn]
      BY <1>t, <2>0, <2>2
    <3>2. QED
      BY <1>6, <1>u, <3>1 DEF SendReply, SamePage, pageVars, socketVars, voteVars
  <2>3. QED
    BY <2>1, <2>2
<1>7. ASSUME NEW c \in Conns, HandleSwipe(c) PROVE KeepNow'
  BY <1>k, <1>n, <1>7, KeepSwipeRead
<1>8. ASSUME NEW c \in Conns, HandleUndo(c) PROVE KeepNow'
  BY <1>k, <1>n, <1>8, KeepUndoRead
<1>9. CASE HostStart
  BY <1>9, <1>u DEF HostStart, SamePage, pageVars, socketVars, voteVars, joinVars
<1>10. CASE BroadcastDeck \/ BroadcastSessionState
  <2>1. SamePage /\ UNCHANGED <<conn, synced, reply>>
    BY <1>10 DEF BroadcastDeck, BroadcastSessionState, SamePage, pageVars, socketVars, voteVars, joinVars
  <2>2. PICK message : /\ message = DeckOf(FALSE) \/ message = State(NoVotes, FALSE)
                       /\ TrySend(attached, message)
    BY <1>10 DEF BroadcastDeck, BroadcastSessionState
  <2>3. /\ message \in Blanks /\ message \in DownMessages
        /\ ~message.final
    <3>1. DeckOf(FALSE) \in Decks /\ State(NoVotes, FALSE) \in States
      BY MessagesSent
    <3>2. ~DeckOf(FALSE).final /\ ~State(NoVotes, FALSE).final /\ State(NoVotes, FALSE).votes = NoVotes
      BY DEF DeckOf, State
    <3>3. QED
      BY <2>2, <3>1, <3>2 DEF Blanks, NoVoteStates, DownMessages
  <2>4. down'[conn] = Append(down[conn], message) \/ down'[conn] = down[conn]
    BY <1>t, <2>2, <2>3, DeliverAppends
  <2>5. QED
    BY <1>k, <1>n, <2>1, <2>3, <2>4, KeepPassed
<1>11. QED
  BY <1>1, <1>2, <1>3, <1>4, <1>5, <1>6, <1>7, <1>8, <1>9, <1>10 DEF Next

----------------------------------------------------------------------------
(***************************************************************************)
(* The theorems.                                                           *)
(***************************************************************************)

LEMMA InvStart == Init => WebClientTypeOK /\ WebClientInv
<1> SUFFICES ASSUME Init PROVE WebClientTypeOK /\ WebClientInv
  OBVIOUS
<1>1. WebClientTypeOK
  BY TypesStart
<1>2. KeepInv /\ AnswerInv
  BY <1>1, KeepStart, AnswerStart
<1>3. PageInv
  BY DEF Init, PageInv
<1>4. PICK nothing : nothing = <<>>
  OBVIOUS
<1>5. 1..Len(nothing) = {} /\ \A S : nothing \in Seq(S)
  BY <1>4, EmptySeq
<1>6. LobbyInv
  BY <1>4, <1>5 DEF Init, LobbyInv
<1>7. SocketInv
  BY <1>4, <1>5, CardsAssumption DEF Init, SocketInv, Conns
<1>8. QED
  BY <1>1, <1>2, <1>3, <1>6, <1>7 DEF WebClientInv

LEMMA InvStep ==
  WebClientTypeOK /\ WebClientInv /\ [Next]_vars => WebClientTypeOK' /\ WebClientInv'
<1> SUFFICES ASSUME WebClientTypeOK, WebClientInv, [Next]_vars
             PROVE  WebClientTypeOK' /\ WebClientInv'
  OBVIOUS
<1>0. PageInv /\ LobbyInv /\ SocketInv /\ AnswerInv /\ KeepInv
  BY DEF WebClientInv
<1>1. WebClientTypeOK'
  BY TypesStep
<1>2. CASE Next
  <2>1. PageInv' /\ LobbyInv'
    BY <1>0, <1>2, PageStep, LobbyStep
  <2>2. SocketInv' /\ AnswerInv'
    BY <1>0, <1>2, SocketStep, AnswerStep
  <2>3. KeepInv'
    BY <1>0, <1>2, KeepStep
  <2>4. QED
    BY <1>1, <2>1, <2>2, <2>3 DEF WebClientInv
<1>3. CASE UNCHANGED vars
  <2>1. UNCHANGED <<mine, index, dealt, undoable, socket, conn, synced, phase, votes, last,
                    attached, newest, up, down, reply, crossed>>
    BY <1>3 DEF vars, pageVars, socketVars, voteVars, joinVars
  <2>2. PageInv'
    BY <1>0, <2>1 DEF PageInv
  <2>3. LobbyInv'
    BY <1>0, <2>1 DEF LobbyInv
  <2>4. SocketInv'
    BY <1>0, <2>1 DEF SocketInv
  <2>5. AnswerInv'
    BY <1>0, <2>1 DEF AnswerInv, Live
  <2>6. KeepInv'
    <3>1. /\ \A card \in Card : Kept(card)' <=> Kept(card)
          /\ MineKept' <=> MineKept
          /\ AllKept' <=> AllKept
      BY <2>1, SamePageKeeps DEF SamePage
    <3>2. KeepNow => KeepNow'
      BY <2>1, <3>1, KeptCarried
    <3>3. QED
      BY <1>0, <2>1, <3>2 DEF KeepInv, KeepNow, Live
  <2>7. QED
    BY <1>1, <2>2, <2>3, <2>4, <2>5, <2>6 DEF WebClientInv
<1>4. QED
  BY <1>2, <1>3

\* In every reachable state the page, the sockets, the server and what is on its way
\* between them have their types, and are related as WebClientInv says.
THEOREM WebClientInvariant == Spec => [](WebClientTypeOK /\ WebClientInv)
<1>1. Init => WebClientTypeOK /\ WebClientInv
  BY InvStart
<1>2. WebClientTypeOK /\ WebClientInv /\ [Next]_vars => (WebClientTypeOK /\ WebClientInv)'
  BY InvStep
<1>3. QED
  BY <1>1, <1>2, PTL DEF Spec

\* Whatever broke, came late or was said while nobody listened, once the page has had
\* the whole answer to its join and nothing is on its way, every card the page has
\* passed has a vote of the server's, unless an undo or a replaced socket came between
\* the join and its answer.  An answer of which a full buffer dropped a part is not
\* whole (ws.ts:172-176, Swipe.tsx:46-56, hub.go:159-170, 722-724).
THEOREM PassedCardsHaveVotes == Spec => []VotesKept
<1>1. WebClientTypeOK /\ WebClientInv => VotesKept
  <2> SUFFICES ASSUME WebClientTypeOK, WebClientInv, Settled, ~crossed,
                      NEW card \in Card, card > index
               PROVE  votes[card] # None
    BY DEF VotesKept, NoCardSkipped
  <2>1. Live /\ synced /\ up[conn] = <<>>
    BY DEF Settled, Quiet, Live
  <2>2. Kept(card)
    BY <2>1 DEF WebClientInv, KeepInv, AllKept, PassedKept
  <2>3. PICK nothing : nothing = <<>>
    OBVIOUS
  <2>4. 1..Len(nothing) = {}
    BY <2>3, EmptySeq
  <2>5. QED
    BY <2>1, <2>2, <2>3, <2>4 DEF Kept, KeptIn
<1>2. QED
  BY <1>1, WebClientInvariant, PTL

============================================================================
