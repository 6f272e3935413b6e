------------------------------ MODULE Posters ------------------------------
(***************************************************************************)
(* The poster cache and the image proxy in front of it.  A request looks   *)
(* for a file, and on a miss shares one fetch with everyone who asks for   *)
(* the same poster and tag; the fetch leaves the file behind and prunes    *)
(* those of the poster's other tags.  A warm-up asks the same way.  The    *)
(* process may die at any step and leaves what is on the disk.             *)
(*                                                                         *)
(* A poster is a source and an item's id.  A cached file is named for the  *)
(* poster and the tag, and no two names collide: ids and sources have no   *)
(* underscore, and what sanitize replaces keeps tags apart.                *)
(***************************************************************************)
EXTENDS Naturals, FiniteSets

CONSTANTS
  Viewers,    \* requests for an image
  Workers,    \* goroutines of the warm-up, six in the code
  Posters,    \* posters of a source that can be asked
  Foreign,    \* ids that are no path segment, and posters of no source
  Tags,
  None

ASSUME PostersAssumption == Posters \cap Foreign = {} /\ Viewers \cap Workers = {}
ASSUME NobodyAssumption == None \notin Posters \X Tags

VARIABLES
  enabled,    \* there is a cache directory
  disk,       \* the posters and tags that have a file
  flight,     \* the fetch in progress for each poster and tag, and its stage
  asker,      \* the requests, and the warm-up's
  short       \* a pruning was cut short, by a crash or by a file that stayed

vars == <<enabled, disk, flight, asker, short>>

Askers == Viewers \cup Workers
Keys == Posters \X Tags

Cached(k) == enabled /\ k \in disk
Others(k) == {o \in Keys : o[1] = k[1] /\ o # k}

NoFlight == [at |-> "none", stale |-> {}]
Idle == [pc |-> "idle", key |-> None]

Init ==
  /\ enabled \in BOOLEAN
  /\ disk = {}
  /\ flight = [k \in Keys |-> NoFlight]
  /\ asker = [a \in Askers |-> Idle]
  /\ short = FALSE

----------------------------------------------------------------------------
(***************************************************************************)
(* handleImage, warm and the beginning of ensure.                          *)
(***************************************************************************)

\* Not a path segment, or of a source nobody fetches from.
Refuse(v, ref) ==
  /\ asker[v].pc = "idle" /\ ref \in Foreign
  /\ asker' = [asker EXCEPT ![v].pc = "done"]
  /\ UNCHANGED <<enabled, disk, flight, short>>

\* The first look, outside the flight.
Ask(v, k) ==
  /\ asker[v].pc = "idle"
  /\ asker' = [asker EXCEPT ![v] =
       IF Cached(k) THEN [Idle EXCEPT !.pc = "done"] ELSE [pc |-> "missed", key |-> k]]
  /\ UNCHANGED <<enabled, disk, flight, short>>

\* The warm-up passes over what is cached, or foreign, and gives the rest to a
\* worker that is free.  Without a cache there is none.
Warm(w, k) ==
  /\ asker[w].pc = "idle" /\ enabled /\ ~Cached(k)
  /\ asker' = [asker EXCEPT ![w] = [pc |-> "missed", key |-> k]]
  /\ UNCHANGED <<enabled, disk, flight, short>>

\* Group.Do: the first to come looks again, the others wait for it.
Join(a) ==
  LET k == asker[a].key IN
  /\ asker[a].pc = "missed"
  /\ asker' = [asker EXCEPT ![a].pc = "waiting"]
  /\ flight' = [flight EXCEPT ![k].at = IF @ = "none" THEN "looking" ELSE @]
  /\ UNCHANGED <<enabled, disk, short>>

----------------------------------------------------------------------------
(***************************************************************************)
(* The flight.                                                             *)
(***************************************************************************)

At(k, here) == flight[k].at = here
Goes(k, there) == flight' = [flight EXCEPT ![k].at = there]

Look(k) ==
  /\ At(k, "looking")
  /\ Goes(k, IF Cached(k) THEN "over" ELSE "fetching")
  /\ UNCHANGED <<enabled, disk, asker, short>>

\* The source answers, and a cache that is disabled is not written.
Fetch(k) ==
  /\ At(k, "fetching")
  /\ Goes(k, IF enabled THEN "fetched" ELSE "over")
  /\ UNCHANGED <<enabled, disk, asker, short>>

\* Mutant: a source that does not answer is waited for.
FailFetch_Never(k) ==
  /\ FALSE
  /\ At(k, "fetching") /\ Goes(k, "over")
  /\ UNCHANGED <<enabled, disk, asker, short>>

\* The source refuses, or the fetch has had its time; that the client of the
\* request that began it is gone is no reason.
FailFetch(k) ==
  /\ At(k, "fetching") /\ Goes(k, "over")
  /\ UNCHANGED <<enabled, disk, asker, short>>

\* The file gets its name once it is whole, so a half one is never found.  A write
\* that fails is logged, and the image is served all the same.
WriteTemp(k) ==
  /\ At(k, "fetched")
  /\ Goes(k, "written") \/ Goes(k, "over")
  /\ UNCHANGED <<enabled, disk, asker, short>>

Rename(k) ==
  /\ At(k, "written")
  /\ \/ Goes(k, "named") /\ disk' = disk \cup {k}
     \/ Goes(k, "over") /\ UNCHANGED disk
  /\ UNCHANGED <<enabled, asker, short>>

\* Mutant: a file that is being fetched again is spared.
Glob_Sparing(k) ==
  /\ At(k, "named")
  /\ flight' = [flight EXCEPT ![k] =
       [at |-> "pruning", stale |-> {o \in Others(k) \cap disk : At(o, "none")}]]
  /\ UNCHANGED <<enabled, disk, asker, short>>

\* The names of the poster are listed once,
Glob(k) ==
  /\ At(k, "named")
  /\ flight' = [flight EXCEPT ![k] =
       [at |-> "pruning", stale |-> Others(k) \cap disk]]
  /\ UNCHANGED <<enabled, disk, asker, short>>

\* and all but the new one are removed, one after the other.
Remove(k, o) ==
  /\ At(k, "pruning") /\ o \in flight[k].stale
  /\ flight' = [flight EXCEPT ![k].stale = @ \ {o}]
  /\ \/ disk' = disk \ {o} /\ UNCHANGED short
     \/ o \in disk /\ short' = TRUE /\ UNCHANGED disk
  /\ UNCHANGED <<enabled, asker>>

Pruned(k) ==
  /\ At(k, "pruning") /\ flight[k].stale = {}
  /\ Goes(k, "over")
  /\ UNCHANGED <<enabled, disk, asker, short>>

\* Whoever waits has the image or the failure, and the next to ask begins anew.
Land(k) ==
  /\ At(k, "over")
  /\ flight' = [flight EXCEPT ![k] = NoFlight]
  /\ asker' = [a \in Askers |->
       IF asker[a].pc = "waiting" /\ asker[a].key = k THEN [Idle EXCEPT !.pc = "done"] ELSE asker[a]]
  /\ UNCHANGED <<enabled, disk, short>>

\* The response is written, or the worker is free.
Answer(a) ==
  /\ asker[a].pc = "done"
  /\ asker' = [asker EXCEPT ![a] = Idle]
  /\ UNCHANGED <<enabled, disk, flight, short>>

----------------------------------------------------------------------------
\* The process dies and starts again, with the directory or without.  A
\* temporary file that it leaves has a name nobody asks for.
Restart ==
  /\ enabled' \in BOOLEAN
  /\ flight' = [k \in Keys |-> NoFlight]
  /\ asker' = [a \in Askers |-> Idle]
  /\ short' = (short \/ \E k \in Keys : flight[k].at \in {"named", "pruning"})
  /\ UNCHANGED disk

Flies(k) ==
  \/ Look(k) \/ Fetch(k) \/ FailFetch(k) \/ WriteTemp(k) \/ Rename(k)
  \/ Glob(k) \/ (\E o \in Keys : Remove(k, o)) \/ Pruned(k) \/ Land(k)

Next ==
  \/ \E v \in Viewers, ref \in Foreign : Refuse(v, ref)
  \/ \E v \in Viewers, k \in Keys : Ask(v, k)
  \/ \E w \in Workers, k \in Keys : Warm(w, k)
  \/ \E a \in Askers : Join(a) \/ Answer(a)
  \/ \E k \in Keys : Flies(k)
  \/ Restart

\* A goroutine that can go on does, and a fetch ends when its time is up.  That
\* a source answers is not assumed.
Fairness ==
  /\ \A a \in Askers : WF_vars(Join(a)) /\ WF_vars(Answer(a))
  /\ \A k \in Keys :
       /\ WF_vars(Look(k)) /\ WF_vars(FailFetch(k)) /\ WF_vars(WriteTemp(k))
       /\ WF_vars(Rename(k)) /\ WF_vars(Glob(k)) /\ WF_vars(\E o \in Keys : Remove(k, o))
       /\ WF_vars(Pruned(k)) /\ WF_vars(Land(k))

Spec == Init /\ [][Next]_vars /\ Fairness

----------------------------------------------------------------------------
(***************************************************************************)
(* Properties.                                                             *)
(***************************************************************************)

TypesHold ==
  /\ enabled \in BOOLEAN /\ short \in BOOLEAN /\ disk \subseteq Keys
  /\ \A k \in Keys : flight[k].stale \subseteq Others(k)
  /\ \A a \in Askers : asker[a].pc \in {"missed", "waiting"} <=> asker[a].key # None

\* Whoever waits, waits for a flight.
NobodyWaitsAlone ==
  \A a \in Askers : asker[a].pc = "waiting" => ~At(asker[a].key, "none")

Settled(poster) ==
  \A k \in Keys : k[1] = poster => flight[k].at \notin {"named", "pruning"}

OneTagKept ==
  \A poster \in Posters :
    Settled(poster) /\ ~short => Cardinality({k \in disk : k[1] = poster}) <= 1

\* Once nobody prunes, a poster is cached under one tag at most, however the
\* fetches of two tags of it overlap, unless a pruning was cut short
\* (imagecache.go:133-143: "every cached file for source+id whose tag differs").
\* With it the types, and that nobody waits for a fetch that is not under way.
CacheIsSound == TypesHold /\ NobodyWaitsAlone /\ OneTagKept

\* Every request for an image is answered though the source never is, and though
\* the client that began the fetch left (imagecache.go:83-94).
EveryImageAnswered ==
  \A a \in Askers : asker[a].pc = "missed" ~> asker[a].pc \in {"done", "idle"}

=============================================================================
