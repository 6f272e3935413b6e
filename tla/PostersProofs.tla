--------------------------- MODULE PostersProofs ---------------------------
(***************************************************************************)
(* Proofs about Posters, for any posters, tags, requests and workers.      *)
(***************************************************************************)
EXTENDS Posters, FiniteSetTheorems, TLAPS

Stages ==
  {"none", "looking", "fetching", "fetched", "written", "named", "pruning", "over"}

PosterTypes ==
  /\ enabled \in BOOLEAN /\ short \in BOOLEAN /\ disk \in SUBSET Keys
  /\ flight \in [Keys -> [at : Stages, stale : SUBSET Keys]]
  /\ asker \in [Askers -> [pc : {"idle", "missed", "waiting", "done"}, key : Keys \cup {None}]]

\* What a flight has yet to prune: all others once its file has its name, and
\* then those that it found.
WillRemove(k, o) == At(k, "named") \/ (At(k, "pruning") /\ o \in flight[k].stale)

\* Two files of a poster have a flight between them that will remove one.
TagsContested ==
  ~short =>
    \A k, o \in disk : k[1] = o[1] /\ k # o => WillRemove(k, o) \/ WillRemove(o, k)

IInv == PosterTypes /\ TypesHold /\ NobodyWaitsAlone /\ TagsContested

----------------------------------------------------------------------------
\* A set in which any two elements are equal has one at most.
LEMMA AtMostOne ==
  ASSUME NEW S, \A x, y \in S : x = y
  PROVE  Cardinality(S) <= 1
<1>1. CASE S = {}
  BY <1>1, FS_EmptySet
<1>2. CASE S # {}
  <2>1. PICK x \in S : TRUE
    BY <1>2
  <2>2. S = {x}
    BY <2>1
  <2>3. QED
    BY <2>2, FS_Singleton
<1>3. QED
  BY <1>1, <1>2

\* Contested tags are settled as one.
LEMMA ContestedTagsSettle ==
  ASSUME PosterTypes, TagsContested
  PROVE  OneTagKept
<1> SUFFICES ASSUME NEW poster \in Posters, Settled(poster), ~short
             PROVE  Cardinality({k \in disk : k[1] = poster}) <= 1
  BY DEF OneTagKept
<1>1. ASSUME NEW k \in disk, NEW o \in disk, k[1] = poster, o[1] = poster
      PROVE  k = o
  <2>1. k \in Keys /\ o \in Keys
    BY DEF PosterTypes
  <2>2. ~WillRemove(k, o) /\ ~WillRemove(o, k)
    BY <2>1, <1>1 DEF Settled, WillRemove, At
  <2>3. QED
    BY <2>2, <1>1 DEF TagsContested
<1>2. QED
  BY <1>1, AtMostOne

----------------------------------------------------------------------------
(***************************************************************************)
(* Each part of the invariant is preserved.                                *)
(***************************************************************************)

LEMMA InitIInv == Init => IInv
<1> SUFFICES ASSUME Init PROVE IInv
  OBVIOUS
<1> USE DEF Init, NoFlight, Idle
<1>1. PosterTypes
  BY DEF PosterTypes, Stages
<1>2. TypesHold /\ NobodyWaitsAlone
  BY DEF TypesHold, NobodyWaitsAlone
<1>3. TagsContested
  BY DEF TagsContested
<1>4. QED
  BY <1>1, <1>2, <1>3 DEF IInv

LEMMA TypesPreserved ==
  ASSUME PosterTypes, TypesHold, [Next]_vars
  PROVE  PosterTypes' /\ TypesHold'
<1> USE DEF PosterTypes, TypesHold, Stages, Others, Goes, At, Idle, NoFlight
<1>1. ASSUME NEW v \in Viewers, NEW ref \in Foreign, Refuse(v, ref)
      PROVE  PosterTypes' /\ TypesHold'
  BY <1>1 DEF Refuse, Askers
<1>2. ASSUME NEW v \in Viewers, NEW k \in Keys, Ask(v, k)
      PROVE  PosterTypes' /\ TypesHold'
  BY <1>2, NobodyAssumption DEF Ask, Askers, Keys
<1>3. ASSUME NEW w \in Workers, NEW k \in Keys, Warm(w, k)
      PROVE  PosterTypes' /\ TypesHold'
  BY <1>3, NobodyAssumption DEF Warm, Askers, Keys
<1>4. ASSUME NEW a \in Askers, Join(a)
      PROVE  PosterTypes' /\ TypesHold'
  BY <1>4 DEF Join
<1>5. ASSUME NEW a \in Askers, Answer(a)
      PROVE  PosterTypes' /\ TypesHold'
  BY <1>5 DEF Answer
<1>6. ASSUME NEW k \in Keys, Look(k) \/ Fetch(k) \/ FailFetch(k) \/ WriteTemp(k) \/ Rename(k)
      PROVE  PosterTypes' /\ TypesHold'
  BY <1>6 DEF Look, Fetch, FailFetch, WriteTemp, Rename
<1>7. ASSUME NEW k \in Keys, Glob(k) \/ Pruned(k)
      PROVE  PosterTypes' /\ TypesHold'
  BY <1>7 DEF Glob, Pruned
<1>8. ASSUME NEW k \in Keys, NEW o \in Keys, Remove(k, o)
      PROVE  PosterTypes' /\ TypesHold'
  <2>1. /\ flight' = [flight EXCEPT ![k].stale = @ \ {o}]
        /\ disk' = disk \/ disk' = disk \ {o}
        /\ short' \in BOOLEAN
        /\ UNCHANGED <<enabled, asker>>
    BY <1>8 DEF Remove
  <2>2. flight' \in [Keys -> [at : Stages, stale : SUBSET Keys]]
    BY <2>1
  <2>3. \A j \in Keys : flight'[j].stale \subseteq Others(j)
    BY <2>1
  <2>4. QED
    BY <2>1, <2>2, <2>3
<1>9. ASSUME NEW k \in Keys, Land(k)
      PROVE  PosterTypes' /\ TypesHold'
  BY <1>9 DEF Land
<1>10. ASSUME Restart
       PROVE  PosterTypes' /\ TypesHold'
  BY <1>10 DEF Restart
<1>11. CASE UNCHANGED vars
  BY <1>11 DEF vars
<1>12. QED
  BY <1>1, <1>2, <1>3, <1>4, <1>5, <1>6, <1>7, <1>8, <1>9, <1>10, <1>11 DEF Next, Flies

LEMMA NobodyWaitsAlonePreserved ==
  ASSUME PosterTypes, TypesHold, NobodyWaitsAlone, [Next]_vars
  PROVE  NobodyWaitsAlone'
<1> USE DEF PosterTypes, TypesHold, NobodyWaitsAlone, Goes, At, Idle
<1>1. ASSUME NEW v \in Viewers, NEW ref \in Foreign, Refuse(v, ref)
      PROVE  NobodyWaitsAlone'
  BY <1>1 DEF Refuse, Askers
<1>2. ASSUME NEW v \in Viewers, NEW k \in Keys, Ask(v, k)
      PROVE  NobodyWaitsAlone'
  BY <1>2 DEF Ask, Askers
<1>3. ASSUME NEW w \in Workers, NEW k \in Keys, Warm(w, k)
      PROVE  NobodyWaitsAlone'
  BY <1>3 DEF Warm, Askers
<1>4. ASSUME NEW a \in Askers, Join(a)
      PROVE  NobodyWaitsAlone'
  BY <1>4 DEF Join, Stages
<1>5. ASSUME NEW a \in Askers, Answer(a)
      PROVE  NobodyWaitsAlone'
  BY <1>5 DEF Answer
<1>6. ASSUME NEW k \in Keys, Look(k) \/ Fetch(k) \/ FailFetch(k) \/ WriteTemp(k) \/ Rename(k)
      PROVE  NobodyWaitsAlone'
  BY <1>6 DEF Look, Fetch, FailFetch, WriteTemp, Rename
<1>7. ASSUME NEW k \in Keys, Glob(k) \/ Pruned(k)
      PROVE  NobodyWaitsAlone'
  BY <1>7 DEF Glob, Pruned
<1>8. ASSUME NEW k \in Keys, NEW o \in Keys, Remove(k, o)
      PROVE  NobodyWaitsAlone'
  BY <1>8 DEF Remove
<1>9. ASSUME NEW k \in Keys, Land(k)
      PROVE  NobodyWaitsAlone'
  BY <1>9 DEF Land
<1>10. ASSUME Restart
       PROVE  NobodyWaitsAlone'
  BY <1>10 DEF Restart
<1>11. CASE UNCHANGED vars
  BY <1>11 DEF vars
<1>12. QED
  BY <1>1, <1>2, <1>3, <1>4, <1>5, <1>6, <1>7, <1>8, <1>9, <1>10, <1>11 DEF Next, Flies

\* A file that appears has all others to prune; a flight ends its pruning with
\* nothing left of what it found, and what has appeared since prunes for itself.
LEMMA TagsContestedPreserved ==
  ASSUME PosterTypes, TagsContested, [Next]_vars
  PROVE  TagsContested'
<1> SUFFICES ASSUME ~short',
                    NEW x \in disk', NEW y \in disk', x[1] = y[1], x # y
             PROVE  (WillRemove(x, y) \/ WillRemove(y, x))'
  BY DEF TagsContested
<1> USE DEF PosterTypes, TagsContested, WillRemove, Goes, At
<1>1. ASSUME UNCHANGED <<flight, disk, short>>
      PROVE  (WillRemove(x, y) \/ WillRemove(y, x))'
  BY <1>1
<1>2. ASSUME NEW a \in Askers, Join(a)
      PROVE  (WillRemove(x, y) \/ WillRemove(y, x))'
  BY <1>2 DEF Join
<1>3. ASSUME NEW k \in Keys, Look(k) \/ Fetch(k) \/ FailFetch(k) \/ WriteTemp(k)
      PROVE  (WillRemove(x, y) \/ WillRemove(y, x))'
  BY <1>3 DEF Look, Fetch, FailFetch, WriteTemp
<1>4. ASSUME NEW k \in Keys, Rename(k)
      PROVE  (WillRemove(x, y) \/ WillRemove(y, x))'
  BY <1>4 DEF Rename
<1>5. ASSUME NEW k \in Keys, Glob(k)
      PROVE  (WillRemove(x, y) \/ WillRemove(y, x))'
  BY <1>5 DEF Glob, Others
<1>6. ASSUME NEW k \in Keys, NEW o \in Keys, Remove(k, o)
      PROVE  (WillRemove(x, y) \/ WillRemove(y, x))'
  BY <1>6 DEF Remove
<1>7. ASSUME NEW k \in Keys, Pruned(k)
      PROVE  (WillRemove(x, y) \/ WillRemove(y, x))'
  BY <1>7 DEF Pruned
<1>8. ASSUME NEW k \in Keys, Land(k)
      PROVE  (WillRemove(x, y) \/ WillRemove(y, x))'
  BY <1>8 DEF Land, NoFlight
<1>9. ASSUME Restart
      PROVE  (WillRemove(x, y) \/ WillRemove(y, x))'
  BY <1>9 DEF Restart
<1>10. QED
  BY <1>1, <1>2, <1>3, <1>4, <1>5, <1>6, <1>7, <1>8, <1>9
     DEF Next, Flies, Refuse, Ask, Warm, Answer, vars

----------------------------------------------------------------------------
LEMMA IInvInvariant == Spec => []IInv
<1>1. IInv /\ [Next]_vars => IInv'
  BY TypesPreserved, NobodyWaitsAlonePreserved, TagsContestedPreserved DEF IInv
<1>2. QED
  BY InitIInv, <1>1, PTL DEF Spec

\* However many tags a poster is asked under, by however many requests at once:
\* a poster is cached under one tag at most when nobody prunes it, and whoever
\* waits for a fetch waits for one that is under way.
THEOREM OneTagIsKept == Spec => []CacheIsSound
<1>1. IInv => CacheIsSound
  BY ContestedTagsSettle DEF IInv, CacheIsSound
<1>2. QED
  BY IInvInvariant, <1>1, PTL

=============================================================================
