---------------------------- MODULE SourcesProofs ---------------------------
(***************************************************************************)
(* Proofs about Config, Sources and Shoe, for any values: what the lists   *)
(* are made into, what a save of the screen does to what the file and the  *)
(* environment resolve to, the set of sources that a configuration calls   *)
(* for, how names become libraries, and the merge of the copies of a film. *)
(***************************************************************************)
EXTENDS Shoe, SequenceTheorems, FiniteSetTheorems, TLAPS

----------------------------------------------------------------------------
(***************************************************************************)
(* Sequences.                                                              *)
(***************************************************************************)

LEMMA ElementsOf ==
  ASSUME NEW T, NEW s \in Seq(T)
  PROVE  /\ Len(s) \in Nat /\ DOMAIN s = 1..Len(s)
         /\ Range(s) = {s[i] : i \in 1..Len(s)}
         /\ Range(s) \subseteq T
         /\ \A i \in 1..Len(s) : s[i] \in T
<1>1. Len(s) \in Nat /\ DOMAIN s = 1..Len(s) /\ \A i \in 1..Len(s) : s[i] \in T
  BY LenProperties, ElementOfSeq
<1>2. QED
  BY <1>1 DEF Range

LEMMA RangeOfAppend ==
  ASSUME NEW T, NEW s \in Seq(T), NEW x \in T
  PROVE  /\ Append(s, x) \in Seq(T) /\ Len(Append(s, x)) = Len(s) + 1
         /\ Range(Append(s, x)) = Range(s) \cup {x}
         /\ \A i \in 1..Len(s) : Append(s, x)[i] = s[i]
         /\ Append(s, x)[Len(s) + 1] = x
<1>1. /\ Append(s, x) \in Seq(T) /\ Len(Append(s, x)) = Len(s) + 1
      /\ \A i \in 1..Len(s) : Append(s, x)[i] = s[i]
      /\ Append(s, x)[Len(s) + 1] = x
      /\ DOMAIN s = 1..Len(s) /\ DOMAIN Append(s, x) = 1..(Len(s) + 1) /\ Len(s) \in Nat
  BY AppendProperties, LenProperties
<1>2. QED
  BY <1>1 DEF Range

\* Sequences of one length that agree at every index are the same.
LEMMA SameSequence ==
  ASSUME NEW T, NEW s \in Seq(T), NEW n \in Nat, NEW t,
         t = [i \in 1..n |-> s[i]], Len(s) = n
  PROVE  t = s
<1>1. DOMAIN s = 1..n /\ s = [i \in DOMAIN s |-> s[i]]
  BY ElementsOf, SeqDef
<1>2. QED
  BY <1>1

\* What has a value for each number up to n is a sequence.
LEMMA Mapped ==
  ASSUME NEW n \in Nat, NEW U, NEW f \in [1..n -> U]
  PROVE  /\ f \in Seq(U) /\ Len(f) = n /\ DOMAIN f = 1..n
         /\ Range(f) = {f[i] : i \in 1..n}
<1>1. DOMAIN f = 1..n
  OBVIOUS
<1>2. f \in Seq(U) /\ Len(f) = n
  BY <1>1, SeqDef, LenProperties, IsASeq
<1>3. QED
  BY <1>1, <1>2 DEF Range

----------------------------------------------------------------------------
(***************************************************************************)
(* Only.                                                                   *)
(***************************************************************************)

OnlyStep(S, none, out, x) == IF x \in S THEN Append(out, x) ELSE out
OnlyInv(about, k, out) ==
  /\ out \in Seq(about.keep)
  /\ Range(out) = {about.seq[i] : i \in 1..k} \cap about.keep
  /\ (\A i \in 1..k : about.seq[i] \in about.keep) => out = [i \in 1..k |-> about.seq[i]]
OnlyFold == INSTANCE FoldTheorems WITH Step <- OnlyStep, Inv <- OnlyInv

\* An append puts the next element behind the first ones.
LEMMA AppendNext ==
  ASSUME NEW T, NEW seq, NEW n \in Nat, NEW k \in 1..n,
         NEW out \in Seq(T), out = [i \in 1..(k - 1) |-> seq[i]], seq[k] \in T
  PROVE  Append(out, seq[k]) = [i \in 1..k |-> seq[i]]
<1>1. DOMAIN out = 1..Len(out) /\ DOMAIN out = 1..(k - 1) /\ Len(out) \in Nat
  BY ElementsOf
<1>2. Len(out) = k - 1
  BY <1>1
<1>3. PICK longer : longer = Append(out, seq[k])
  BY Zenon
<1>4. /\ longer \in Seq(T) /\ Len(longer) = k
      /\ \A i \in 1..(k - 1) : longer[i] = out[i]
      /\ longer[k] = seq[k]
  BY <1>2, <1>3, RangeOfAppend
<1>5. \A i \in 1..k : longer[i] = seq[i]
  BY <1>4
<1>6. longer \in [1..k -> T]
  BY <1>4, LenProperties
<1>7. QED
  BY <1>3, <1>5, <1>6

\* What is in S of a sequence, and all of it, in its order, if all of it is.
LEMMA OnlyIs ==
  ASSUME NEW T, NEW seq \in Seq(T), NEW S
  PROVE  /\ Only(seq, S) \in Seq(T \cap S)
         /\ Range(Only(seq, S)) = Range(seq) \cap S
         /\ Range(seq) \subseteq S => Only(seq, S) = seq
<1> DEFINE K == T \cap S
<1> HIDE DEF K
<1>1. PICK about : about = [seq |-> seq, keep |-> K]
  BY Zenon
<1>2. about.seq = seq /\ about.keep = K
  BY <1>1
<1>3. /\ Len(seq) \in Nat /\ DOMAIN seq = 1..Len(seq) /\ Range(seq) = {seq[i] : i \in 1..Len(seq)}
      /\ \A i \in 1..Len(seq) : seq[i] \in T
  BY ElementsOf
<1>4. OnlyInv(about, 0, <<>>)
  <2>1. PICK nothing : nothing = <<>>
    OBVIOUS
  <2>2. nothing \in Seq(K) /\ Range(nothing) = {} /\ nothing = [i \in 1..0 |-> seq[i]]
    BY <2>1 DEF Range
  <2>3. QED
    BY <1>2, <2>1, <2>2 DEF OnlyInv
<1>5. ASSUME NEW k \in 1..Len(seq), NEW out, OnlyInv(about, k - 1, out)
      PROVE  OnlyInv(about, k, OnlyStep(S, 0, out, seq[k]))
  <2>1. {seq[i] : i \in 1..k} = {seq[i] : i \in 1..(k - 1)} \cup {seq[k]}
    BY <1>3
  <2>2. /\ out \in Seq(K)
        /\ Range(out) = {seq[i] : i \in 1..(k - 1)} \cap K
        /\ (\A i \in 1..(k - 1) : seq[i] \in K) => out = [i \in 1..(k - 1) |-> seq[i]]
    BY <1>2, <1>5 DEF OnlyInv
  <2>3. CASE seq[k] \in S
    <3>1. seq[k] \in K
      BY <1>3, <2>3 DEF K
    <3>2. PICK longer : longer = Append(out, seq[k])
      BY Zenon
    <3>3. longer \in Seq(K) /\ Range(longer) = Range(out) \cup {seq[k]}
      BY <2>2, <3>1, <3>2, RangeOfAppend
    <3>4. (\A i \in 1..k : seq[i] \in K) => longer = [i \in 1..k |-> seq[i]]
      BY <1>3, <2>2, <3>1, <3>2, AppendNext
    <3>5. OnlyInv(about, k, longer)
      BY <1>2, <2>1, <2>2, <3>1, <3>3, <3>4 DEF OnlyInv
    <3>6. QED
      BY <2>3, <3>2, <3>5 DEF OnlyStep
  <2>4. CASE seq[k] \notin S
    <3>1. OnlyInv(about, k, out)
      BY <1>2, <2>1, <2>2, <2>4 DEF OnlyInv, K
    <3>2. QED
      BY <2>4, <3>1 DEF OnlyStep
  <2>5. QED
    BY <2>3, <2>4
<1>6. OnlyInv(about, Len(seq), OnlyFold!Result(S, 0, <<>>, seq))
  BY <1>3, <1>4, <1>5, OnlyFold!FoldKeeps
<1>7. Only(seq, S) = OnlyFold!Result(S, 0, <<>>, seq)
  BY DEF Only, OnlyStep, OnlyFold!Result, FoldLeft, MapThenFoldSet,
         OnlyFold!MapThenFoldSet, Max, OnlyFold!Highest
<1>8. OnlyInv(about, Len(seq), Only(seq, S))
  BY <1>6, <1>7
<1>9. /\ Only(seq, S) \in Seq(K) /\ Range(Only(seq, S)) = Range(seq) \cap K
      /\ (\A i \in 1..Len(seq) : seq[i] \in K) =>
           Only(seq, S) = [i \in 1..Len(seq) |-> seq[i]]
  BY <1>2, <1>3, <1>8 DEF OnlyInv
<1>10. seq = [i \in 1..Len(seq) |-> seq[i]]
  BY <1>3, SameSequence
<1>11. QED
  BY <1>3, <1>9, <1>10 DEF K

----------------------------------------------------------------------------
(***************************************************************************)
(* Texts.                                                                  *)
(***************************************************************************)

LEMMA TextFacts ==
  ASSUME NEW t \in Texts
  PROVE  /\ TrimSpace(t) \in Texts /\ ToLower(t) \in Texts /\ ToUpper(t) \in Texts
         /\ TrimSpace(TrimSpace(t)) = TrimSpace(t)
         /\ ToLower(TrimSpace(t)) = TrimSpace(ToLower(t))
         /\ ToLower(ToLower(t)) = ToLower(t)
         /\ TrimSpace(ToUpper(TrimSpace(t))) = ToUpper(TrimSpace(t))
         /\ ToUpper(ToUpper(t)) = ToUpper(t)
         /\ IsBlank(TrimSpace(t)) <=> IsBlank(t)
         /\ Empty \in Texts /\ Blank \in Words
BY TextsAssumption, Zenon DEF Texts, TrimSpace, ToLower, ToUpper, IsBlank, Empty, Plain

LEMMA PlainFacts ==
  ASSUME NEW w \in Words
  PROVE  /\ Plain(w) \in Texts
         /\ TrimSpace(Plain(w)) = Plain(w)
         /\ ToLower(Plain(w)) = Plain(w)
<1>1. PICK t \in Texts : t = Plain(w)
  BY Zenon DEF Plain, Texts
<1>2. ~t.spaced /\ ~t.upper
  BY <1>1 DEF Plain
<1>3. TrimSpace(t) = t /\ ToLower(t) = t
  BY <1>2 DEF TrimSpace, ToLower, Texts
<1>4. QED
  BY <1>1, <1>3

\* Trimmed, none of them blank, none twice.
CleanTexts(s) ==
  /\ s \in Seq(Texts)
  /\ \A i \in DOMAIN s : TrimSpace(s[i]) = s[i] /\ ~IsBlank(s[i])
  /\ \A i, j \in DOMAIN s : s[i] = s[j] => i = j

DistinctStep(none, nothing, out, t) ==
  IF IsBlank(t) \/ Contains(out, TrimSpace(t)) THEN out ELSE Append(out, TrimSpace(t))
DistinctInv(texts, k, out) ==
  /\ CleanTexts(out)
  /\ Range(out) \subseteq {TrimSpace(texts[i]) : i \in 1..k}
  /\ CleanTexts(texts) => out = [i \in 1..k |-> texts[i]]
DistinctFold == INSTANCE FoldTheorems WITH Step <- DistinctStep, Inv <- DistinctInv

LEMMA DistinctIs ==
  ASSUME NEW texts \in Seq(Texts)
  PROVE  /\ CleanTexts(Distinct(texts))
         /\ Range(Distinct(texts)) \subseteq {TrimSpace(t) : t \in Range(texts)}
         /\ CleanTexts(texts) => Distinct(texts) = texts
<1>1. /\ Len(texts) \in Nat /\ DOMAIN texts = 1..Len(texts)
      /\ Range(texts) = {texts[i] : i \in 1..Len(texts)}
      /\ \A i \in 1..Len(texts) : texts[i] \in Texts
  BY ElementsOf
<1>2. DistinctInv(texts, 0, <<>>)
  <2>1. PICK nothing : nothing = <<>>
    OBVIOUS
  <2>2. nothing \in Seq(Texts) /\ DOMAIN nothing = {} /\ nothing = [i \in 1..0 |-> texts[i]]
    BY <2>1
  <2>3. DistinctInv(texts, 0, nothing)
    BY <2>2 DEF DistinctInv, CleanTexts, Range
  <2>4. QED
    BY <2>1, <2>3
<1>3. ASSUME NEW k \in 1..Len(texts), NEW out, DistinctInv(texts, k - 1, out)
      PROVE  DistinctInv(texts, k, DistinctStep(0, 0, out, texts[k]))
  <2>1. PICK t \in Texts : t = TrimSpace(texts[k])
    BY <1>1, TextFacts
  <2>2. /\ out \in Seq(Texts) /\ CleanTexts(out) /\ Len(out) \in Nat /\ DOMAIN out = 1..Len(out)
        /\ Range(out) = {out[i] : i \in 1..Len(out)}
    BY <1>3, ElementsOf, Zenon DEF DistinctInv, CleanTexts
  <2>3. {TrimSpace(texts[i]) : i \in 1..k} =
          {TrimSpace(texts[i]) : i \in 1..(k - 1)} \cup {TrimSpace(texts[k])}
    BY <1>1
  <2>4. Range(out) \subseteq {TrimSpace(texts[i]) : i \in 1..(k - 1)}
    BY <1>3 DEF DistinctInv
  <2>5. CleanTexts(texts) => out = [i \in 1..(k - 1) |-> texts[i]]
    BY <1>3 DEF DistinctInv
  <2>6. TrimSpace(t) = t /\ (IsBlank(t) <=> IsBlank(texts[k]))
    BY <1>1, <2>1, TextFacts
  <2>7. CASE IsBlank(texts[k]) \/ Contains(out, TrimSpace(texts[k]))
    <3>1. ~CleanTexts(texts)
      <4>1. ASSUME CleanTexts(texts)
            PROVE  FALSE
        <5>1. ~IsBlank(texts[k]) /\ t = texts[k]
          BY <1>1, <2>1, <4>1 DEF CleanTexts
        <5>2. PICK i \in 1..Len(out) : out[i] = t
          BY <2>1, <2>7, <5>1 DEF Contains
        <5>3. Len(out) = k - 1 /\ out[i] = texts[i]
          BY <2>2, <2>5, <4>1
        <5>4. i \in DOMAIN texts /\ k \in DOMAIN texts /\ i # k /\ texts[i] = texts[k]
          BY <1>1, <5>1, <5>2, <5>3
        <5>5. QED
          BY <4>1, <5>4 DEF CleanTexts
      <4>2. QED
        BY <4>1
    <3>2. DistinctInv(texts, k, out)
      BY <2>2, <2>3, <2>4, <3>1, Zenon DEF DistinctInv
    <3>3. QED
      BY <2>7, <3>2 DEF DistinctStep
  <2>8. CASE ~IsBlank(texts[k]) /\ ~Contains(out, TrimSpace(texts[k]))
    <3>1. PICK longer : longer = Append(out, t)
      BY Zenon
    <3>2. /\ longer \in Seq(Texts) /\ Len(longer) = Len(out) + 1
          /\ Range(longer) = Range(out) \cup {t}
          /\ \A i \in 1..Len(out) : longer[i] = out[i]
          /\ longer[Len(out) + 1] = t
          /\ DOMAIN longer = 1..(Len(out) + 1)
      BY <2>2, <3>1, RangeOfAppend, LenProperties
    <3>3. \A i \in 1..Len(out) : out[i] # t
      BY <2>1, <2>8 DEF Contains
    <3>4. ~IsBlank(t)
      BY <2>6, <2>8
    <3>5. \A i \in 1..Len(out) : TrimSpace(out[i]) = out[i] /\ ~IsBlank(out[i])
      BY <2>2 DEF CleanTexts
    <3>6. \A i, j \in 1..Len(out) : out[i] = out[j] => i = j
      BY <2>2 DEF CleanTexts
    <3>7. \A i \in DOMAIN longer : TrimSpace(longer[i]) = longer[i] /\ ~IsBlank(longer[i])
      BY <2>2, <2>6, <3>2, <3>4, <3>5
    <3>8. \A i, j \in DOMAIN longer : longer[i] = longer[j] => i = j
      BY <2>2, <3>2, <3>3, <3>6
    <3>9. CleanTexts(longer)
      BY <3>2, <3>7, <3>8 DEF CleanTexts
    <3>10. CleanTexts(texts) => longer = [i \in 1..k |-> texts[i]]
      <4>1. CleanTexts(texts) => t = texts[k]
        BY <1>1, <2>1 DEF CleanTexts
      <4>2. CleanTexts(texts) => Append(out, texts[k]) = [i \in 1..k |-> texts[i]]
        BY <1>1, <2>2, <2>5, AppendNext
      <4>3. QED
        BY <3>1, <4>1, <4>2, Zenon
    <3>11. DistinctInv(texts, k, longer)
      BY <2>1, <2>3, <2>4, <3>2, <3>9, <3>10 DEF DistinctInv
    <3>12. QED
      BY <2>1, <2>8, <3>1, <3>11 DEF DistinctStep
  <2>9. QED
    BY <2>7, <2>8
<1>4. DistinctInv(texts, Len(texts), DistinctFold!Result(0, 0, <<>>, texts))
  BY <1>1, <1>2, <1>3, DistinctFold!FoldKeeps
<1>5. Distinct(texts) = DistinctFold!Result(0, 0, <<>>, texts)
  BY DEF Distinct, DistinctStep, DistinctFold!Result, FoldLeft,
         MapThenFoldSet, DistinctFold!MapThenFoldSet, Max, DistinctFold!Highest
<1>6. DistinctInv(texts, Len(texts), Distinct(texts))
  BY <1>4, <1>5
<1>7. texts = [i \in 1..Len(texts) |-> texts[i]]
  BY <1>1, SameSequence
<1>8. {TrimSpace(texts[i]) : i \in 1..Len(texts)} = {TrimSpace(t) : t \in Range(texts)}
  BY <1>1
<1>9. QED
  BY <1>6, <1>7, <1>8, Zenon DEF DistinctInv

----------------------------------------------------------------------------
(***************************************************************************)
(* Lists of libraries and of services.                                     *)
(***************************************************************************)

LEMMA KeyKinds ==
  /\ \A k \in Keys : \/ k \in Toggles /\ ValuesOf(k) = BOOLEAN
                     \/ k \in Scalars /\ ValuesOf(k) = Texts
                     \/ k \in LibraryLists /\ ValuesOf(k) = Seq(Refs)
                     \/ k = "streaming.providers" /\ ValuesOf(k) = Seq(Texts)
  /\ Toggles \cap Scalars = {} /\ Toggles \cap Lists = {} /\ Scalars \cap Lists = {}
  /\ LibraryLists \subseteq Lists /\ "streaming.providers" \in Lists \ LibraryLists
  /\ Lists = LibraryLists \cup {"streaming.providers"}
  /\ Secrets \subseteq Scalars /\ "streaming.watchRegion" \in Scalars \ Secrets
  /\ Keys = Toggles \cup Scalars \cup Lists
BY DEF Keys, Toggles, Scalars, Secrets, Lists, LibraryLists, ValuesOf

LEMMA AbsentIsNothing ==
  /\ Absent \notin Texts /\ Placeholder \notin Texts
  /\ Absent \notin BOOLEAN /\ Absent \notin Seq(Refs) /\ Absent \notin Seq(Texts)
<1>1. "publicUrl" \in Scalars /\ "plex.enabled" \in Toggles /\ "plex.libraries" \in LibraryLists
  BY DEF Scalars, Toggles, LibraryLists
<1>2. "publicUrl" \in Keys /\ "plex.enabled" \in Keys /\ "plex.libraries" \in Keys
      /\ "streaming.providers" \in Keys
  BY <1>1, KeyKinds
<1>3. /\ ValuesOf("publicUrl") = Texts /\ ValuesOf("plex.enabled") = BOOLEAN
      /\ ValuesOf("plex.libraries") = Seq(Refs) /\ ValuesOf("streaming.providers") = Seq(Texts)
  BY DEF ValuesOf, Toggles, Scalars, Secrets, LibraryLists
<1>4. QED
  BY <1>2, <1>3, AbsentAssumption

\* The entry of the resolved list that an entry of the file becomes.
Entered(l) == Library(TrimSpace(l.id), IF l.name = Absent THEN Empty ELSE TrimSpace(l.name))

\* Trimmed, with an identifier each that no other has.
CleanRefs(s) ==
  /\ s \in Seq(Refs)
  /\ \A i \in DOMAIN s : /\ TrimSpace(s[i].id) = s[i].id /\ ~IsBlank(s[i].id)
                         /\ TrimSpace(s[i].name) = s[i].name
  /\ \A i, j \in DOMAIN s : s[i].id = s[j].id => i = j

LEMMA EnteredIs ==
  ASSUME NEW l \in FileRefs, l.id # Absent
  PROVE  /\ Entered(l) \in Refs
         /\ Entered(l).id = TrimSpace(l.id) /\ l.id \in Texts
         /\ TrimSpace(Entered(l).id) = Entered(l).id
         /\ TrimSpace(Entered(l).name) = Entered(l).name
         /\ IsBlank(Entered(l).id) <=> IsBlank(l.id)
<1>1. l.id \in Texts /\ l.name \in Texts \cup {Absent}
  BY DEF FileRefs
<1>2. Empty \in Texts /\ TrimSpace(Empty) = Empty
  BY TextsAssumption, PlainFacts DEF Empty
<1>3. CASE l.name = Absent
  BY <1>1, <1>2, <1>3, TextFacts DEF Entered, Library, Refs
<1>4. CASE l.name # Absent
  <2>1. l.name \in Texts
    BY <1>1, <1>4
  <2>2. /\ TrimSpace(l.name) \in Texts /\ TrimSpace(TrimSpace(l.name)) = TrimSpace(l.name)
        /\ TrimSpace(l.id) \in Texts /\ TrimSpace(TrimSpace(l.id)) = TrimSpace(l.id)
        /\ IsBlank(TrimSpace(l.id)) <=> IsBlank(l.id)
    BY <1>1, <2>1, TextFacts
  <2>3. Entered(l) = [id |-> TrimSpace(l.id), name |-> TrimSpace(l.name)]
    BY <1>4 DEF Entered, Library
  <2>4. QED
    BY <1>1, <2>2, <2>3 DEF Refs
<1>5. QED
  BY <1>3, <1>4

FileStep(none, nothing, out, l) ==
  IF l.id = Absent \/ IsBlank(l.id) THEN out
  ELSE IF \E i \in DOMAIN out : out[i].id = TrimSpace(l.id) THEN out
  ELSE Append(out, Library(TrimSpace(l.id), IF l.name = Absent THEN Empty ELSE TrimSpace(l.name)))
FileInv(entries, k, out) ==
  /\ CleanRefs(out)
  /\ \A r \in Range(out) : \E i \in 1..k : entries[i].id # Absent /\ r = Entered(entries[i])
  /\ CleanRefs(entries) => out = [i \in 1..k |-> entries[i]]
FileFold == INSTANCE FoldTheorems WITH Step <- FileStep, Inv <- FileInv

LEMMA FileLibrariesIs ==
  ASSUME NEW entries \in Seq(FileRefs)
  PROVE  /\ CleanRefs(FileLibraries(entries))
         /\ \A r \in Range(FileLibraries(entries)) :
              \E l \in Range(entries) : l.id # Absent /\ r = Entered(l)
         /\ CleanRefs(entries) => FileLibraries(entries) = entries
<1>1. /\ Len(entries) \in Nat /\ DOMAIN entries = 1..Len(entries)
      /\ Range(entries) = {entries[i] : i \in 1..Len(entries)}
      /\ \A i \in 1..Len(entries) : entries[i] \in FileRefs
  BY ElementsOf
<1>2. FileInv(entries, 0, <<>>)
  <2>1. PICK nothing : nothing = <<>>
    OBVIOUS
  <2>2. nothing \in Seq(Refs) /\ DOMAIN nothing = {} /\ nothing = [i \in 1..0 |-> entries[i]]
    BY <2>1
  <2>3. FileInv(entries, 0, nothing)
    BY <2>2 DEF FileInv, CleanRefs, Range
  <2>4. QED
    BY <2>1, <2>3
<1>3. ASSUME NEW k \in 1..Len(entries), NEW out, FileInv(entries, k - 1, out)
      PROVE  FileInv(entries, k, FileStep(0, 0, out, entries[k]))
  <2>1. PICK l \in FileRefs : l = entries[k]
    BY <1>1
  <2>2. /\ out \in Seq(Refs) /\ CleanRefs(out) /\ Len(out) \in Nat /\ DOMAIN out = 1..Len(out)
        /\ Range(out) = {out[i] : i \in 1..Len(out)}
    BY <1>3, ElementsOf DEF FileInv, CleanRefs
  <2>3. \A r \in Range(out) : \E i \in 1..k : entries[i].id # Absent /\ r = Entered(entries[i])
    <3>1. \A r \in Range(out) :
            \E i \in 1..(k - 1) : entries[i].id # Absent /\ r = Entered(entries[i])
      BY <1>3 DEF FileInv
    <3>2. 1..(k - 1) \subseteq 1..k
      BY <1>1
    <3>3. QED
      BY <3>1, <3>2
  <2>4. CleanRefs(entries) => out = [i \in 1..(k - 1) |-> entries[i]]
    BY <1>3 DEF FileInv
  <2>5. CASE l.id = Absent \/ IsBlank(l.id) \/ \E i \in DOMAIN out : out[i].id = TrimSpace(l.id)
    <3>1. ASSUME CleanRefs(entries)
          PROVE  FALSE
      <4>1. l \in Refs /\ TrimSpace(l.id) = l.id /\ ~IsBlank(l.id)
        BY <1>1, <2>1, <3>1, ElementOfSeq DEF CleanRefs
      <4>2. l.id # Absent
        BY <4>1, AbsentIsNothing DEF Refs
      <4>3. PICK i \in 1..Len(out) : out[i].id = l.id
        BY <2>2, <2>5, <4>1, <4>2
      <4>4. Len(out) = k - 1 /\ out[i] = entries[i]
        BY <2>2, <2>4, <3>1
      <4>5. i \in DOMAIN entries /\ k \in DOMAIN entries /\ i # k /\ entries[i].id = entries[k].id
        BY <1>1, <2>1, <4>3, <4>4
      <4>6. QED
        BY <3>1, <4>5 DEF CleanRefs
    <3>2. FileInv(entries, k, out)
      BY <2>2, <2>3, <3>1 DEF FileInv
    <3>3. QED
      BY <2>1, <2>5, <3>2 DEF FileStep
  <2>6. CASE l.id # Absent /\ ~IsBlank(l.id) /\ ~\E i \in DOMAIN out : out[i].id = TrimSpace(l.id)
    <3>1. PICK e : e = Entered(l)
      OBVIOUS
    <3>2. /\ e \in Refs /\ e.id = TrimSpace(l.id) /\ TrimSpace(e.id) = e.id /\ ~IsBlank(e.id)
          /\ TrimSpace(e.name) = e.name
      BY <2>6, <3>1, EnteredIs
    <3>3. PICK longer : longer = Append(out, e)
      BY Zenon
    <3>4. /\ longer \in Seq(Refs) /\ Range(longer) = Range(out) \cup {e}
          /\ \A i \in 1..Len(out) : longer[i] = out[i]
          /\ longer[Len(out) + 1] = e
          /\ DOMAIN longer = 1..(Len(out) + 1)
      BY <2>2, <3>2, <3>3, RangeOfAppend, LenProperties
    <3>5. \A i \in 1..Len(out) : out[i].id # e.id
      BY <2>2, <2>6, <3>2
    <3>6. /\ \A i \in 1..Len(out) : /\ TrimSpace(out[i].id) = out[i].id /\ ~IsBlank(out[i].id)
                                    /\ TrimSpace(out[i].name) = out[i].name
          /\ \A i, j \in 1..Len(out) : out[i].id = out[j].id => i = j
      BY <2>2, Zenon DEF CleanRefs
    <3>7. \A i \in DOMAIN longer : /\ TrimSpace(longer[i].id) = longer[i].id
                                   /\ ~IsBlank(longer[i].id)
                                   /\ TrimSpace(longer[i].name) = longer[i].name
      BY <2>2, <3>2, <3>4, <3>6
    <3>8. \A i, j \in DOMAIN longer : longer[i].id = longer[j].id => i = j
      BY <2>2, <3>4, <3>5, <3>6
    <3>9. CleanRefs(longer)
      BY <3>4, <3>7, <3>8 DEF CleanRefs
    <3>10. CleanRefs(entries) => longer = [i \in 1..k |-> entries[i]]
      <4>1. ASSUME CleanRefs(entries)
            PROVE  e = entries[k] /\ entries[k] \in Refs
        <5>1. l \in Refs /\ TrimSpace(l.id) = l.id /\ TrimSpace(l.name) = l.name
          BY <1>1, <2>1, <4>1, ElementOfSeq DEF CleanRefs
        <5>2. l.name # Absent
          BY <5>1, AbsentIsNothing DEF Refs
        <5>3. e = l
          BY <3>1, <5>1, <5>2 DEF Entered, Library, Refs
        <5>4. QED
          BY <2>1, <5>1, <5>3
      <4>2. CleanRefs(entries) => Append(out, entries[k]) = [i \in 1..k |-> entries[i]]
        BY <1>1, <2>2, <2>4, <4>1, AppendNext
      <4>3. QED
        BY <3>3, <4>1, <4>2, Zenon
    <3>11. FileInv(entries, k, longer)
      BY <2>1, <2>3, <2>6, <3>1, <3>4, <3>9, <3>10 DEF FileInv
    <3>12. QED
      BY <2>1, <2>6, <3>1, <3>3, <3>11 DEF FileStep, Entered
  <2>7. QED
    BY <2>5, <2>6
<1>4. FileInv(entries, Len(entries), FileFold!Result(0, 0, <<>>, entries))
  BY <1>1, <1>2, <1>3, FileFold!FoldKeeps
<1>5. FileLibraries(entries) = FileFold!Result(0, 0, <<>>, entries)
  BY DEF FileLibraries, FileStep, FileFold!Result, FoldLeft,
         MapThenFoldSet, FileFold!MapThenFoldSet, Max, FileFold!Highest
<1>6. FileInv(entries, Len(entries), FileLibraries(entries))
  BY <1>4, <1>5
<1>7. CleanRefs(entries) => entries = [i \in 1..Len(entries) |-> entries[i]]
  BY <1>1, SameSequence
<1>8. QED
  BY <1>1, <1>6, <1>7 DEF FileInv

\* A list of texts, each in lower case and trimmed, as services are kept.
CleanProviders(s) == CleanTexts(s) /\ \A i \in DOMAIN s : ToLower(s[i]) = s[i]

LEMMA NormalizedIs ==
  ASSUME NEW texts \in Seq(Texts)
  PROVE  /\ CleanProviders(NormalizeProviders(texts))
         /\ CleanProviders(texts) => NormalizeProviders(texts) = texts
<1>1. /\ Len(texts) \in Nat /\ DOMAIN texts = 1..Len(texts)
      /\ \A i \in DOMAIN texts : texts[i] \in Texts
  BY ElementsOf
<1>2. PICK low : low = [i \in DOMAIN texts |-> ToLower(texts[i])]
  BY Zenon
<1>3. /\ low \in Seq(Texts) /\ Len(low) = Len(texts)
      /\ Range(low) = {low[i] : i \in DOMAIN texts}
  <2>1. \A t \in Texts : ToLower(t) \in Texts
    BY TextFacts
  <2>2. low \in [1..Len(texts) -> Texts]
    BY <1>1, <1>2, <2>1
  <2>3. QED
    BY <1>1, <2>2, Mapped, Zenon
<1>4. NormalizeProviders(texts) = Distinct(low)
  BY <1>2 DEF NormalizeProviders
<1>5. PICK out : out = Distinct(low)
  OBVIOUS
<1>6. CleanTexts(out) /\ Range(out) \subseteq {TrimSpace(t) : t \in Range(low)}
  BY <1>3, <1>5, DistinctIs
<1>7. ASSUME NEW i \in DOMAIN out
      PROVE  ToLower(out[i]) = out[i]
  <2>1. out[i] \in Range(out)
    BY DEF Range
  <2>2. PICK j \in DOMAIN texts : out[i] = TrimSpace(low[j])
    BY <1>3, <1>6, <2>1
  <2>3. PICK t \in Texts : t = texts[j]
    BY <1>1
  <2>4. low[j] = ToLower(t)
    BY <1>2, <2>3
  <2>5. PICK l \in Texts : l = ToLower(t)
    BY TextFacts
  <2>6. ToLower(TrimSpace(l)) = TrimSpace(ToLower(l)) /\ ToLower(l) = l
    BY <2>5, TextFacts
  <2>7. QED
    BY <2>2, <2>4, <2>5, <2>6
<1>8. ASSUME CleanProviders(texts)
      PROVE  NormalizeProviders(texts) = texts
  <2>1. \A i \in DOMAIN texts : low[i] = texts[i]
    BY <1>2, <1>8 DEF CleanProviders
  <2>2. texts = [i \in 1..Len(texts) |-> texts[i]]
    BY <1>1, SameSequence
  <2>3. low = texts
    BY <1>1, <1>2, <2>1, <2>2
  <2>4. QED
    BY <1>4, <1>8, <2>3, DistinctIs DEF CleanProviders
<1>9. QED
  BY <1>4, <1>5, <1>6, <1>7, <1>8 DEF CleanProviders

LEMMA DefaultsAreClean == CleanProviders(DefaultProviders)
<1>1. PICK s : s = DefaultProviders
  OBVIOUS
<1>2. s = <<Plain("netflix"), Plain("prime"), Plain("disney")>>
  BY <1>1 DEF DefaultProviders
<1>3. Plain("netflix") \in Texts /\ Plain("prime") \in Texts /\ Plain("disney") \in Texts
  BY TextsAssumption DEF Plain, Texts
<1>4. s \in Seq(Texts) /\ DOMAIN s = {1, 2, 3}
  BY <1>2, <1>3
<1>5. /\ TrimSpace(Plain("netflix")) = Plain("netflix") /\ ToLower(Plain("netflix")) = Plain("netflix")
      /\ TrimSpace(Plain("prime")) = Plain("prime") /\ ToLower(Plain("prime")) = Plain("prime")
      /\ TrimSpace(Plain("disney")) = Plain("disney") /\ ToLower(Plain("disney")) = Plain("disney")
  BY TextsAssumption, PlainFacts
<1>6. /\ Plain("netflix") # Empty /\ Plain("prime") # Empty /\ Plain("disney") # Empty
      /\ Plain("netflix") # Plain("prime") /\ Plain("netflix") # Plain("disney")
      /\ Plain("prime") # Plain("disney")
  BY TextsAssumption DEF Empty, Plain
<1>7. /\ s[1] = Plain("netflix") /\ s[2] = Plain("prime") /\ s[3] = Plain("disney")
  BY <1>2
<1>8. \A i \in DOMAIN s : TrimSpace(s[i]) = s[i] /\ ToLower(s[i]) = s[i] /\ ~IsBlank(s[i])
  BY <1>4, <1>5, <1>6, <1>7 DEF IsBlank
<1>9. \A i, j \in DOMAIN s : s[i] = s[j] => i = j
  BY <1>4, <1>6, <1>7
<1>10. QED
  BY <1>1, <1>4, <1>8, <1>9 DEF CleanProviders, CleanTexts

\* What the environment names is known by identifiers alone.
LEMMA ParsedIs ==
  ASSUME NEW raw \in Seq(Texts)
  PROVE  /\ CleanRefs(ParseLibraryList(raw))
         /\ \A r \in Range(ParseLibraryList(raw)) : r.name = Empty
<1>1. PICK ids : ids = Distinct(raw)
  OBVIOUS
<1>2. CleanTexts(ids)
  BY <1>1, DistinctIs
<1>3. ids \in Seq(Texts)
  BY <1>2 DEF CleanTexts
<1>4. PICK list : list = [i \in DOMAIN ids |-> Library(ids[i], Empty)]
  BY Zenon
<1>5. DOMAIN list = DOMAIN ids /\ list = [i \in DOMAIN list |-> list[i]]
  BY <1>4
<1>6. Empty \in Texts
  BY TextsAssumption, PlainFacts DEF Empty
<1>7. TrimSpace(Empty) = Empty
  BY TextsAssumption, PlainFacts DEF Empty
<1>8. \A i \in DOMAIN ids : ids[i] \in Texts
  BY <1>3, ElementsOf
<1>9. \A i \in DOMAIN ids : list[i].id = ids[i] /\ list[i].name = Empty
  BY <1>4 DEF Library
<1>10. /\ list \in Seq(Refs) /\ Len(list) = Len(ids)
       /\ Range(list) = {list[i] : i \in DOMAIN ids}
  <2>1. Len(ids) \in Nat /\ DOMAIN ids = 1..Len(ids)
    BY <1>3, ElementsOf
  <2>2. \A i \in DOMAIN ids : list[i] \in Refs
    BY <1>4, <1>6, <1>8 DEF Library, Refs
  <2>3. list \in [1..Len(ids) -> Refs]
    BY <1>4, <2>1, <2>2
  <2>4. QED
    BY <2>1, <2>3, Mapped, Zenon
<1>11. CleanRefs(list)
  BY <1>2, <1>5, <1>7, <1>9, <1>10 DEF CleanRefs, CleanTexts
<1>12. ParseLibraryList(raw) = list
  BY <1>1, <1>4 DEF ParseLibraryList
<1>13. QED
  BY <1>9, <1>10, <1>11, <1>12

\* What a list is stored as, and what is read of it again.
LEMMA StoredIs ==
  ASSUME NEW list \in Seq(Refs), NEW k \in LibraryLists
  PROVE  /\ StoredList(k, list) \in Seq(Refs)
         /\ \A r \in Range(StoredList(k, list)) : \E l \in Range(list) : r = Entered(l)
         /\ CleanRefs(list) => StoredList(k, list) = list
<1>1. /\ Len(list) \in Nat /\ DOMAIN list = 1..Len(list)
      /\ Range(list) = {list[i] : i \in 1..Len(list)}
      /\ \A i \in DOMAIN list : list[i] \in Refs
  BY ElementsOf
<1>2. PICK trimmed :
        trimmed = [i \in DOMAIN list |-> Library(TrimSpace(list[i].id), TrimSpace(list[i].name))]
  BY Zenon
<1>3. ASSUME NEW l \in Refs
      PROVE  /\ Entered(l) = Library(TrimSpace(l.id), TrimSpace(l.name))
             /\ Entered(l) \in Refs
             /\ TrimSpace(l.id) = l.id /\ TrimSpace(l.name) = l.name => Entered(l) = l
  <2>1. l.id \in Texts /\ l.name \in Texts /\ l.name # Absent
    BY AbsentIsNothing DEF Refs
  <2>2. Entered(l) = Library(TrimSpace(l.id), TrimSpace(l.name))
    BY <2>1 DEF Entered
  <2>3. TrimSpace(l.id) \in Texts /\ TrimSpace(l.name) \in Texts
    BY <2>1, TextFacts
  <2>4. QED
    BY <2>2, <2>3 DEF Library, Refs
<1>4. \A i \in DOMAIN list : trimmed[i] = Entered(list[i]) /\ trimmed[i] \in Refs
  BY <1>1, <1>2, <1>3
<1>5. /\ trimmed \in Seq(Refs) /\ Len(trimmed) = Len(list)
      /\ Range(trimmed) = {trimmed[i] : i \in DOMAIN list}
  <2>1. trimmed \in [1..Len(list) -> Refs]
    BY <1>1, <1>2, <1>4
  <2>2. PICK n \in Nat : n = Len(list)
    BY <1>1, Zenon
  <2>3. trimmed \in [1..n -> Refs]
    BY <2>1, <2>2
  <2>4. /\ trimmed \in Seq(Refs) /\ Len(trimmed) = n
        /\ Range(trimmed) = {trimmed[i] : i \in 1..n}
    BY <2>3, Mapped, Zenon
  <2>5. QED
    BY <1>1, <2>2, <2>4
<1>6. PICK S : S = {l \in Range(trimmed) : l.id # Empty}
  BY Zenon
<1>7. PICK kept : kept = Only(trimmed, S)
  OBVIOUS
<1>8. /\ kept \in Seq(Refs \cap S) /\ Range(kept) \subseteq Range(trimmed)
      /\ Range(trimmed) \subseteq S => kept = trimmed
  BY <1>5, <1>7, OnlyIs
<1>9. kept \in Seq(Refs)
  <2>1. Refs \cap S \subseteq Refs
    OBVIOUS
  <2>2. QED
    BY <1>8, <2>1, SeqMonotonic
<1>10. k # "streaming.providers"
  BY DEF LibraryLists
<1>11. StoredList(k, list) = kept
  BY <1>2, <1>6, <1>7, <1>10 DEF StoredList
<1>12. ASSUME CleanRefs(list)
       PROVE  kept = list
  <2>1. \A i \in DOMAIN list : trimmed[i] = list[i] /\ ~IsBlank(list[i].id)
                                /\ TrimSpace(list[i].id) = list[i].id
    BY <1>1, <1>3, <1>4, <1>12 DEF CleanRefs
  <2>2. \A i \in DOMAIN list : trimmed[i].id # Empty
    BY <2>1 DEF IsBlank
  <2>3. Range(trimmed) \subseteq S
    BY <1>5, <1>6, <2>2
  <2>4. list = [i \in 1..Len(list) |-> list[i]]
    BY <1>1, SameSequence
  <2>5. trimmed = list
    BY <1>1, <1>2, <2>1, <2>4
  <2>6. QED
    BY <1>8, <2>3, <2>5
<1>13. \A r \in Range(kept) : \E l \in Range(list) : r = Entered(l)
  BY <1>1, <1>4, <1>5, <1>8
<1>14. QED
  BY <1>9, <1>11, <1>12, <1>13

----------------------------------------------------------------------------
(***************************************************************************)
(* What a key resolves to.                                                 *)
(***************************************************************************)

\* A value of the key's type, in the form that resolution leaves it in.
Settled(k, v) ==
  /\ v \in ValuesOf(k)
  /\ k \in LibraryLists => CleanRefs(v)
  /\ k = "streaming.providers" => CleanProviders(v)
  /\ k = "streaming.watchRegion" => ToUpper(TrimSpace(v)) = v

LEMMA NothingIsClean == CleanRefs(<<>>) /\ CleanProviders(<<>>)
<1>1. PICK nothing : nothing = <<>>
  OBVIOUS
<1>2. nothing \in Seq(Refs) /\ nothing \in Seq(Texts) /\ DOMAIN nothing = {}
  BY <1>1
<1>3. CleanRefs(nothing) /\ CleanProviders(nothing)
  BY <1>2 DEF CleanRefs, CleanProviders, CleanTexts
<1>4. QED
  BY <1>1, <1>3

LEMMA DefaultTexts ==
  ASSUME NEW k \in Scalars
  PROVE  DefaultOf(k) \in Texts
<1>1. /\ Plain("localhost") \in Texts /\ Plain("4h") \in Texts /\ Plain("us") \in Texts
      /\ Empty \in Texts
  BY TextsAssumption, PlainFacts DEF Empty
<1>2. ToUpper(Plain("us")) \in Texts
  BY <1>1, TextFacts
<1>3. k \notin LibraryLists /\ k # "streaming.providers"
  BY KeyKinds
<1>4. QED
  BY <1>1, <1>2, <1>3 DEF DefaultOf

LEMMA ScalarSettles ==
  ASSUME NEW file, NEW env, IsFile(file), IsEnv(env), NEW k \in Scalars
  PROVE  Settled(k, ValueOf(file, env, k))
<1>1. /\ k \in Keys /\ k \notin Toggles /\ k \notin Lists /\ k \notin LibraryLists
      /\ k # "streaming.providers" /\ ValuesOf(k) = Texts
  BY KeyKinds
<1>2. PICK v : v = IF FileSets(file, k) THEN file.keys[k]
                   ELSE IF EnvSets(env, k) THEN env[k] ELSE DefaultOf(k)
  OBVIOUS
<1>3. FileSets(file, k) => file.keys[k] \in Texts
  BY <1>1 DEF FileSets, IsFile
<1>4. env[k] \in Texts
  BY <1>1 DEF IsEnv
<1>5. v \in Texts
  BY <1>2, <1>3, <1>4, DefaultTexts
<1>6. ValueOf(file, env, k) = IF k = "streaming.watchRegion" THEN ToUpper(TrimSpace(v)) ELSE v
  <2>1. FileSets(file, k) => FromFile(file, k) = file.keys[k]
    BY <1>1 DEF FromFile, FileSets
  <2>2. FromEnv(env, k) = env[k]
    BY <1>1 DEF FromEnv
  <2>3. QED
    BY <1>2, <2>1, <2>2 DEF ValueOf
<1>7. CASE k = "streaming.watchRegion"
  <2>1. PICK t \in Texts : t = TrimSpace(v)
    BY <1>5, TextFacts
  <2>2. PICK w \in Texts : w = ToUpper(t)
    BY TextFacts
  <2>3. TrimSpace(w) = w /\ ToUpper(w) = w
    <3>1. TrimSpace(ToUpper(TrimSpace(v))) = ToUpper(TrimSpace(v))
      BY <1>5, TextFacts
    <3>2. ToUpper(ToUpper(t)) = ToUpper(t)
      BY TextFacts
    <3>3. QED
      BY <2>1, <2>2, <3>1, <3>2
  <2>4. ValueOf(file, env, k) = w
    BY <1>6, <1>7, <2>1, <2>2
  <2>5. QED
    BY <1>1, <2>3, <2>4 DEF Settled
<1>8. CASE k # "streaming.watchRegion"
  BY <1>1, <1>5, <1>6, <1>8 DEF Settled
<1>9. QED
  BY <1>7, <1>8

LEMMA LibrariesSettle ==
  ASSUME NEW file, NEW env, IsFile(file), IsEnv(env), NEW k \in LibraryLists
  PROVE  Settled(k, ValueOf(file, env, k))
<1>1. /\ k \in Keys /\ k \notin Toggles /\ k \in Lists /\ k \notin Scalars
      /\ k # "streaming.providers" /\ k # "streaming.watchRegion" /\ ValuesOf(k) = Seq(Refs)
  BY KeyKinds
<1>2. ValueOf(file, env, k) = IF FileSets(file, k) THEN FileLibraries(file.keys[k])
                              ELSE IF EnvSets(env, k) THEN ParseLibraryList(EnvList(env, k))
                              ELSE <<>>
  <2>1. DefaultOf(k) = <<>>
    BY <1>1 DEF DefaultOf, LibraryLists
  <2>2. FileSets(file, k) => FromFile(file, k) = FileLibraries(file.keys[k])
    BY <1>1 DEF FromFile, FileSets
  <2>3. FromEnv(env, k) = ParseLibraryList(EnvList(env, k))
    BY <1>1 DEF FromEnv
  <2>4. QED
    BY <1>1, <2>1, <2>2, <2>3 DEF ValueOf
<1>3. FileSets(file, k) => CleanRefs(FileLibraries(file.keys[k]))
  <2>1. FileSets(file, k) => file.keys[k] \in Seq(FileRefs)
    BY <1>1 DEF FileSets, IsFile
  <2>2. QED
    BY <2>1, FileLibrariesIs
<1>4. CleanRefs(ParseLibraryList(EnvList(env, k)))
  <2>1. env[k] \in Seq(Texts)
    BY <1>1 DEF IsEnv
  <2>2. "plex.librarySection" \in Keys \ Toggles /\ "plex.librarySection" \notin Lists
    BY KeyKinds DEF Scalars
  <2>3. env["plex.librarySection"] \in Texts
    BY <2>2 DEF IsEnv
  <2>4. PICK one : one = <<env["plex.librarySection"]>>
    BY Zenon
  <2>5. one \in Seq(Texts)
    BY <2>3, <2>4
  <2>6. EnvList(env, k) \in Seq(Texts)
    BY <2>1, <2>4, <2>5 DEF EnvList
  <2>7. QED
    BY <2>6, ParsedIs
<1>5. CleanRefs(ValueOf(file, env, k))
  BY <1>2, <1>3, <1>4, NothingIsClean
<1>6. QED
  BY <1>1, <1>5 DEF Settled, CleanRefs

LEMMA ProvidersSettle ==
  ASSUME NEW file, NEW env, IsFile(file), IsEnv(env), NEW k, k = "streaming.providers"
  PROVE  Settled(k, ValueOf(file, env, k))
<1>1. /\ k \in Keys /\ k \notin Toggles /\ k \in Lists /\ k \notin LibraryLists
      /\ k # "streaming.watchRegion" /\ ValuesOf(k) = Seq(Texts)
  BY KeyKinds
<1>2. ValueOf(file, env, k) =
        IF FileSets(file, k)
          THEN IF file.keys[k] = Absent THEN <<>> ELSE NormalizeProviders(file.keys[k])
        ELSE IF EnvSets(env, k) THEN ParseStreamingProviders(EnvList(env, k))
        ELSE DefaultProviders
  <2>1. DefaultOf(k) = DefaultProviders
    BY <1>1 DEF DefaultOf
  <2>2. FromEnv(env, k) = ParseStreamingProviders(EnvList(env, k))
    BY <1>1 DEF FromEnv
  <2>3. FromFile(file, k) =
          IF file.keys[k] = Absent THEN <<>> ELSE NormalizeProviders(file.keys[k])
    BY <1>1 DEF FromFile
  <2>4. QED
    BY <1>1, <2>1, <2>2, <2>3 DEF ValueOf
<1>3. file.keys[k] # Absent => CleanProviders(NormalizeProviders(file.keys[k]))
  <2>1. file.keys[k] # Absent => file.keys[k] \in Seq(Texts)
    BY <1>1 DEF IsFile
  <2>2. QED
    BY <2>1, NormalizedIs
<1>4. CleanProviders(ParseStreamingProviders(EnvList(env, k)))
  <2>1. env[k] \in Seq(Texts)
    BY <1>1 DEF IsEnv
  <2>2. EnvList(env, k) = env[k]
    BY DEF EnvList
  <2>3. QED
    BY <2>1, <2>2, NormalizedIs, DefaultsAreClean DEF ParseStreamingProviders
<1>5. CleanProviders(ValueOf(file, env, k))
  BY <1>2, <1>3, <1>4, NothingIsClean, DefaultsAreClean
<1>6. QED
  BY <1>1, <1>5 DEF Settled, CleanProviders, CleanTexts

\* Whatever a file and an environment hold, each key resolves to a value of its
\* own type, and every list to one in its normal form (config.go:209-280).
THEOREM ResolutionSettles ==
  ASSUME NEW file, NEW env, IsFile(file), IsEnv(env)
  PROVE  \A k \in Keys \ Toggles : Settled(k, Resolve(file, env).val[k])
<1> SUFFICES ASSUME NEW k \in Keys \ Toggles
             PROVE  Settled(k, Resolve(file, env).val[k])
  OBVIOUS
<1>1. Resolve(file, env).val[k] = ValueOf(file, env, k)
  BY DEF Resolve
<1>2. k \in Scalars \/ k \in LibraryLists \/ k = "streaming.providers"
  BY KeyKinds
<1>3. QED
  BY <1>1, <1>2, ScalarSettles, LibrariesSettle, ProvidersSettle

----------------------------------------------------------------------------
(***************************************************************************)
(* A save of the screen.                                                   *)
(***************************************************************************)

\* What the file becomes when the screen is drawn from cfg, edited and saved.
Merged(file, cfg, edit, found) ==
  ApplySettings(file, BuildUpdate(Edited(Draft(cfg), edit, found), cfg))

\* A library that the picker offers was found, or chosen before, with its own
\* name or with its identifier for a name.
LEMMA OptionsAre ==
  ASSUME NEW found \in Seq(Refs), NEW chosen \in Seq(Refs)
  PROVE  /\ PickerOptions(found, chosen) \subseteq Refs
         /\ \A l \in PickerOptions(found, chosen) :
              \/ l \in Range(found)
              \/ l \in Range(chosen) /\ l.name # Empty
              \/ l.name = l.id
<1>1. Range(found) \subseteq Refs /\ Range(chosen) \subseteq Refs
  BY ElementsOf
<1>2. ASSUME NEW l \in PickerOptions(found, chosen)
      PROVE  /\ l \in Refs
             /\ \/ l \in Range(found)
                \/ l \in Range(chosen) /\ l.name # Empty
                \/ l.name = l.id
  <2>1. \/ l \in Range(found)
        \/ \E c \in Range(chosen) : l = IF c.name = Empty THEN Library(c.id, c.id) ELSE c
    BY <1>2 DEF PickerOptions
  <2>2. CASE l \in Range(found)
    BY <1>1, <2>2
  <2>3. ASSUME NEW c \in Range(chosen), l = IF c.name = Empty THEN Library(c.id, c.id) ELSE c
        PROVE  /\ l \in Refs
              /\ \/ l \in Range(chosen) /\ l.name # Empty
                 \/ l.name = l.id
    BY <1>1, <2>3 DEF Refs, Library
  <2>4. QED
    BY <2>1, <2>2, <2>3
<1>3. QED
  BY <1>2

LEMMA PickedAreOptions ==
  ASSUME NEW ids \in Seq(Texts), NEW options
  PROVE  Picked(ids, options) \in Seq(options)
<1>1. PICK S : S = {l.id : l \in options}
  BY Zenon
<1>2. PICK known \in Seq(Texts \cap S) : known = Only(ids, S)
  BY OnlyIs
<1>3. PICK n \in Nat : n = Len(known) /\ DOMAIN known = 1..n /\ \A i \in 1..n : known[i] \in S
  BY <1>2, ElementsOf
<1>4. PICK picked : picked = [i \in 1..n |-> CHOOSE l \in options : l.id = known[i]]
  BY Zenon
<1>5. Picked(ids, options) = picked
  BY <1>1, <1>2, <1>3, <1>4 DEF Picked
<1>6. \A i \in 1..n : (CHOOSE l \in options : l.id = known[i]) \in options
  BY <1>1, <1>3
<1>7. picked \in [1..n -> options]
  BY <1>4, <1>6
<1>8. QED
  BY <1>5, <1>7, SeqDef

\* What is edited and what is found are of the screen's types.
EditTypes(edit) ==
  \A k \in DOMAIN edit \cap Keys : edit[k] \in IF k \in LibraryLists THEN Seq(Texts) ELSE ValuesOf(k)

FoundTypes(found) == \A k \in LibraryLists : found[k] \in Seq(Refs)

LEMMA EditedTypes ==
  ASSUME NEW cfg, NEW edit, EditTypes(edit), NEW found, FoundTypes(found),
         NEW k \in Keys, k \in DOMAIN edit,
         k \in LibraryLists => cfg.val[k] \in Seq(Refs)
  PROVE  /\ Edited(Draft(cfg), edit, found)[k] \in ValuesOf(k)
         /\ k \in LibraryLists =>
              Edited(Draft(cfg), edit, found)[k] \in Seq(PickerOptions(found[k], cfg.val[k]))
<1>1. CASE k \in LibraryLists
  <2>1. k \notin Toggles /\ k \notin Secrets /\ ValuesOf(k) = Seq(Refs)
    BY <1>1, KeyKinds
  <2>2. Draft(cfg)[k] = cfg.val[k]
    BY <2>1 DEF Draft
  <2>3. PICK options : options = PickerOptions(found[k], cfg.val[k])
    BY Zenon
  <2>4. Edited(Draft(cfg), edit, found)[k] = Picked(edit[k], options)
    BY <1>1, <2>2, <2>3 DEF Edited
  <2>5. edit[k] \in Seq(Texts)
    BY <1>1 DEF EditTypes
  <2>6. Picked(edit[k], options) \in Seq(options)
    BY <2>5, PickedAreOptions
  <2>7. options \subseteq Refs
    BY <1>1, <2>3, OptionsAre DEF FoundTypes
  <2>8. QED
    BY <2>1, <2>3, <2>4, <2>6, <2>7, SeqMonotonic
<1>2. CASE k \notin LibraryLists
  BY <1>2 DEF Edited, EditTypes
<1>3. QED
  BY <1>1, <1>2

\* A key that is not edited is sent as it is shown, and a credential not at all.
LEMMA NotEdited ==
  ASSUME NEW file, NEW cfg, NEW edit, NEW found, NEW k \in Keys, k \notin DOMAIN edit
  PROVE  Merged(file, cfg, edit, found).keys[k] =
           IF k \in Secrets THEN file.keys[k]
           ELSE IF k \in Toggles THEN ShowsOn(cfg, k)
           ELSE IF cfg.val[k] = Absent THEN file.keys[k]
           ELSE IF k \in Lists THEN StoredList(k, cfg.val[k]) ELSE cfg.val[k]
<1>1. PICK screen : screen = Edited(Draft(cfg), edit, found)
  OBVIOUS
<1>2. PICK req : req = BuildUpdate(screen, cfg)
  OBVIOUS
<1>3. screen[k] = CASE k \in Toggles -> ShowsOn(cfg, k)
                    [] k \in Secrets -> IF cfg.val[k] # Empty THEN Placeholder ELSE Empty
                    [] OTHER -> cfg.val[k]
  BY <1>1 DEF Edited, Draft
<1>4. /\ req.keys[k] = IF k \in Secrets /\ screen[k] \in {Placeholder, Empty}
                         THEN Absent ELSE screen[k]
      /\ k \in req.clear <=> k \in Secrets /\ screen[k] = Empty /\ cfg.val[k] # Empty
  BY <1>2 DEF BuildUpdate
<1>5. Merged(file, cfg, edit, found).keys[k] =
        IF k \in req.clear THEN Absent
        ELSE IF req.keys[k] = Absent THEN file.keys[k]
        ELSE IF k \in Lists THEN StoredList(k, req.keys[k]) ELSE req.keys[k]
  BY <1>1, <1>2 DEF Merged, ApplySettings
<1>6. CASE k \in Secrets
  <2>1. k \notin Toggles
    BY <1>6, KeyKinds
  <2>2. screen[k] = IF cfg.val[k] # Empty THEN Placeholder ELSE Empty
    BY <1>3, <1>6, <2>1
  <2>3. Empty \in Texts
    BY TextsAssumption, PlainFacts DEF Empty
  <2>4. Placeholder # Empty
    BY <2>3, AbsentIsNothing
  <2>5. k \notin req.clear /\ req.keys[k] = Absent
    BY <1>4, <1>6, <2>2, <2>4
  <2>6. QED
    BY <1>5, <1>6, <2>5
<1>7. CASE k \in Toggles
  <2>1. k \notin Secrets /\ k \notin Lists
    BY <1>7, KeyKinds
  <2>2. screen[k] = ShowsOn(cfg, k)
    BY <1>3, <1>7, <2>1
  <2>3. k \notin req.clear /\ req.keys[k] = ShowsOn(cfg, k)
    BY <1>4, <2>1, <2>2
  <2>4. ShowsOn(cfg, k) # Absent
    BY AbsentIsNothing, Zenon DEF ShowsOn
  <2>5. QED
    BY <1>5, <1>7, <2>1, <2>3, <2>4
<1>8. CASE k \notin Secrets /\ k \notin Toggles
  <2>1. screen[k] = cfg.val[k]
    BY <1>3, <1>8
  <2>2. k \notin req.clear /\ req.keys[k] = cfg.val[k]
    BY <1>4, <1>8, <2>1
  <2>3. QED
    BY <1>5, <1>8, <2>2
<1>9. QED
  BY <1>6, <1>7, <1>8

LEMMA StoredTypes ==
  ASSUME NEW k \in Lists, NEW v \in ValuesOf(k)
  PROVE  StoredList(k, v) \in ValuesOf(k)
<1>1. CASE k \in LibraryLists
  <2>1. ValuesOf(k) = Seq(Refs)
    BY <1>1, KeyKinds
  <2>2. QED
    BY <1>1, <2>1, StoredIs
<1>2. CASE k = "streaming.providers"
  <2>1. ValuesOf(k) = Seq(Texts)
    BY <1>2, KeyKinds
  <2>2. StoredList(k, v) = NormalizeProviders(v)
    BY <1>2 DEF StoredList
  <2>3. QED
    BY <2>1, <2>2, NormalizedIs DEF CleanProviders, CleanTexts
<1>3. QED
  BY <1>1, <1>2, KeyKinds

\* What a save writes is a file again.
LEMMA MergedIsAFile ==
  ASSUME NEW file, IsFile(file), NEW cfg, NEW edit, EditTypes(edit),
         NEW found, FoundTypes(found),
         \A k \in Keys \ Toggles : cfg.val[k] \in ValuesOf(k)
  PROVE  IsFile(Merged(file, cfg, edit, found))
<1>1. Merged(file, cfg, edit, found).streaming \in BOOLEAN
  BY DEF Merged, ApplySettings
<1>2. ASSUME NEW k \in Keys, Merged(file, cfg, edit, found).keys[k] # Absent
      PROVE  Merged(file, cfg, edit, found).keys[k] \in
               IF k \in LibraryLists THEN Seq(FileRefs) ELSE ValuesOf(k)
  <2>1. ASSUME NEW v, v \in ValuesOf(k)
        PROVE  v \in IF k \in LibraryLists THEN Seq(FileRefs) ELSE ValuesOf(k)
    <3>1. CASE k \in LibraryLists
      <4>1. v \in Seq(Refs)
        BY <2>1, <3>1, KeyKinds
      <4>2. Refs \subseteq FileRefs
        BY DEF Refs, FileRefs
      <4>3. v \in Seq(FileRefs)
        BY <4>1, <4>2, SeqMonotonic
      <4>4. QED
        BY <3>1, <4>3
    <3>2. QED
      BY <2>1, <3>1
  <2>2. file.keys[k] # Absent =>
          file.keys[k] \in IF k \in LibraryLists THEN Seq(FileRefs) ELSE ValuesOf(k)
    BY DEF IsFile
  <2>3. CASE k \in DOMAIN edit
    <3>1. PICK screen : screen = Edited(Draft(cfg), edit, found)
      OBVIOUS
    <3>2. PICK req : req = BuildUpdate(screen, cfg)
      OBVIOUS
    <3>3. screen[k] \in ValuesOf(k)
      <4>1. k \in LibraryLists => cfg.val[k] \in Seq(Refs)
        BY KeyKinds
      <4>2. QED
        BY <2>3, <3>1, <4>1, EditedTypes
    <3>4. req.keys[k] = Absent \/ req.keys[k] = screen[k]
      BY <3>2 DEF BuildUpdate
    <3>5. Merged(file, cfg, edit, found).keys[k] =
            IF k \in req.clear THEN Absent
            ELSE IF req.keys[k] = Absent THEN file.keys[k]
            ELSE IF k \in Lists THEN StoredList(k, req.keys[k]) ELSE req.keys[k]
      BY <3>1, <3>2 DEF Merged, ApplySettings
    <3>6. k \in Lists => StoredList(k, screen[k]) \in ValuesOf(k)
      BY <3>3, StoredTypes
    <3>7. \/ Merged(file, cfg, edit, found).keys[k] = file.keys[k]
          \/ Merged(file, cfg, edit, found).keys[k] \in ValuesOf(k)
      BY <1>2, <3>3, <3>4, <3>5, <3>6
    <3>8. QED
      BY <1>2, <2>1, <2>2, <3>7
  <2>4. CASE k \notin DOMAIN edit
    <3>1. CASE k \in Toggles
      <4>1. k \notin Secrets /\ ValuesOf(k) = BOOLEAN
        BY <3>1, KeyKinds
      <4>2. Merged(file, cfg, edit, found).keys[k] = ShowsOn(cfg, k)
        BY <2>4, <3>1, <4>1, NotEdited
      <4>3. ShowsOn(cfg, k) \in BOOLEAN
        BY DEF ShowsOn
      <4>4. QED
        BY <2>1, <4>1, <4>2, <4>3
    <3>2. CASE k \notin Toggles
      <4>1. cfg.val[k] \in ValuesOf(k)
        BY <3>2
      <4>2. k \in Lists => StoredList(k, cfg.val[k]) \in ValuesOf(k)
        BY <4>1, StoredTypes
      <4>3. \/ Merged(file, cfg, edit, found).keys[k] = file.keys[k]
            \/ Merged(file, cfg, edit, found).keys[k] \in ValuesOf(k)
        BY <2>4, <3>2, <4>1, <4>2, NotEdited
      <4>4. QED
        BY <1>2, <2>1, <2>2, <4>3
    <3>3. QED
      BY <3>1, <3>2
  <2>5. QED
    BY <2>3, <2>4
<1>3. QED
  BY <1>1, <1>2 DEF IsFile

\* A key that is not edited resolves to what it was, whichever of the file, the
\* environment and the defaults it came from (settings.go:198-266).
THEOREM NotEditedKeepsItsValue ==
  ASSUME NEW file, NEW env, IsFile(file), IsEnv(env), NEW cfg, NEW edit, NEW found,
         NEW k \in Keys \ Toggles, k \notin DOMAIN edit,
         cfg.val[k] = Resolve(file, env).val[k]
  PROVE  Resolve(Merged(file, cfg, edit, found), env).val[k] = cfg.val[k]
<1>1. PICK merged : merged = Merged(file, cfg, edit, found)
  OBVIOUS
<1>2. PICK v : v = cfg.val[k]
  OBVIOUS
<1>3. Settled(k, v) /\ v = ValueOf(file, env, k)
  BY <1>2, ResolutionSettles DEF Resolve
<1>4. Resolve(merged, env).val[k] = ValueOf(merged, env, k)
  BY DEF Resolve
<1>5. merged.keys[k] = IF k \in Secrets THEN file.keys[k]
                       ELSE IF v = Absent THEN file.keys[k]
                       ELSE IF k \in Lists THEN StoredList(k, v) ELSE v
  BY <1>1, <1>2, NotEdited
<1>6. v # Absent
  BY <1>3, AbsentAssumption DEF Settled
<1>7. CASE k \in Secrets
  <2>1. k # "streaming.providers"
    BY <1>7, KeyKinds
  <2>2. merged.keys[k] = file.keys[k]
    BY <1>5, <1>7
  <2>3. FileSets(merged, k) <=> FileSets(file, k)
    BY <2>1, <2>2 DEF FileSets
  <2>4. FromFile(merged, k) = FromFile(file, k)
    BY <2>2 DEF FromFile
  <2>5. QED
    BY <1>1, <1>2, <1>3, <1>4, <2>3, <2>4 DEF ValueOf
<1>8. CASE k \in Scalars \ Secrets
  <2>1. k \notin LibraryLists /\ k # "streaming.providers" /\ k \notin Lists
    BY <1>8, KeyKinds
  <2>2. merged.keys[k] = v
    BY <1>5, <1>6, <1>8, <2>1
  <2>3. FileSets(merged, k) /\ FromFile(merged, k) = v
    BY <1>6, <2>1, <2>2 DEF FileSets, FromFile
  <2>4. ValueOf(merged, env, k) = v
    BY <1>3, <2>3 DEF ValueOf, Settled
  <2>5. QED
    BY <1>1, <1>2, <1>4, <2>4
<1>9. CASE k \in LibraryLists
  <2>1. k \notin Secrets /\ k # "streaming.providers" /\ k # "streaming.watchRegion" /\ k \in Lists
    BY <1>9, KeyKinds
  <2>2. v \in Seq(Refs) /\ CleanRefs(v)
    BY <1>3, <1>9 DEF Settled, CleanRefs
  <2>3. merged.keys[k] = v
    BY <1>5, <1>6, <1>9, <2>1, <2>2, StoredIs
  <2>4. v \in Seq(FileRefs)
    <3>1. Refs \subseteq FileRefs
      BY DEF Refs, FileRefs
    <3>2. QED
      BY <2>2, <3>1, SeqMonotonic
  <2>5. FileLibraries(v) = v
    BY <2>2, <2>4, FileLibrariesIs
  <2>6. FileSets(merged, k) /\ FromFile(merged, k) = v
    BY <1>6, <1>9, <2>1, <2>3, <2>5 DEF FileSets, FromFile
  <2>7. ValueOf(merged, env, k) = v
    BY <2>1, <2>6 DEF ValueOf
  <2>8. QED
    BY <1>1, <1>2, <1>4, <2>7
<1>10. CASE k = "streaming.providers"
  <2>1. k \notin Secrets /\ k \notin LibraryLists /\ k # "streaming.watchRegion" /\ k \in Lists
    BY <1>10, KeyKinds
  <2>2. v \in Seq(Texts) /\ CleanProviders(v)
    BY <1>3, <1>10 DEF Settled, CleanProviders, CleanTexts
  <2>3. NormalizeProviders(v) = v
    BY <2>2, NormalizedIs
  <2>4. merged.keys[k] = v
    BY <1>5, <1>6, <1>10, <2>1, <2>3 DEF StoredList
  <2>5. FileSets(merged, k) /\ FromFile(merged, k) = v
    BY <1>6, <1>10, <2>1, <2>3, <2>4 DEF FileSets, FromFile
  <2>6. ValueOf(merged, env, k) = v
    BY <2>1, <2>5 DEF ValueOf
  <2>7. QED
    BY <1>1, <1>2, <1>4, <2>6
<1>11. QED
  BY <1>7, <1>8, <1>9, <1>10, KeyKinds

\* A save of the screen as it was drawn is the save of no edits.
LEMMA NoEdits ==
  ASSUME NEW file, NEW cfg, NEW found
  PROVE  ApplySettings(file, BuildUpdate(Draft(cfg), cfg)) = Merged(file, cfg, <<>>, found)
<1>1. PICK none : none = <<>>
  OBVIOUS
<1>2. DOMAIN none = {}
  BY <1>1
<1>3. PICK shown : shown = Draft(cfg)
  OBVIOUS
<1>4. shown = [k \in Keys |-> shown[k]]
  BY <1>3 DEF Draft
<1>5. Edited(shown, none, found) = [k \in Keys |-> shown[k]]
  BY <1>2 DEF Edited
<1>6. QED
  BY <1>1, <1>3, <1>4, <1>5 DEF Merged

\* If a configuration is valid, so is what an untouched save of it resolves to,
\* but for a token that is blank and yet not empty.
LEMMA UntouchedIsValid ==
  ASSUME NEW cfg, NEW next, NEW token, token = cfg.val["streaming.tmdbReadToken"],
         \A k \in Keys \ Toggles : next.val[k] = cfg.val[k],
         next.disabled = {k \in Toggles : ~ShowsOn(cfg, k)},
         ValidateSettings(cfg) = {}
  PROVE  \/ ValidateSettings(next) = {}
         \/ /\ ValidateSettings(next) = {"streaming.tmdbReadToken"}
            /\ token # Empty /\ IsBlank(token)
<1>1. /\ next.val["publicUrl"] = cfg.val["publicUrl"]
      /\ next.val["jellyfin.url"] = cfg.val["jellyfin.url"]
      /\ next.val["jellyfin.apiKey"] = cfg.val["jellyfin.apiKey"]
      /\ next.val["plex.url"] = cfg.val["plex.url"]
      /\ next.val["plex.token"] = cfg.val["plex.token"]
      /\ next.val["streaming.tmdbReadToken"] = token
  BY KeyKinds DEF Scalars, Secrets
<1>2. /\ "jellyfin.enabled" \notin next.disabled => "jellyfin.enabled" \notin cfg.disabled
      /\ "plex.enabled" \notin next.disabled => "plex.enabled" \notin cfg.disabled
      /\ "streaming.enabled" \notin next.disabled => token # Empty
  <2>1. "jellyfin.enabled" \in Toggles /\ "plex.enabled" \in Toggles /\ "streaming.enabled" \in Toggles
    BY DEF Toggles
  <2>2. \A k \in Toggles : k \notin next.disabled => ShowsOn(cfg, k)
    OBVIOUS
  <2>3. ShowsOn(cfg, "streaming.enabled") => token # Empty
    BY DEF ShowsOn, HasValues
  <2>4. QED
    BY <2>1, <2>2, <2>3 DEF ShowsOn
<1>3. {k \in {"publicUrl", "jellyfin.url", "plex.url"} : BadURL(next.val[k])} = {}
  <2>1. {k \in {"publicUrl", "jellyfin.url", "plex.url"} : BadURL(cfg.val[k])} = {}
    BY Zenon DEF ValidateSettings
  <2>2. QED
    BY <1>1, <2>1
<1>4. NeedsBoth(next, "jellyfin.enabled", "jellyfin.url", "jellyfin.apiKey") = {}
  <2>1. NeedsBoth(cfg, "jellyfin.enabled", "jellyfin.url", "jellyfin.apiKey") = {}
    BY Zenon DEF ValidateSettings
  <2>2. QED
    BY <1>1, <1>2, <2>1 DEF NeedsBoth
<1>5. NeedsBoth(next, "plex.enabled", "plex.url", "plex.token") = {}
  <2>1. NeedsBoth(cfg, "plex.enabled", "plex.url", "plex.token") = {}
    BY Zenon DEF ValidateSettings
  <2>2. QED
    BY <1>1, <1>2, <2>1 DEF NeedsBoth
<1>6. ValidateSettings(next) =
        IF /\ "streaming.enabled" \notin next.disabled
           /\ next.prov["streaming.providers"].source = "config file"
           /\ next.val["streaming.providers"] # <<>>
           /\ IsBlank(token)
          THEN {"streaming.tmdbReadToken"} ELSE {}
  BY <1>1, <1>3, <1>4, <1>5, Zenon DEF ValidateSettings
<1>7. QED
  BY <1>2, <1>6, Zenon

----------------------------------------------------------------------------
(***************************************************************************)
(* The libraries of a server.                                              *)
(***************************************************************************)

LEMMA ServicesAre == Range(Services) = {"jellyfin", "plex"}
<1>1. PICK s : s = Services
  OBVIOUS
<1>2. s = <<"jellyfin", "plex">>
  BY <1>1 DEF Services
<1>3. DOMAIN s = {1, 2} /\ s[1] = "jellyfin" /\ s[2] = "plex"
  BY <1>2
<1>4. QED
  BY <1>1, <1>3 DEF Range

\* The movie libraries of a server are those that it lists as such.
LEMMA MovieLibrariesAre ==
  ASSUME NEW server, server.libs \in Seq(ListedLibraries)
  PROVE  /\ MovieLibraries(server) \in Seq(Refs)
         /\ \A r \in Range(MovieLibraries(server)) :
              /\ r.id # Empty
              /\ \E l \in Range(server.libs) : l.movies /\ l.id = r.id /\ l.name = r.name
         /\ \A l \in Range(server.libs) : l.movies /\ l.id # Empty =>
              \E r \in Range(MovieLibraries(server)) : r.id = l.id /\ r.name = l.name
<1>1. PICK libs \in Seq(ListedLibraries) : libs = server.libs
  OBVIOUS
<1>2. PICK S : S = {l \in Range(libs) : l.movies /\ l.id # Empty}
  BY Zenon
<1>3. PICK movies : movies = Only(libs, S)
  OBVIOUS
<1>4. movies \in Seq(ListedLibraries \cap S) /\ Range(movies) = Range(libs) \cap S
  BY <1>1, <1>3, OnlyIs
<1>5. Range(movies) = S
  BY <1>2, <1>4
<1>6. /\ Len(movies) \in Nat /\ DOMAIN movies = 1..Len(movies)
      /\ Range(movies) = {movies[i] : i \in 1..Len(movies)}
      /\ \A i \in 1..Len(movies) : movies[i] \in ListedLibraries \cap S
  BY <1>4, ElementsOf
<1>7. PICK out : out = [i \in DOMAIN movies |-> Library(movies[i].id, movies[i].name)]
  BY Zenon
<1>8. \A i \in 1..Len(movies) :
        /\ out[i] \in Refs /\ out[i].id = movies[i].id /\ out[i].name = movies[i].name
  BY <1>6, <1>7 DEF ListedLibraries, Library, Refs
<1>9. out \in [1..Len(movies) -> Refs]
  BY <1>6, <1>7, <1>8
<1>10. PICK n \in Nat : n = Len(movies)
  BY <1>6, Zenon
<1>11. out \in [1..n -> Refs]
  BY <1>9, <1>10
<1>12. out \in Seq(Refs) /\ Range(out) = {out[i] : i \in 1..n}
  BY <1>11, Mapped, Zenon
<1>13. MovieLibraries(server) = out
  BY <1>1, <1>2, <1>3, <1>7 DEF MovieLibraries
<1>14. \A i \in 1..n : /\ out[i].id # Empty
                       /\ \E l \in Range(libs) : l.movies /\ l.id = out[i].id /\ l.name = out[i].name
  BY <1>2, <1>6, <1>8, <1>10
<1>15. \A l \in Range(libs) : l.movies /\ l.id # Empty =>
         \E i \in 1..n : out[i].id = l.id /\ out[i].name = l.name
  BY <1>2, <1>5, <1>6, <1>8, <1>10
<1>16. QED
  BY <1>1, <1>12, <1>13, <1>14, <1>15

----------------------------------------------------------------------------
(***************************************************************************)
(* Sequences made of sequences, and of sets.                               *)
(***************************************************************************)

\* A sequence is one of its own elements.
LEMMA OwnRange ==
  ASSUME NEW T, NEW s \in Seq(T)
  PROVE  s \in Seq(Range(s))
<1>1. Len(s) \in Nat /\ DOMAIN s = 1..Len(s) /\ Range(s) = {s[i] : i \in 1..Len(s)}
  BY ElementsOf
<1>2. s = [i \in 1..Len(s) |-> s[i]]
  BY <1>1, SameSequence
<1>3. PICK n \in Nat : n = Len(s)
  BY <1>1, Zenon
<1>4. PICK R : R = Range(s)
  OBVIOUS
<1>5. \A i \in 1..n : s[i] \in R
  BY <1>1, <1>3, <1>4
<1>6. s \in [1..n -> R]
  BY <1>1, <1>2, <1>3, <1>5
<1>7. s \in Seq(R)
  BY <1>6, Mapped
<1>8. QED
  BY <1>4, <1>7

LEMMA Joined ==
  ASSUME NEW T, NEW s \in Seq(T), NEW t \in Seq(T)
  PROVE  /\ s \o t \in Seq(T) /\ Len(s \o t) = Len(s) + Len(t)
         /\ Range(s \o t) = Range(s) \cup Range(t)
<1>1. PICK c : c = s \o t
  BY Zenon
<1>2. /\ Len(s) \in Nat /\ DOMAIN s = 1..Len(s) /\ Range(s) = {s[i] : i \in 1..Len(s)}
      /\ Len(t) \in Nat /\ DOMAIN t = 1..Len(t) /\ Range(t) = {t[i] : i \in 1..Len(t)}
  BY ElementsOf
<1>3. /\ c \in Seq(T) /\ Len(c) = Len(s) + Len(t)
      /\ \A i \in 1..(Len(s) + Len(t)) : c[i] = IF i <= Len(s) THEN s[i] ELSE t[i - Len(s)]
  BY <1>1, ConcatProperties
<1>4. DOMAIN c = 1..(Len(s) + Len(t)) /\ Range(c) = {c[i] : i \in 1..(Len(s) + Len(t))}
  BY <1>3, ElementsOf
<1>5. Range(c) \subseteq Range(s) \cup Range(t)
  <2> SUFFICES ASSUME NEW i \in 1..(Len(s) + Len(t))
               PROVE  c[i] \in Range(s) \cup Range(t)
    BY <1>4
  <2>1. CASE i <= Len(s)
    BY <1>2, <1>3, <2>1
  <2>2. CASE ~(i <= Len(s))
    <3>1. i - Len(s) \in 1..Len(t)
      BY <1>2, <2>2
    <3>2. c[i] = t[i - Len(s)]
      BY <1>3, <2>2
    <3>3. QED
      BY <1>2, <3>1, <3>2
  <2>3. QED
    BY <2>1, <2>2
<1>6. ASSUME NEW i \in 1..Len(s)
      PROVE  s[i] \in Range(c)
  <2>1. i \in 1..(Len(s) + Len(t)) /\ i <= Len(s)
    BY <1>2
  <2>2. QED
    BY <1>3, <1>4, <2>1
<1>7. ASSUME NEW i \in 1..Len(t)
      PROVE  t[i] \in Range(c)
  <2>1. PICK j \in 1..(Len(s) + Len(t)) : j = Len(s) + i
    BY <1>2
  <2>2. ~(j <= Len(s)) /\ j - Len(s) = i
    BY <1>2, <2>1
  <2>3. QED
    BY <1>3, <1>4, <2>2
<1>8. QED
  BY <1>1, <1>2, <1>3, <1>5, <1>6, <1>7

LEMMA NumbersUpTo ==
  ASSUME NEW n \in Nat
  PROVE  IsFiniteSet(1..n) /\ Cardinality(1..n) = n
BY FS_Interval

\* A finite set as a sequence has all its elements, once each.
LEMMA SetAsSequence ==
  ASSUME NEW S, IsFiniteSet(S)
  PROVE  /\ SetToSeq(S) \in Seq(S) /\ Range(SetToSeq(S)) = S
         /\ Len(SetToSeq(S)) = Cardinality(S)
<1>1. PICK n \in Nat : n = Cardinality(S)
  BY FS_CardinalityType
<1>2. ExistsBijection(1..n, S)
  BY <1>1, FS_CardinalityType
<1>3. PICK b \in Bijection(1..n, S) : TRUE
  BY <1>2 DEF ExistsBijection
<1>4. b \in [1..n -> S] /\ IsInjective(b)
  BY <1>3 DEF Bijection, Injection, IsInjective
<1>5. PICK s : s = SetToSeq(S)
  OBVIOUS
<1>6. s \in [1..n -> S] /\ IsInjective(s)
  BY <1>1, <1>4, <1>5 DEF SetToSeq
<1>7. s \in Seq(S) /\ Len(s) = n /\ Range(s) = {s[i] : i \in 1..n}
  BY <1>6, Mapped
<1>8. s \in Injection(1..n, S)
  BY <1>6 DEF Injection, IsInjective
<1>9. IsFiniteSet(1..n) /\ Cardinality(1..n) = n
  BY NumbersUpTo
<1>10. s \in Surjection(1..n, S)
  BY <1>1, <1>8, <1>9, FS_Injection
<1>11. \A x \in S : \E i \in 1..n : s[i] = x
  BY <1>10 DEF Surjection
<1>12. Range(s) = S
  BY <1>6, <1>7, <1>11
<1>13. QED
  BY <1>1, <1>5, <1>7, <1>12

\* f is the recursive function of FlattenSeq on the indexes up to n.
Flattens(seqs, n, f) ==
  f = [i \in 1..n |-> IF i = 1 THEN seqs[i] ELSE f[i - 1] \o seqs[i]]

LEMMA FlattenExists ==
  ASSUME NEW seqs, NEW n \in Nat
  PROVE  \E f : Flattens(seqs, n, f)
<1> DEFINE Q == {k \in Nat : \E f : Flattens(seqs, k, f)}
<1>1. 0 \in Q
  <2>1. PICK f : f = [i \in 1..0 |-> IF i = 1 THEN seqs[i] ELSE seqs[i] \o seqs[i]]
    OBVIOUS
  <2>2. f = [i \in 1..0 |-> IF i = 1 THEN seqs[i] ELSE f[i - 1] \o seqs[i]]
    BY <2>1
  <2>3. QED
    BY <2>2, Zenon DEF Flattens
<1>2. ASSUME NEW k \in Nat, k \in Q
      PROVE  k + 1 \in Q
  <2>1. PICK h : Flattens(seqs, k, h)
    BY <1>2
  <2>2. PICK last : last = IF k + 1 = 1 THEN seqs[k + 1] ELSE h[k] \o seqs[k + 1]
    BY Zenon
  <2>3. PICK f : f = [i \in 1..(k + 1) |-> IF i = k + 1 THEN last ELSE h[i]]
    BY Zenon
  <2>4. ASSUME NEW i \in 1..(k + 1)
        PROVE  f[i] = IF i = 1 THEN seqs[i] ELSE f[i - 1] \o seqs[i]
    <3>1. CASE i = k + 1
      <4>1. f[i] = last
        BY <2>3, <3>1
      <4>2. i # 1 => k \in 1..(k + 1) /\ k # k + 1 /\ i - 1 = k
        BY <3>1
      <4>3. i # 1 => f[i - 1] = h[k]
        BY <2>3, <4>2
      <4>4. QED
        BY <2>2, <3>1, <4>1, <4>3
    <3>2. CASE i # k + 1
      <4>1. i \in 1..k
        BY <3>2
      <4>2. f[i] = h[i] /\ h[i] = IF i = 1 THEN seqs[i] ELSE h[i - 1] \o seqs[i]
        BY <2>1, <2>3, <3>2, <4>1, Zenon DEF Flattens
      <4>3. i # 1 => i - 1 \in 1..(k + 1) /\ i - 1 # k + 1
        BY <4>1
      <4>4. i # 1 => f[i - 1] = h[i - 1]
        BY <2>3, <4>3
      <4>5. QED
        BY <4>2, <4>4
    <3>3. QED
      BY <3>1, <3>2
  <2>5. f = [i \in 1..(k + 1) |-> IF i = 1 THEN seqs[i] ELSE f[i - 1] \o seqs[i]]
    BY <2>3, <2>4
  <2>6. Flattens(seqs, k + 1, f)
    BY <2>5, Zenon DEF Flattens
  <2>7. QED
    BY <2>6
<1>3. \A k \in 0..(n - 1) : k \in Q => k + 1 \in Q
  BY <1>2
<1>4. n \in Q
  <2> HIDE DEF Q
  <2>1. 0..n \subseteq Q
    BY <1>1, <1>3, OnlyFold!CountingUp
  <2>2. QED
    BY <2>1
<1>5. QED
  BY <1>4

\* All the elements of all the sequences.
LEMMA Flattened ==
  ASSUME NEW T, NEW seqs, NEW n \in Nat, seqs \in Seq(Seq(T)), Len(seqs) = n
  PROVE  /\ FlattenSeq(seqs) \in Seq(T)
         /\ Range(FlattenSeq(seqs)) = UNION {Range(seqs[i]) : i \in 1..n}
<1>1. DOMAIN seqs = 1..n /\ \A i \in 1..n : seqs[i] \in Seq(T)
  BY ElementsOf
<1>2. CASE n = 0
  <2>1. FlattenSeq(seqs) = seqs
    BY <1>2 DEF FlattenSeq
  <2>2. seqs = <<>>
    BY <1>2, EmptySeq
  <2>3. Range(seqs) = {}
    BY <1>1, <1>2 DEF Range
  <2>4. UNION {Range(seqs[i]) : i \in 1..n} = {}
    BY <1>2
  <2>5. QED
    BY <2>1, <2>2, <2>3, <2>4
<1>3. CASE n # 0
  <2>1. PICK f : f = CHOOSE g : Flattens(seqs, n, g)
    OBVIOUS
  <2>2. Flattens(seqs, n, f)
    BY <2>1, FlattenExists
  <2>3. FlattenSeq(seqs) = f[n]
    BY <1>3, <2>1 DEF FlattenSeq, Flattens
  <2>4. \A i \in 1..n : f[i] = IF i = 1 THEN seqs[i] ELSE f[i - 1] \o seqs[i]
    BY <2>2, Zenon DEF Flattens
  <2> DEFINE Upto(k) == UNION {Range(seqs[i]) : i \in 1..k}
  <2> DEFINE Q == {k \in Nat : k = 0 \/ (f[k] \in Seq(T) /\ Range(f[k]) = Upto(k))}
  <2>5. 0 \in Q
    OBVIOUS
  <2>6. ASSUME NEW k \in 0..(n - 1), k \in Q
        PROVE  k + 1 \in Q
    <3>1. k + 1 \in 1..n /\ k \in Nat /\ k + 1 \in Nat
      OBVIOUS
    <3>2. seqs[k + 1] \in Seq(T)
      BY <1>1, <3>1
    <3>3. Upto(k + 1) = Upto(k) \cup Range(seqs[k + 1])
      <4>1. 1..(k + 1) = 1..k \cup {k + 1}
        BY <3>1
      <4>2. QED
        BY <4>1
    <3>4. CASE k = 0
      <4>1. f[k + 1] = seqs[k + 1]
        BY <2>4, <3>1, <3>4
      <4>2. Upto(k) = {}
        BY <3>4
      <4>3. QED
        BY <3>1, <3>2, <3>3, <4>1, <4>2, Zenon
    <3>5. CASE k # 0
      <4>1. f[k + 1] = f[k] \o seqs[k + 1]
        <5>1. PICK m \in 1..n : m = k + 1
          BY <3>1
        <5>2. m # 1 /\ m - 1 = k
          BY <3>1, <3>5, <5>1
        <5>3. f[m] = f[m - 1] \o seqs[m]
          BY <2>4, <5>2, Zenon
        <5>4. QED
          BY <5>1, <5>2, <5>3, Zenon
      <4>2. f[k] \in Seq(T) /\ Range(f[k]) = Upto(k)
        BY <2>6, <3>5, Zenon
      <4>3. PICK a \in Seq(T) : a = f[k]
        BY <4>2
      <4>4. PICK b \in Seq(T) : b = seqs[k + 1]
        BY <3>2
      <4>5. a \o b \in Seq(T) /\ Range(a \o b) = Range(a) \cup Range(b)
        BY Joined
      <4>6. QED
        BY <3>1, <3>3, <4>1, <4>2, <4>3, <4>4, <4>5, Zenon
    <3>6. QED
      BY <3>4, <3>5
  <2>7. n \in Q
    <3> HIDE DEF Q
    <3>1. 0..n \subseteq Q
      BY <2>5, <2>6, OnlyFold!CountingUp, Zenon
    <3>2. QED
      BY <3>1
  <2>8. f[n] \in Seq(T) /\ Range(f[n]) = Upto(n)
    BY <1>3, <2>7
  <2>9. QED
    BY <2>3, <2>8
<1>4. QED
  BY <1>2, <1>3

LEMMA RangeIsFinite ==
  ASSUME NEW T, NEW s \in Seq(T)
  PROVE  IsFiniteSet(Range(s)) /\ Cardinality(Range(s)) <= Len(s)
<1>1. PICK n \in Nat : n = Len(s)
  BY ElementsOf
<1>2. DOMAIN s = 1..n /\ Range(s) = {s[i] : i \in 1..n}
  BY <1>1, ElementsOf
<1>3. s = [i \in 1..n |-> s[i]]
  BY <1>1, SameSequence
<1>4. s \in Surjection(1..n, Range(s))
  <2>1. s \in [1..n -> Range(s)]
    BY <1>2, <1>3
  <2>2. QED
    BY <1>2, <2>1 DEF Surjection
<1>5. IsFiniteSet(1..n) /\ Cardinality(1..n) = n
  BY NumbersUpTo
<1>6. QED
  BY <1>1, <1>4, <1>5, FS_Surjection

\* A sequence without repetition is as long as it has elements.
LEMMA AllDifferent ==
  ASSUME NEW n \in Nat, NEW s, DOMAIN s = 1..n, s = [i \in 1..n |-> s[i]],
         \A i, j \in 1..n : s[i] = s[j] => i = j
  PROVE  Cardinality(Range(s)) = n
<1>1. PICK R : R = Range(s)
  BY Zenon
<1>2. s \in [1..n -> R] /\ \A x \in R : \E i \in 1..n : s[i] = x
  BY <1>1 DEF Range
<1>3. s \in Injection(1..n, R)
  BY <1>2 DEF Injection, IsInjective
<1>4. s \in Surjection(1..n, R)
  BY <1>2 DEF Surjection
<1>5. IsFiniteSet(1..n) /\ Cardinality(1..n) = n
  BY NumbersUpTo
<1>6. Cardinality(R) = n
  BY <1>3, <1>4, <1>5, FS_Surjection
<1>7. QED
  BY <1>1, <1>6

----------------------------------------------------------------------------
(***************************************************************************)
(* Lists of sources, no two of them under one identifier.                  *)
(***************************************************************************)

SourceList(G, order) ==
  /\ order \in Seq(G)
  /\ \A i, j \in DOMAIN order : order[i].id = order[j].id => i = j

LEMMA IDsAre ==
  ASSUME NEW G, NEW order \in Seq(G)
  PROVE  IDs(order) = {src.id : src \in Range(order)}
BY DEF IDs, Range

LEMMA EmptyList ==
  ASSUME NEW G
  PROVE  SourceList(G, <<>>) /\ IDs(<<>>) = {} /\ Range(<<>>) = {}
<1>1. PICK nothing : nothing = <<>>
  OBVIOUS
<1>2. nothing \in Seq(G) /\ DOMAIN nothing = {}
  BY <1>1
<1>3. SourceList(G, nothing) /\ IDs(nothing) = {} /\ Range(nothing) = {}
  BY <1>2 DEF SourceList, IDs, Range
<1>4. QED
  BY <1>1, <1>3

LEMMA AddIs ==
  ASSUME NEW G, NEW order, SourceList(G, order), NEW src \in G
  PROVE  /\ SourceList(G, Add(order, src))
         /\ IDs(Add(order, src)) = IDs(order) \cup {src.id}
         /\ Range(order) \subseteq Range(Add(order, src))
<1>1. /\ order \in Seq(G) /\ Len(order) \in Nat /\ DOMAIN order = 1..Len(order)
      /\ Range(order) = {order[i] : i \in 1..Len(order)}
  BY ElementsOf DEF SourceList
<1>2. CASE src.id \in IDs(order)
  BY <1>2 DEF Add
<1>3. CASE src.id \notin IDs(order)
  <2>1. PICK longer : longer = Append(order, src)
    BY Zenon
  <2>2. /\ longer \in Seq(G) /\ Len(longer) = Len(order) + 1
        /\ Range(longer) = Range(order) \cup {src}
        /\ \A i \in 1..Len(order) : longer[i] = order[i]
        /\ longer[Len(order) + 1] = src
        /\ DOMAIN longer = 1..(Len(order) + 1)
    BY <1>1, <2>1, RangeOfAppend, LenProperties
  <2>3. IDs(longer) = IDs(order) \cup {src.id}
    <3>1. IDs(longer) = {x.id : x \in Range(longer)} /\ IDs(order) = {x.id : x \in Range(order)}
      BY <1>1, <2>2, IDsAre
    <3>2. QED
      BY <2>2, <3>1
  <2>4. \A i \in 1..Len(order) : order[i].id # src.id
    BY <1>1, <1>3 DEF IDs
  <2>5. \A i, j \in 1..Len(order) : order[i].id = order[j].id => i = j
    BY <1>1 DEF SourceList
  <2>6. \A i, j \in DOMAIN longer : longer[i].id = longer[j].id => i = j
    BY <1>1, <2>2, <2>4, <2>5
  <2>7. Add(order, src) = longer
    BY <1>3, <2>1 DEF Add
  <2>8. QED
    BY <2>2, <2>3, <2>6, <2>7 DEF SourceList
<1>4. QED
  BY <1>2, <1>3

AddStep(none, nothing, order, src) == Add(order, src)
AddInv(about, k, order) ==
  /\ SourceList(about.good, order)
  /\ IDs(order) = IDs(about.base) \cup {about.srcs[i].id : i \in 1..k}
  /\ Range(about.base) \subseteq Range(order)
AddFold == INSTANCE FoldTheorems WITH Step <- AddStep, Inv <- AddInv

LEMMA AddAll ==
  ASSUME NEW G, NEW base, SourceList(G, base), NEW srcs \in Seq(G)
  PROVE  /\ SourceList(G, FoldLeft(Add, base, srcs))
         /\ IDs(FoldLeft(Add, base, srcs)) = IDs(base) \cup IDs(srcs)
         /\ Range(base) \subseteq Range(FoldLeft(Add, base, srcs))
<1>1. PICK about : about = [good |-> G, base |-> base, srcs |-> srcs]
  BY Zenon
<1>2. about.good = G /\ about.base = base /\ about.srcs = srcs
  BY <1>1
<1>3. /\ Len(srcs) \in Nat /\ DOMAIN srcs = 1..Len(srcs)
      /\ \A i \in 1..Len(srcs) : srcs[i] \in G
  BY ElementsOf
<1>4. AddInv(about, 0, base)
  BY <1>2 DEF AddInv
<1>5. ASSUME NEW k \in 1..Len(srcs), NEW order, AddInv(about, k - 1, order)
      PROVE  AddInv(about, k, AddStep(0, 0, order, srcs[k]))
  <2>1. /\ SourceList(G, order) /\ Range(base) \subseteq Range(order)
        /\ IDs(order) = IDs(base) \cup {srcs[i].id : i \in 1..(k - 1)}
    BY <1>2, <1>5 DEF AddInv
  <2>2. PICK src \in G : src = srcs[k]
    BY <1>3
  <2>3. PICK more : more = Add(order, src)
    OBVIOUS
  <2>4. /\ SourceList(G, more) /\ IDs(more) = IDs(order) \cup {src.id}
        /\ Range(order) \subseteq Range(more)
    BY <2>1, <2>3, AddIs
  <2>5. {srcs[i].id : i \in 1..k} = {srcs[i].id : i \in 1..(k - 1)} \cup {src.id}
    BY <1>3, <2>2
  <2>6. AddInv(about, k, more)
    BY <1>2, <2>1, <2>4, <2>5 DEF AddInv
  <2>7. QED
    BY <2>2, <2>3, <2>6 DEF AddStep
<1>6. AddInv(about, Len(srcs), AddFold!Result(0, 0, base, srcs))
  BY <1>3, <1>4, <1>5, AddFold!FoldKeeps
<1>7. FoldLeft(Add, base, srcs) = AddFold!Result(0, 0, base, srcs)
  BY DEF AddStep, AddFold!Result, FoldLeft, MapThenFoldSet,
         AddFold!MapThenFoldSet, Max, AddFold!Highest
<1>8. AddInv(about, Len(srcs), FoldLeft(Add, base, srcs))
  BY <1>6, <1>7
<1>9. IDs(srcs) = {srcs[i].id : i \in 1..Len(srcs)}
  BY <1>3 DEF IDs
<1>10. QED
  BY <1>2, <1>8, <1>9 DEF AddInv

----------------------------------------------------------------------------
(***************************************************************************)
(* The local sources of a configuration.                                   *)
(***************************************************************************)

\* A set that is being built: its sources are from G and its names from P.
SetOf(G, P, held) ==
  /\ held = [order |-> held.order, pending |-> held.pending, resolve |-> {}]
  /\ SourceList(G, held.order)
  /\ held.pending \in Seq(P)

\* A library is in a set as a source, or as a name.
Has(held, service, ref) ==
  IF IsPendingName(service, ref) THEN Pending(service, ref.id) \in Range(held.pending)
  ELSE LibraryScopedID(service, ref) \in IDs(held.order)

LEMMA AddLocalIs ==
  ASSUME NEW G, NEW P, NEW cfg, NEW service, NEW held, SetOf(G, P, held), NEW ref,
         IsPendingName(service, ref) => Pending(service, ref.id) \in P,
         ~IsPendingName(service, ref) => Client(cfg, service, ref) \in G
  PROVE  /\ SetOf(G, P, AddLocal(held, cfg, service, ref))
         /\ Has(AddLocal(held, cfg, service, ref), service, ref)
         /\ IDs(held.order) \subseteq IDs(AddLocal(held, cfg, service, ref).order)
         /\ Range(held.pending) \subseteq Range(AddLocal(held, cfg, service, ref).pending)
<1>1. PICK more : more = AddLocal(held, cfg, service, ref)
  OBVIOUS
<1>2. PICK o, p : held = [order |-> o, pending |-> p, resolve |-> {}]
  <2>1. held = [order |-> held.order, pending |-> held.pending, resolve |-> {}]
    BY DEF SetOf
  <2>2. QED
    BY <2>1
<1>3. held.order = o /\ held.pending = p /\ SourceList(G, o) /\ p \in Seq(P)
  <2>1. held.order = o /\ held.pending = p
    BY <1>2
  <2>2. QED
    BY <2>1 DEF SetOf
<1>4. CASE IsPendingName(service, ref)
  <2>1. PICK name \in P : name = Pending(service, ref.id)
    BY <1>4
  <2>2. PICK names : names = Append(p, name)
    BY Zenon
  <2>3. more = [held EXCEPT !.pending = Append(held.pending, name)]
    BY <1>1, <1>4, <2>1 DEF AddLocal
  <2>4. more = [held EXCEPT !.pending = names]
    BY <1>3, <2>2, <2>3
  <2>5. more = [order |-> o, pending |-> names, resolve |-> {}]
    BY <1>2, <2>4
  <2>6. names \in Seq(P) /\ Range(names) = Range(p) \cup {name}
    BY <1>3, <2>2, RangeOfAppend
  <2>7. more.order = o /\ more.pending = names
    BY <2>5
  <2>8. SetOf(G, P, more)
    BY <1>3, <2>5, <2>6, <2>7 DEF SetOf
  <2>9. Has(more, service, ref)
    BY <1>4, <2>1, <2>6, <2>7 DEF Has
  <2>10. QED
    BY <1>1, <1>3, <2>6, <2>7, <2>8, <2>9
<1>5. CASE ~IsPendingName(service, ref)
  <2>1. PICK src \in G : src = Client(cfg, service, ref)
    BY <1>5
  <2>2. PICK order : order = Add(o, src)
    OBVIOUS
  <2>3. more = [held EXCEPT !.order = Add(held.order, src)]
    BY <1>1, <1>5, <2>1 DEF AddLocal
  <2>4. more = [held EXCEPT !.order = order]
    BY <1>3, <2>2, <2>3
  <2>5. more = [order |-> order, pending |-> p, resolve |-> {}]
    BY <1>2, <2>4
  <2>6. more.order = order /\ more.pending = p
    BY <2>5
  <2>7. SourceList(G, order) /\ IDs(order) = IDs(o) \cup {src.id}
    BY <1>3, <2>2, AddIs
  <2>8. SetOf(G, P, more)
    BY <1>3, <2>5, <2>6, <2>7 DEF SetOf
  <2>9. src.id = LibraryScopedID(service, ref)
    BY <2>1 DEF Client
  <2>10. Has(more, service, ref)
    BY <1>5, <2>6, <2>7, <2>9 DEF Has
  <2>11. QED
    BY <1>1, <1>3, <2>6, <2>7, <2>8, <2>10
<1>6. QED
  BY <1>4, <1>5

\* Entries that may become sources from G or names from P.
Admits(G, P, cfg, service, list) ==
  \A ref \in Range(list) :
    /\ IsPendingName(service, ref) => Pending(service, ref.id) \in P
    /\ ~IsPendingName(service, ref) => Client(cfg, service, ref) \in G

LocalStep(cfg, service, held, ref) == AddLocal(held, cfg, service, ref)
LocalInv(about, k, held) ==
  /\ SetOf(about.good, about.names, held)
  /\ \A i \in 1..k : Has(held, about.service, about.refs[i])
  /\ IDs(about.base.order) \subseteq IDs(held.order)
  /\ Range(about.base.pending) \subseteq Range(held.pending)
LocalFold == INSTANCE FoldTheorems WITH Step <- LocalStep, Inv <- LocalInv

LEMMA AddLocalAll ==
  ASSUME NEW G, NEW P, NEW cfg, NEW service, NEW base, SetOf(G, P, base),
         NEW R, NEW refs \in Seq(R),
         Admits(G, P, cfg, service, refs),
         NEW more, more = LocalFold!Result(cfg, service, base, refs)
  PROVE  /\ SetOf(G, P, more)
         /\ \A ref \in Range(refs) : Has(more, service, ref)
         /\ IDs(base.order) \subseteq IDs(more.order)
         /\ Range(base.pending) \subseteq Range(more.pending)
<1>1. PICK about :
        about = [good |-> G, names |-> P, service |-> service, refs |-> refs, base |-> base]
  BY Zenon
<1>2. /\ about.good = G /\ about.names = P /\ about.service = service
      /\ about.refs = refs /\ about.base = base
  BY <1>1
<1>3. /\ Len(refs) \in Nat /\ DOMAIN refs = 1..Len(refs)
      /\ Range(refs) = {refs[i] : i \in 1..Len(refs)}
  BY ElementsOf
<1>4. LocalInv(about, 0, base)
  BY <1>2 DEF LocalInv
<1>5. ASSUME NEW k \in 1..Len(refs), NEW held, LocalInv(about, k - 1, held)
      PROVE  LocalInv(about, k, LocalStep(cfg, service, held, refs[k]))
  <2>1. /\ SetOf(G, P, held) /\ \A i \in 1..(k - 1) : Has(held, service, refs[i])
        /\ IDs(base.order) \subseteq IDs(held.order)
        /\ Range(base.pending) \subseteq Range(held.pending)
    BY <1>2, <1>5 DEF LocalInv
  <2>2. PICK ref : ref = refs[k] /\ ref \in Range(refs)
    BY <1>3
  <2>3. PICK then : then = AddLocal(held, cfg, service, ref)
    OBVIOUS
  <2>4. /\ SetOf(G, P, then) /\ Has(then, service, ref)
        /\ IDs(held.order) \subseteq IDs(then.order)
        /\ Range(held.pending) \subseteq Range(then.pending)
    <3>1. /\ IsPendingName(service, ref) => Pending(service, ref.id) \in P
          /\ ~IsPendingName(service, ref) => Client(cfg, service, ref) \in G
      BY <2>2 DEF Admits
    <3>2. QED
      BY <2>1, <2>3, <3>1, AddLocalIs, Zenon
  <2>5. \A i \in 1..(k - 1) : Has(then, service, refs[i])
    BY <2>1, <2>4 DEF Has
  <2>6. \A i \in 1..k : i = k \/ i \in 1..(k - 1)
    BY <1>3
  <2>7. LocalInv(about, k, then)
    BY <1>2, <2>1, <2>2, <2>4, <2>5, <2>6 DEF LocalInv
  <2>8. QED
    BY <2>2, <2>3, <2>7 DEF LocalStep
<1>6. LocalInv(about, Len(refs), more)
  BY <1>3, <1>4, <1>5, LocalFold!FoldKeeps
<1>7. QED
  BY <1>2, <1>3, <1>6 DEF LocalInv

ServiceStep(cfg, refs, held, service) ==
  IF ~Configured(cfg, service) THEN held
  ELSE FoldLeft(LAMBDA s, ref : AddLocal(s, cfg, service, ref), held, LibraryRefsOrAll(refs[service]))
ServiceInv(about, k, held) ==
  /\ SetOf(about.good, about.names, held)
  /\ \A i \in 1..k : Configured(about.cfg, Services[i]) =>
       \A ref \in Range(LibraryRefsOrAll(about.refs[Services[i]])) : Has(held, Services[i], ref)
ServiceFold == INSTANCE FoldTheorems WITH Step <- ServiceStep, Inv <- ServiceInv

LEMMA TwoServices ==
  /\ DOMAIN Services = 1..2 /\ Services[1] = "jellyfin" /\ Services[2] = "plex"
  /\ 1..2 = {1, 2}
<1>1. PICK s : s = Services
  OBVIOUS
<1>2. s = <<"jellyfin", "plex">>
  BY <1>1 DEF Services
<1>3. DOMAIN s = 1..2 /\ s[1] = "jellyfin" /\ s[2] = "plex"
  BY <1>2
<1>4. QED
  BY <1>1, <1>3

\* Every library of every configured service gets into the set.
LEMMA LocalSourcesAre ==
  ASSUME NEW G, NEW P, NEW R, NEW cfg, NEW refs,
         \A s \in {"jellyfin", "plex"} :
           refs[s] \in Seq(R) /\ (Configured(cfg, s) => Admits(G, P, cfg, s, LibraryRefsOrAll(refs[s])))
  PROVE  /\ SetOf(G, P, AddLocalSources(cfg, refs))
         /\ \A s \in {"jellyfin", "plex"} : Configured(cfg, s) =>
              \A ref \in Range(LibraryRefsOrAll(refs[s])) : Has(AddLocalSources(cfg, refs), s, ref)
<1>1. PICK about : about = [good |-> G, names |-> P, cfg |-> cfg, refs |-> refs]
  BY Zenon
<1>2. about.good = G /\ about.names = P /\ about.cfg = cfg /\ about.refs = refs
  BY <1>1
<1>3. ServiceInv(about, 0, NoSources)
  <2>1. PICK none : none = NoSources
    OBVIOUS
  <2>2. PICK nothing : nothing = <<>>
    OBVIOUS
  <2>3. none = [order |-> nothing, pending |-> nothing, resolve |-> {}]
    BY <2>1, <2>2 DEF NoSources
  <2>4. none.order = nothing /\ none.pending = nothing
    BY <2>3
  <2>5. SourceList(G, nothing) /\ nothing \in Seq(P)
    BY <2>2, EmptyList
  <2>6. SetOf(G, P, none)
    BY <2>3, <2>4, <2>5 DEF SetOf
  <2>7. QED
    BY <1>2, <2>1, <2>6 DEF ServiceInv
<1>4. ASSUME NEW k \in 1..2, NEW held, ServiceInv(about, k - 1, held)
      PROVE  ServiceInv(about, k, ServiceStep(cfg, refs, held, Services[k]))
  <2>1. PICK service \in {"jellyfin", "plex"} : service = Services[k]
    BY TwoServices
  <2>2. /\ SetOf(G, P, held)
        /\ \A i \in 1..(k - 1) : Configured(cfg, Services[i]) =>
             \A ref \in Range(LibraryRefsOrAll(refs[Services[i]])) : Has(held, Services[i], ref)
    BY <1>2, <1>4 DEF ServiceInv
  <2>3. \A i \in 1..k : i = k \/ i \in 1..(k - 1)
    OBVIOUS
  <2>4. PICK more : more = ServiceStep(cfg, refs, held, service)
    OBVIOUS
  <2>5. CASE ~Configured(cfg, service)
    <3>1. more = held
      BY <2>4, <2>5 DEF ServiceStep
    <3>2. \A i \in 1..k : Configured(cfg, Services[i]) =>
            \A ref \in Range(LibraryRefsOrAll(refs[Services[i]])) : Has(held, Services[i], ref)
      BY <2>1, <2>2, <2>3, <2>5, Zenon
    <3>3. ServiceInv(about, k, held)
      BY <1>2, <2>2, <3>2 DEF ServiceInv
    <3>4. QED
      BY <2>1, <2>4, <3>1, <3>3
  <2>6. CASE Configured(cfg, service)
    <3>1. PICK list : list = LibraryRefsOrAll(refs[service])
      OBVIOUS
    <3>2. list \in Seq(R \cup {Library(Empty, Empty)})
      <4>1. PICK own \in Seq(R) : own = refs[service]
        OBVIOUS
      <4>2. PICK all : all = <<Library(Empty, Empty)>>
        BY Zenon
      <4>3. all \in Seq(R \cup {Library(Empty, Empty)})
        BY <4>2
      <4>4. own \in Seq(R \cup {Library(Empty, Empty)})
        OBVIOUS
      <4>5. QED
        BY <3>1, <4>1, <4>2, <4>3, <4>4, Zenon DEF LibraryRefsOrAll
    <3>3. Admits(G, P, cfg, service, list)
      BY <2>6, <3>1
    <3>4. PICK U : U = R \cup {Library(Empty, Empty)}
      BY Zenon
    <3>5. list \in Seq(U)
      BY <3>2, <3>4
    <3>6a. PICK s : s = LocalFold!Result(cfg, service, held, list)
      OBVIOUS
    <3>6b. SetOf(G, P, held)
      BY <2>2
    <3>6. /\ SetOf(G, P, s)
          /\ \A ref \in Range(list) : Has(s, service, ref)
          /\ IDs(held.order) \subseteq IDs(s.order)
          /\ Range(held.pending) \subseteq Range(s.pending)
      BY ONLY <3>3, <3>5, <3>6a, <3>6b, AddLocalAll, Zenon
    <3>7. more = FoldLeft(LAMBDA b, ref : AddLocal(b, cfg, service, ref), held, list)
      BY <2>4, <2>6, <3>1, Zenon DEF ServiceStep
    <3>8. FoldLeft(LAMBDA b, ref : AddLocal(b, cfg, service, ref), held, list)
            = LocalFold!Result(cfg, service, held, list)
      BY DEF LocalStep, LocalFold!Result, FoldLeft, MapThenFoldSet,
             LocalFold!MapThenFoldSet, Max, LocalFold!Highest
    <3>9. more = s
      BY <3>6a, <3>7, <3>8, Zenon
    <3>10. \A t, ref : Has(held, t, ref) => Has(s, t, ref)
      BY <3>6 DEF Has
    <3>11. \A i \in 1..k : Configured(cfg, Services[i]) =>
             \A ref \in Range(LibraryRefsOrAll(refs[Services[i]])) : Has(s, Services[i], ref)
      BY <2>1, <2>2, <2>3, <3>1, <3>6, <3>10, Zenon
    <3>12. ServiceInv(about, k, s)
      BY <1>2, <3>6, <3>11 DEF ServiceInv
    <3>13. QED
      BY <2>1, <2>4, <3>9, <3>12
  <2>7. QED
    BY <2>5, <2>6
<1>5. PICK services : services = Services
  OBVIOUS
<1>6. DOMAIN services = 1..2 /\ 2 \in Nat
  BY <1>5, TwoServices
<1>7. PICK all : all = ServiceFold!Result(cfg, refs, NoSources, services)
  OBVIOUS
<1>8. \A k \in 1..2 : \A held :
        ServiceInv(about, k - 1, held) => ServiceInv(about, k, ServiceStep(cfg, refs, held, services[k]))
  BY <1>4, <1>5
<1>9. ServiceInv(about, 2, all)
  BY <1>3, <1>6, <1>7, <1>8, ServiceFold!FoldKeeps, Zenon
<1>10. AddLocalSources(cfg, refs) = ServiceFold!Result(cfg, refs, NoSources, Services)
  BY DEF AddLocalSources, ServiceStep, ServiceFold!Result, FoldLeft,
         MapThenFoldSet, ServiceFold!MapThenFoldSet, Max, ServiceFold!Highest
<1>11. ServiceInv(about, 2, AddLocalSources(cfg, refs))
  BY <1>5, <1>7, <1>9, <1>10
<1>12. QED
  BY <1>2, <1>11, TwoServices DEF ServiceInv

----------------------------------------------------------------------------
(***************************************************************************)
(* The services that a configuration resolves to.                          *)
(***************************************************************************)

LEMMA AtMostOne ==
  ASSUME NEW S, NEW x, S = {} \/ S = {x}
  PROVE  IsFiniteSet(S)
BY FS_EmptySet, FS_Singleton

\* What the table has under an identifier.
LEMMA KnownIsFinite ==
  ASSUME NEW slug
  PROVE  IsFiniteSet(LookupKnownProvider(slug))
<1>1. PICK table : table = Range(KnownProviders)
  OBVIOUS
<1>2. IsFiniteSet(table)
  BY <1>1, KnownAssumption, RangeIsFinite
<1>3. PICK some : some = {k \in table : k.slug = slug}
  BY Zenon
<1>4. IsFiniteSet(some)
  BY <1>2, <1>3, FS_Subset
<1>5. PICK T : T = {Provider(p.slug, p.name, p.tmdbID) : p \in some}
  BY Zenon
<1>6. PICK f : f = [p \in some |-> Provider(p.slug, p.name, p.tmdbID)]
  BY Zenon
<1>7. f \in Surjection(some, T)
  BY <1>5, <1>6 DEF Surjection
<1>8. IsFiniteSet(T)
  BY <1>4, <1>7, FS_Surjection
<1>9. QED
  BY <1>1, <1>3, <1>5, <1>8 DEF LookupKnownProvider

LEMMA LeftoverIsFinite ==
  ASSUME NEW cat, NEW word
  PROVE  IsFiniteSet(FromCatalog(cat, word))
<1>1. PICK S : S = FromCatalog(cat, word)
  OBVIOUS
<1>2. \E x : S = {} \/ S = {x}
  BY <1>1, Zenon DEF FromCatalog, Lookup
<1>3. IsFiniteSet(S)
  BY <1>2, AtMostOne
<1>4. QED
  BY <1>1, <1>3

\* Finite sets one after another are a sequence.
LEMMA OneAfterAnother ==
  ASSUME NEW n \in Nat, NEW sets, DOMAIN sets = 1..n, \A i \in 1..n : IsFiniteSet(sets[i])
  PROVE  \E T : FlattenSeq([i \in 1..n |-> SetToSeq(sets[i])]) \in Seq(T)
<1>1. PICK T : T = UNION {sets[i] : i \in 1..n}
  BY Zenon
<1>2. ASSUME NEW i \in 1..n
      PROVE  SetToSeq(sets[i]) \in Seq(T)
  <2>1. PICK S : S = sets[i]
    OBVIOUS
  <2>2. IsFiniteSet(S) /\ S \subseteq T
    BY <1>1, <2>1
  <2>3. SetToSeq(S) \in Seq(S)
    BY <2>2, SetAsSequence
  <2>4. SetToSeq(S) \in Seq(T)
    BY <2>2, <2>3
  <2>5. QED
    BY <2>1, <2>4
<1>3. PICK U : U = Seq(T)
  OBVIOUS
<1>4. PICK seqs : seqs = [i \in 1..n |-> SetToSeq(sets[i])]
  BY Zenon
<1>5. seqs \in [1..n -> U]
  BY <1>2, <1>3, <1>4
<1>6. seqs \in Seq(U) /\ Len(seqs) = n
  BY <1>5, Mapped
<1>7. FlattenSeq(seqs) \in Seq(T)
  BY <1>3, <1>6, Flattened
<1>8. QED
  BY <1>4, <1>7

LEMMA ProvidersAreASequence ==
  ASSUME NEW cfg, NEW tmdb, cfg.val["streaming.providers"] \in Seq(Texts)
  PROVE  \E T : ResolveStreamingProviders(cfg, tmdb) \in Seq(T)
<1>1. PICK texts \in Seq(Texts) : texts = cfg.val["streaming.providers"]
  OBVIOUS
<1>2. PICK words : words = [i \in DOMAIN texts |-> texts[i].word]
  BY Zenon
<1>3. PICK n \in Nat : n = Len(texts) /\ DOMAIN texts = 1..n
  BY ElementsOf
<1>4. PICK U : U = {texts[i].word : i \in 1..n}
  BY Zenon
<1>5. words \in [1..n -> U]
  BY <1>2, <1>3, <1>4
<1>6. words \in Seq(U) /\ DOMAIN words = 1..n
  BY <1>5, Mapped
<1>7. PICK S : S = {w \in Range(words) : LookupKnownProvider(w) = {}}
  BY Zenon
<1>8. PICK leftover : leftover = Only(words, S)
  OBVIOUS
<1>9. PICK V : V = U \cap S
  BY Zenon
<1>10. leftover \in Seq(V)
  BY <1>6, <1>8, <1>9, OnlyIs
<1>11. PICK m \in Nat : m = Len(leftover) /\ DOMAIN leftover = 1..m
  BY <1>10, ElementsOf
<1>12. PICK cat : cat = NewProviderCatalog(FetchProviders(tmdb, cfg.val["streaming.tmdbReadToken"]))
  OBVIOUS
<1>13. \E T : Each(words, LookupKnownProvider) \in Seq(T)
  <2>1. PICK sets : sets = [i \in 1..n |-> LookupKnownProvider(words[i])]
    BY Zenon
  <2>2. DOMAIN sets = 1..n /\ \A i \in 1..n : IsFiniteSet(sets[i])
    BY <2>1, KnownIsFinite
  <2>3. \E T : FlattenSeq([i \in 1..n |-> SetToSeq(sets[i])]) \in Seq(T)
    BY <2>2, OneAfterAnother, Zenon
  <2>4. [i \in 1..n |-> SetToSeq(sets[i])] = [i \in 1..n |-> SetToSeq(LookupKnownProvider(words[i]))]
    BY <2>1
  <2>5. Each(words, LookupKnownProvider) = FlattenSeq([i \in 1..n |-> SetToSeq(sets[i])])
    BY <1>6, <2>4, Zenon DEF Each
  <2>6. QED
    BY <2>3, <2>5, Zenon
<1>14. \E T : Each(leftover, LAMBDA w : FromCatalog(cat, w)) \in Seq(T)
  <2>1. PICK sets : sets = [i \in 1..m |-> FromCatalog(cat, leftover[i])]
    BY Zenon
  <2>2. DOMAIN sets = 1..m /\ \A i \in 1..m : IsFiniteSet(sets[i])
    BY <2>1, LeftoverIsFinite
  <2>3. \E T : FlattenSeq([i \in 1..m |-> SetToSeq(sets[i])]) \in Seq(T)
    BY <2>2, OneAfterAnother, Zenon
  <2>4. [i \in 1..m |-> SetToSeq(sets[i])] = [i \in 1..m |-> SetToSeq(FromCatalog(cat, leftover[i]))]
    BY <2>1
  <2>5. Each(leftover, LAMBDA w : FromCatalog(cat, w)) = FlattenSeq([i \in 1..m |-> SetToSeq(sets[i])])
    BY <1>11, <2>4 DEF Each
  <2>6. QED
    BY <2>3, <2>5, Zenon
<1>15. PICK a, A : a = Each(words, LookupKnownProvider) /\ a \in Seq(A)
  BY <1>13
<1>16. PICK b, B : b = Each(leftover, LAMBDA w : FromCatalog(cat, w)) /\ b \in Seq(B)
  BY <1>14, Zenon
<1>17. a \o b \in Seq(A \cup B)
  <2>1. PICK C : C = A \cup B
    BY Zenon
  <2>2. a \in Seq(C) /\ b \in Seq(C)
    BY <1>15, <1>16, <2>1
  <2>3. a \o b \in Seq(C)
    BY <2>2, Joined
  <2>4. QED
    BY <2>1, <2>3
<1>18. ResolveStreamingProviders(cfg, tmdb)
         = IF cfg.val["streaming.tmdbReadToken"] = Empty THEN <<>> ELSE a \o b
  BY <1>1, <1>2, <1>7, <1>8, <1>12, <1>15, <1>16 DEF ResolveStreamingProviders
<1>19. <<>> \in Seq(A)
  OBVIOUS
<1>20. QED
  BY <1>17, <1>18, <1>19

----------------------------------------------------------------------------
(***************************************************************************)
(* The set of a configuration, and what its names are resolved to.         *)
(***************************************************************************)

\* The sources a configuration may have, of the libraries in A and the
\* streaming services in T, and the names it may have.
GoodSources(cfg, A, T) ==
  {Client(cfg, a[1], a[2]) : a \in A} \cup {NewTMDBSource(cfg, p) : p \in T}

Named(cfg, service, name) ==
  /\ Configured(cfg, service)
  /\ \E ref \in Range(Libraries(cfg, service)) : ref.id = name /\ IsPendingName(service, ref)

NamesOf(cfg) ==
  {p \in [service : {"jellyfin", "plex"}, name : Texts] : Named(cfg, p.service, p.name)}

\* The libraries of a list that are not names are in A.
Usable(A, service, refs) ==
  /\ refs \in Seq(Refs)
  /\ \A ref \in Range(LibraryRefsOrAll(refs)) : ~IsPendingName(service, ref) => <<service, ref>> \in A

Built(cfg, A, T, held) ==
  /\ held = [order |-> held.order, pending |-> held.pending,
            resolve |-> IF held.pending = <<>> THEN {} ELSE {cfg}]
  /\ SourceList(GoodSources(cfg, A, T), held.order)
  /\ held.pending \in Seq(NamesOf(cfg))

\* No list is one library that has no name.
LEMMA AllOfIt ==
  ASSUME NEW service, NEW refs \in Seq(Refs), NEW ref \in Range(LibraryRefsOrAll(refs)),
         IsPendingName(service, ref)
  PROVE  ref \in Range(refs)
<1>1. CASE refs = <<>>
  <2>1. PICK all : all = <<Library(Empty, Empty)>>
    BY Zenon
  <2>2. LibraryRefsOrAll(refs) = all
    BY <1>1, <2>1 DEF LibraryRefsOrAll
  <2>3. ref = Library(Empty, Empty)
    BY <2>1, <2>2 DEF Range
  <2>4. ref.id = Empty
    BY <2>3 DEF Library
  <2>5. QED
    BY <2>4 DEF IsPendingName
<1>2. CASE refs # <<>>
  BY <1>2 DEF LibraryRefsOrAll
<1>3. QED
  BY <1>1, <1>2

LEMMA UsableIsAdmitted ==
  ASSUME NEW cfg, NEW A, NEW T, NEW service \in {"jellyfin", "plex"},
         Configured(cfg, service), Usable(A, service, Libraries(cfg, service))
  PROVE  Admits(GoodSources(cfg, A, T), NamesOf(cfg), cfg, service,
                LibraryRefsOrAll(Libraries(cfg, service)))
<1>1. PICK refs \in Seq(Refs) : refs = Libraries(cfg, service)
  BY DEF Usable
<1>2. ASSUME NEW ref \in Range(LibraryRefsOrAll(refs)), IsPendingName(service, ref)
      PROVE  Pending(service, ref.id) \in NamesOf(cfg)
  <2>1. ref \in Range(refs) /\ ref \in Refs
    BY <1>2, AllOfIt, ElementsOf
  <2>2. ref.id \in Texts
    BY <2>1 DEF Refs
  <2>3. PICK p : p = Pending(service, ref.id)
    OBVIOUS
  <2>4. /\ p \in [service : {"jellyfin", "plex"}, name : Texts]
        /\ p.service = service /\ p.name = ref.id
    BY <2>2, <2>3 DEF Pending
  <2>5. Named(cfg, service, ref.id)
    BY <1>1, <1>2, <2>1 DEF Named
  <2>6. QED
    BY <2>3, <2>4, <2>5 DEF NamesOf
<1>3. ASSUME NEW ref \in Range(LibraryRefsOrAll(refs)), ~IsPendingName(service, ref)
      PROVE  Client(cfg, service, ref) \in GoodSources(cfg, A, T)
  <2>1. PICK a \in A : a = <<service, ref>>
    BY <1>1, <1>3, Zenon DEF Usable
  <2>2. a[1] = service /\ a[2] = ref
    BY <2>1
  <2>3. QED
    BY <2>2 DEF GoodSources
<1>4. QED
  BY <1>1, <1>2, <1>3 DEF Admits

LEMMA BuildSourceSetIs ==
  ASSUME NEW cfg, NEW tmdb, NEW A, cfg.val["streaming.providers"] \in Seq(Texts),
         \A s \in {"jellyfin", "plex"} : Usable(A, s, Libraries(cfg, s))
  PROVE  \E T : Built(cfg, A, T, BuildSourceSet(cfg, tmdb))
<1>1. PICK T : ResolveStreamingProviders(cfg, tmdb) \in Seq(T)
  BY ProvidersAreASequence
<1>2. PICK ps \in Seq(T) : ps = ResolveStreamingProviders(cfg, tmdb)
  BY <1>1
<1>3. PICK G : G = GoodSources(cfg, A, T)
  OBVIOUS
<1>4. PICK srcs : srcs = [i \in DOMAIN ps |-> NewTMDBSource(cfg, ps[i])]
  BY Zenon
<1>5. srcs \in Seq(G)
  <2>1. PICK n \in Nat : n = Len(ps) /\ DOMAIN ps = 1..n /\ \A i \in 1..n : ps[i] \in T
    BY ElementsOf
  <2>2. \A i \in 1..n : NewTMDBSource(cfg, ps[i]) \in G
    BY <1>3, <2>1 DEF GoodSources
  <2>3. srcs \in [1..n -> G]
    BY <1>4, <2>1, <2>2
  <2>4. QED
    BY <2>3, Mapped
<1>6. PICK refs : refs = [s \in Range(Services) |-> Libraries(cfg, s)]
  BY Zenon
<1>7. \A s \in {"jellyfin", "plex"} : refs[s] = Libraries(cfg, s)
  BY <1>6, ServicesAre
<1>8. PICK P : P = NamesOf(cfg)
  OBVIOUS
<1>9. \A s \in {"jellyfin", "plex"} :
        refs[s] \in Seq(Refs) /\ (Configured(cfg, s) => Admits(G, P, cfg, s, LibraryRefsOrAll(refs[s])))
  <2> SUFFICES ASSUME NEW s \in {"jellyfin", "plex"}
               PROVE  /\ refs[s] \in Seq(Refs)
                      /\ Configured(cfg, s) => Admits(G, P, cfg, s, LibraryRefsOrAll(refs[s]))
    OBVIOUS
  <2>1. Usable(A, s, Libraries(cfg, s)) /\ refs[s] = Libraries(cfg, s)
    BY <1>7
  <2>2. refs[s] \in Seq(Refs)
    BY <2>1 DEF Usable
  <2>3. Configured(cfg, s) => Admits(G, P, cfg, s, LibraryRefsOrAll(refs[s]))
    BY <1>3, <1>8, <2>1, UsableIsAdmitted
  <2>4. QED
    BY <2>2, <2>3
<1>10. PICK local : local = AddLocalSources(cfg, refs)
  OBVIOUS
<1>11. SetOf(G, P, local)
  BY <1>9, <1>10, LocalSourcesAre, Zenon
<1>12. PICK o, p : local = [order |-> o, pending |-> p, resolve |-> {}]
  <2>1. local = [order |-> local.order, pending |-> local.pending, resolve |-> {}]
    BY <1>11 DEF SetOf
  <2>2. QED
    BY <2>1
<1>13. SourceList(G, o) /\ p \in Seq(P)
  <2>1. local.order = o /\ local.pending = p
    BY <1>12
  <2>2. QED
    BY <1>11, <2>1 DEF SetOf
<1>14. PICK order : order = FoldLeft(Add, o, srcs)
  OBVIOUS
<1>15. SourceList(G, order)
  BY <1>5, <1>13, <1>14, AddAll
<1>16. PICK more : more = AddStreamingSources(local, cfg, tmdb)
  OBVIOUS
<1>17. more = [local EXCEPT !.order = FoldLeft(Add, local.order, srcs)]
  BY <1>2, <1>4, <1>16 DEF AddStreamingSources
<1>18. more = [order |-> order, pending |-> p, resolve |-> {}]
  <2>1. local.order = o
    BY <1>12
  <2>2. more = [local EXCEPT !.order = order]
    BY <1>14, <1>17, <2>1
  <2>3. QED
    BY <1>12, <2>2, Zenon
<1>19. PICK built : built = BuildSourceSet(cfg, tmdb)
  OBVIOUS
<1>20. built = [more EXCEPT !.resolve = IF more.pending = <<>> THEN {} ELSE {cfg}]
  BY <1>6, <1>10, <1>16, <1>19 DEF BuildSourceSet
<1>21. PICK names : names = IF p = <<>> THEN {} ELSE {cfg}
  BY Zenon
<1>22. built = [order |-> order, pending |-> p, resolve |-> names]
  <2>1. more.pending = p
    BY <1>18
  <2>2. built = [more EXCEPT !.resolve = names]
    BY <1>20, <1>21, <2>1
  <2>3. QED
    BY <1>18, <2>2
<1>23. built.order = order /\ built.pending = p
  BY <1>22
<1>24. Built(cfg, A, T, built)
  BY <1>3, <1>8, <1>13, <1>15, <1>21, <1>22, <1>23 DEF Built
<1>25. QED
  BY <1>19, <1>24

----------------------------------------------------------------------------
(***************************************************************************)
(* Sorting. An insertion keeps a sequence in order; two sequences of one   *)
(* set that are in a total order and repeat nothing are the same.          *)
(***************************************************************************)

\* What an insertion makes of a sequence.
Inserted(T, held, n, k, x, out) ==
  /\ out \in Seq(T) /\ Len(out) = n + 1
  /\ out[k] = x
  /\ \A i \in 1..(k - 1) : out[i] = held[i]
  /\ \A i \in k..n : out[i + 1] = held[i]
  /\ Range(out) = Range(held) \cup {x}

LEMMA InsertedAt ==
  ASSUME NEW T, NEW held \in Seq(T), NEW x \in T, NEW n \in Nat, n = Len(held),
         NEW k \in 1..(n + 1)
  PROVE  Inserted(T, held, n, k, x, InsertAt(held, k, x))
<1>1. /\ DOMAIN held = 1..n /\ Range(held) = {held[i] : i \in 1..n}
      /\ \A i \in 1..n : held[i] \in T
  BY ElementsOf
<1>2. PICK front : front = SubSeq(held, 1, k - 1)
  BY Zenon
<1>3. PICK back : back = SubSeq(held, k, n)
  BY Zenon
<1>4. PICK one : one = <<x>>
  BY Zenon
<1>5. /\ front \in Seq(T) /\ Len(front) = k - 1
      /\ \A i \in 1..(k - 1) : front[i] = held[i]
  <2>1. PICK m \in Int : m = k - 1 /\ m >= 0 /\ \A i \in 1..m : held[i] \in T
    BY <1>1
  <2>2. SubSeq(held, 1, m) \in Seq(T)
    BY <2>1, SubSeqProperties
  <2>3. /\ Len(SubSeq(held, 1, m)) = IF 1 <= m THEN m - 1 + 1 ELSE 0
        /\ \A i \in 1..(m - 1 + 1) : SubSeq(held, 1, m)[i] = held[1 + i - 1]
    BY <1>1, <2>1, SubSeqProperties
  <2>4. QED
    BY <1>2, <2>1, <2>2, <2>3
<1>6. /\ back \in Seq(T) /\ Len(back) = n + 1 - k
      /\ \A i \in 1..(n + 1 - k) : back[i] = held[k + i - 1]
  <2>1. k \in Int /\ n \in Int /\ \A i \in k..n : held[i] \in T
    BY <1>1
  <2>2. SubSeq(held, k, n) \in Seq(T)
    BY <2>1, SubSeqProperties
  <2>3. /\ Len(SubSeq(held, k, n)) = IF k <= n THEN n - k + 1 ELSE 0
        /\ \A i \in 1..(n - k + 1) : SubSeq(held, k, n)[i] = held[k + i - 1]
    BY <1>1, <2>1, SubSeqProperties
  <2>4. QED
    BY <1>3, <2>1, <2>2, <2>3
<1>7. one \in Seq(T) /\ Len(one) = 1 /\ one[1] = x
  BY <1>4
<1>8. PICK start : start = front \o one
  BY Zenon
<1>9. /\ start \in Seq(T) /\ Len(start) = k
      /\ \A i \in 1..(k - 1) : start[i] = held[i]
      /\ start[k] = x
  <2>1. /\ front \o one \in Seq(T) /\ Len(front \o one) = Len(front) + Len(one)
        /\ \A i \in 1..(Len(front) + Len(one)) :
             (front \o one)[i] = IF i <= Len(front) THEN front[i] ELSE one[i - Len(front)]
    BY <1>5, <1>7, ConcatProperties, Zenon
  <2>2. start \in Seq(T) /\ Len(start) = k - 1 + 1
    BY <1>5, <1>7, <1>8, <2>1
  <2>3. \A i \in 1..(k - 1 + 1) : start[i] = IF i <= k - 1 THEN front[i] ELSE one[i - (k - 1)]
    BY <1>5, <1>7, <1>8, <2>1
  <2>4. \A i \in 1..(k - 1) : start[i] = front[i]
    BY <2>3
  <2>5. start[k] = one[1]
    <3>1. k \in 1..(k - 1 + 1) /\ ~(k <= k - 1) /\ k - (k - 1) = 1
      OBVIOUS
    <3>2. QED
      BY <2>3, <3>1
  <2>6. QED
    BY <1>5, <1>7, <2>2, <2>4, <2>5
<1>10. PICK out : out = start \o back
  BY Zenon
<1>11. out \in Seq(T) /\ Len(out) = k + (n + 1 - k)
  BY <1>6, <1>9, <1>10, ConcatProperties, Zenon
<1>12. \A i \in 1..k : out[i] = start[i]
  BY <1>6, <1>9, <1>10, <1>11, ConcatProperties
<1>13. \A i \in (k + 1)..(n + 1) : out[i] = back[i - k]
  BY <1>6, <1>9, <1>10, <1>11, ConcatProperties
<1>14. \A i \in k..n : out[i + 1] = held[i]
  BY <1>6, <1>13
<1>15. out[k] = x /\ \A i \in 1..(k - 1) : out[i] = held[i]
  BY <1>9, <1>12
<1>16. Range(out) = {out[i] : i \in 1..(n + 1)}
  <2>1. Len(out) = n + 1
    BY <1>11
  <2>2. QED
    BY <1>11, <2>1, ElementsOf
<1>17. Range(out) = Range(held) \cup {x}
  <2>1. \A i \in 1..(n + 1) : out[i] \in Range(held) \cup {x}
    <3>1. ASSUME NEW i \in 1..(n + 1)
          PROVE  out[i] \in Range(held) \cup {x}
      <4>1. CASE i < k
        BY <1>1, <1>15, <4>1
      <4>2. CASE i = k
        BY <1>15, <4>2
      <4>3. CASE i > k
        <5>1. PICK j \in k..n : j + 1 = i /\ j \in 1..n
          BY <4>3
        <5>2. QED
          BY <1>1, <1>14, <5>1
      <4>4. QED
        BY <4>1, <4>2, <4>3
    <3>2. QED
      BY <3>1
  <2>2. \A i \in 1..n : held[i] \in Range(out)
    <3>1. ASSUME NEW i \in 1..n
          PROVE  held[i] \in Range(out)
      <4>1. i < k \/ i \in k..n
        OBVIOUS
      <4>2. i \in 1..(n + 1) /\ i + 1 \in 1..(n + 1)
        OBVIOUS
      <4>3. QED
        BY <1>14, <1>15, <1>16, <4>1, <4>2
    <3>2. QED
      BY <3>1
  <2>3. x \in Range(out)
    BY <1>15, <1>16
  <2>4. QED
    BY <1>1, <1>16, <2>1, <2>2, <2>3
<1>18. InsertAt(held, k, x) = out
  BY <1>2, <1>3, <1>4, <1>8, <1>10 DEF InsertAt
<1>19. QED
  BY <1>11, <1>14, <1>15, <1>17, <1>18 DEF Inserted

TotalOrder(R, T) ==
  /\ \A x \in T : <<x, x>> \notin R
  /\ \A x, y, z \in T : <<x, y>> \in R /\ <<y, z>> \in R => <<x, z>> \in R
  /\ \A x, y \in T : x = y \/ <<x, y>> \in R \/ <<y, x>> \in R

InOrder(R, s) == \A i, j \in DOMAIN s : i < j => <<s[j], s[i]>> \notin R

\* Where there is one that a number is not below, the numbers below it are an
\* interval.
LEMMA StartOf ==
  ASSUME NEW n \in Nat, NEW B \in SUBSET (1..n), \A i \in B : \A j \in 1..n : j < i => j \in B
  PROVE  Cardinality(B) \in 0..n /\ B = 1..Cardinality(B)
<1>1. PICK out : out = {i \in 1..(n + 1) : i \notin B}
  BY Zenon
<1>2. out \in SUBSET Nat /\ n + 1 \in out
  BY <1>1
<1>3. PICK t \in out : \A m \in out : t <= m
  BY <1>2, OnlyFold!LeastNatural
<1>4. t \in 1..(n + 1) /\ t \notin B
  BY <1>1
<1>5. B = 1..(t - 1)
  <2>1. ASSUME NEW i \in 1..(t - 1)
        PROVE  i \in B
    <3>1. i \in 1..(n + 1) /\ ~(t <= i)
      BY <1>4
    <3>2. QED
      BY <1>1, <1>3, <3>1
  <2>2. ASSUME NEW i \in B
        PROVE  i \in 1..(t - 1)
    <3>1. i \in 1..n /\ i # t
      BY <1>4
    <3>2. CASE t < i
      <4>1. t \in 1..n
        BY <1>4, <3>1, <3>2
      <4>2. QED
        BY <1>4, <3>2, <4>1
    <3>3. CASE ~(t < i)
      BY <1>4, <3>1, <3>3
    <3>4. QED
      BY <3>2, <3>3
  <2>3. QED
    BY <2>1, <2>2, Zenon
<1>6. PICK m \in 0..n : m = t - 1
  BY <1>4
<1>7. Cardinality(1..m) = m
  BY NumbersUpTo
<1>8. QED
  BY <1>5, <1>6, <1>7

\* In an ordered sequence, x goes behind all that it is not less than, which is
\* between two that it is in order with.
LEMMA InsertKeepsOrder ==
  ASSUME NEW T, NEW R, TotalOrder(R, T), NEW held \in Seq(T), NEW x \in T, InOrder(R, held),
         NEW k, k = 1 + Cardinality({i \in DOMAIN held : <<x, held[i]>> \notin R})
  PROVE  InOrder(R, InsertAt(held, k, x))
<1>1. PICK n \in Nat : n = Len(held) /\ DOMAIN held = 1..n /\ \A i \in 1..n : held[i] \in T
  BY ElementsOf
<1>2. PICK B : B = {i \in 1..n : <<x, held[i]>> \notin R}
  BY Zenon
<1>3. ASSUME NEW i \in B, NEW j \in 1..n, j < i
      PROVE  j \in B
  <2>1. i \in 1..n /\ <<x, held[i]>> \notin R
    BY <1>2
  <2>2. <<held[i], held[j]>> \notin R
    BY <1>1, <1>3, <2>1, Zenon DEF InOrder
  <2>3. PICK a \in T, b \in T : a = held[i] /\ b = held[j]
    BY <1>1, <2>1
  <2>4. a = b \/ <<b, a>> \in R
    BY <2>2, <2>3 DEF TotalOrder
  <2>5. <<x, b>> \notin R
    BY <2>1, <2>3, <2>4 DEF TotalOrder
  <2>6. QED
    BY <1>2, <2>3, <2>5
<1>4. Cardinality(B) \in 0..n /\ B = 1..Cardinality(B)
  BY <1>2, <1>3, StartOf, Zenon
<1>5. k \in 1..(n + 1) /\ B = 1..(k - 1)
  <2>1. PICK m \in 0..n : m = Cardinality(B) /\ B = 1..m
    BY <1>4
  <2>2. k = 1 + m
    BY <1>1, <1>2, <2>1
  <2>3. k - 1 = m /\ k \in 1..(n + 1)
    BY <2>2
  <2>4. QED
    BY <2>1, <2>3
<1>6. PICK out : out = InsertAt(held, k, x)
  BY Zenon
<1>7. /\ out \in Seq(T) /\ Len(out) = n + 1 /\ out[k] = x
      /\ \A i \in 1..(k - 1) : out[i] = held[i]
      /\ \A i \in k..n : out[i + 1] = held[i]
  <2>1. Inserted(T, held, n, k, x, InsertAt(held, k, x))
    BY <1>1, <1>5, InsertedAt
  <2>2. QED
    BY <1>6, <2>1, Zenon DEF Inserted
<1>8. DOMAIN out = 1..(n + 1)
  BY <1>7, ElementsOf
<1>9. \A i \in 1..(k - 1) : <<x, out[i]>> \notin R
  BY <1>2, <1>5, <1>7, Zenon
<1>10. \A i \in k..n : <<held[i], x>> \notin R
  <2>1. ASSUME NEW i \in k..n
        PROVE  <<held[i], x>> \notin R
    <3>1. i \in 1..n /\ i \notin B
      BY <1>5
    <3>2. PICK a \in T : a = held[i]
      BY <1>1, <3>1
    <3>3. <<x, a>> \in R
      BY <1>2, <3>1, <3>2
    <3>4. <<a, x>> \notin R
      BY <3>3, Zenon DEF TotalOrder
    <3>5. QED
      BY <3>2, <3>4
  <2>2. QED
    BY <2>1
<1>11. ASSUME NEW i \in 1..(n + 1), NEW j \in 1..(n + 1), i < j
       PROVE  <<out[j], out[i]>> \notin R
  <2>1. CASE j < k
    <3>1. i \in 1..(k - 1) /\ j \in 1..(k - 1) /\ i \in 1..n /\ j \in 1..n
      BY <1>5, <1>11, <2>1
    <3>2. QED
      BY <1>1, <1>7, <1>11, <3>1, Zenon DEF InOrder
  <2>2. CASE j = k
    <3>1. i \in 1..(k - 1)
      BY <1>11, <2>2
    <3>2. QED
      BY <1>7, <1>9, <2>2, <3>1, Zenon
  <2>3. CASE j > k
    <3>1. PICK m \in k..n : m + 1 = j /\ m \in 1..n
      <4>1. j - 1 \in k..n /\ j - 1 + 1 = j /\ j - 1 \in 1..n
        BY <1>5, <2>3
      <4>2. QED
        BY <4>1, Zenon
    <3>2. out[j] = held[m]
      BY <1>7, <3>1, Zenon
    <3>3. CASE i < k
      <4>1. i \in 1..(k - 1) /\ i \in 1..n /\ i < m
        BY <1>5, <3>1, <3>3
      <4>2. QED
        BY <1>1, <1>7, <3>1, <3>2, <4>1, Zenon DEF InOrder
    <3>4. CASE i = k
      BY <1>7, <1>10, <3>1, <3>2, <3>4, Zenon
    <3>5. CASE i > k
      <4>1. PICK l \in k..n : l + 1 = i /\ l \in 1..n
        <5>1. i - 1 \in k..n /\ i - 1 + 1 = i /\ i - 1 \in 1..n
          BY <1>5, <1>11, <3>5
        <5>2. QED
          BY <5>1, Zenon
      <4>2. l < m /\ out[i] = held[l]
        <5>1. out[l + 1] = held[l]
          BY <1>7, <4>1, Zenon
        <5>2. l + 1 < m + 1 /\ l \in Nat /\ m \in Nat
          BY <1>5, <1>11, <3>1, <4>1
        <5>3. QED
          BY <4>1, <5>1, <5>2
      <4>3. QED
        BY <1>1, <3>1, <3>2, <4>1, <4>2, Zenon DEF InOrder
    <3>6. QED
      BY <3>3, <3>4, <3>5
  <2>4. QED
    BY <1>5, <2>1, <2>2, <2>3
<1>12. InOrder(R, out)
  BY <1>8, <1>11 DEF InOrder
<1>13. QED
  BY <1>6, <1>12

NoRepeats(s) == \A i, j \in DOMAIN s : s[i] = s[j] => i = j

\* The elements up to the k-th of a list, in some order.
Rearranged(T, list, k, out) ==
  out \in Seq(T) /\ Len(out) = k /\ Range(out) = {list[i] : i \in 1..k}

\* No element is more often in a list rearranged than in the list.
LEMMA StillNoRepeats ==
  ASSUME NEW T, NEW list \in Seq(T), NEW n \in Nat, n = Len(list), NoRepeats(list),
         NEW out, Rearranged(T, list, n, out)
  PROVE  NoRepeats(out) /\ Range(out) = Range(list)
<1>1. DOMAIN list = 1..n /\ Range(list) = {list[i] : i \in 1..n}
  BY ElementsOf
<1>2. out \in Seq(T) /\ Len(out) = n /\ Range(out) = Range(list)
  BY <1>1 DEF Rearranged
<1>3. DOMAIN out = 1..n /\ Range(out) = {out[i] : i \in 1..n}
  BY <1>2, ElementsOf
<1>4. list = [i \in 1..n |-> list[i]] /\ out = [i \in 1..n |-> out[i]]
  BY <1>2, SameSequence
<1>5. Cardinality(Range(list)) = n
  BY <1>1, <1>4, AllDifferent, Zenon DEF NoRepeats
<1>6. PICK U : U = Range(out)
  OBVIOUS
<1>7. out \in Surjection(1..n, U)
  BY <1>3, <1>4, <1>6, Zenon DEF Surjection
<1>8. IsFiniteSet(1..n) /\ Cardinality(1..n) = Cardinality(U)
  BY <1>2, <1>5, <1>6, NumbersUpTo
<1>9. out \in Injection(1..n, U)
  BY <1>7, <1>8, FS_SurjSameCardinalityImpliesInj
<1>10. QED
  BY <1>2, <1>3, <1>9 DEF NoRepeats, Injection, IsInjective

\* In order, and without repetition, there is one sequence of some elements.
LEMMA OneOrder ==
  ASSUME NEW T, NEW R, TotalOrder(R, T), NEW s \in Seq(T), NEW t \in Seq(T),
         InOrder(R, s), InOrder(R, t), NoRepeats(s), NoRepeats(t), Range(s) = Range(t)
  PROVE  s = t
<1>1. PICK n \in Nat : /\ n = Len(s) /\ DOMAIN s = 1..n /\ Range(s) = {s[i] : i \in 1..n}
                       /\ \A i \in 1..n : s[i] \in T
  BY ElementsOf
<1>2. PICK m \in Nat : m = Len(t) /\ DOMAIN t = 1..m /\ Range(t) = {t[i] : i \in 1..m}
  BY ElementsOf
<1>3. s = [i \in 1..n |-> s[i]] /\ t = [i \in 1..m |-> t[i]]
  BY <1>1, <1>2, SameSequence
<1>4. n = m
  <2>1. Cardinality(Range(s)) = n
    <3>1. \A i, j \in 1..n : s[i] = s[j] => i = j
      BY <1>1 DEF NoRepeats
    <3>2. DOMAIN s = 1..n /\ s = [i \in 1..n |-> s[i]]
      BY <1>1, <1>3
    <3>3. QED
      BY <3>1, <3>2, AllDifferent, Zenon
  <2>2. Cardinality(Range(t)) = m
    <3>1. \A i, j \in 1..m : t[i] = t[j] => i = j
      BY <1>2 DEF NoRepeats
    <3>2. DOMAIN t = 1..m /\ t = [i \in 1..m |-> t[i]]
      BY <1>2, <1>3
    <3>3. QED
      BY <3>1, <3>2, AllDifferent, Zenon
  <2>3. QED
    BY <2>1, <2>2
<1>5. \A i, j \in 1..n : i < j => <<s[j], s[i]>> \notin R
  BY <1>1, Zenon DEF InOrder
<1>6. \A i, j \in 1..n : i < j => <<t[j], t[i]>> \notin R
  BY <1>2, <1>4, Zenon DEF InOrder
<1>7. \A i, j \in 1..n : (s[i] = s[j] => i = j) /\ (t[i] = t[j] => i = j)
  BY <1>1, <1>2, <1>4 DEF NoRepeats
<1>8. SUFFICES ASSUME NEW w \in 1..n, s[w] # t[w]
               PROVE  FALSE
  BY <1>3, <1>4
<1>9. PICK D : D = {i \in 1..n : s[i] # t[i]}
  BY Zenon
<1>10. D \in SUBSET Nat /\ D # {}
  BY <1>8, <1>9
<1>11. PICK k \in D : \A i \in D : k <= i
  BY <1>10, OnlyFold!LeastNatural, Zenon
<1>12. k \in 1..n /\ s[k] # t[k]
  BY <1>9
<1>13. \A i \in 1..(k - 1) : s[i] = t[i]
  <2>1. ASSUME NEW i \in 1..(k - 1)
        PROVE  s[i] = t[i]
    <3>1. i \in 1..n /\ ~(k <= i)
      BY <1>12
    <3>2. QED
      BY <1>9, <1>11, <3>1
  <2>2. QED
    BY <2>1
<1>14. PICK a \in 1..n : s[k] = t[a]
  BY <1>1, <1>2, <1>4, <1>12, Zenon
<1>15. PICK b \in 1..n : t[k] = s[b]
  BY <1>1, <1>2, <1>4, <1>12, Zenon
<1>16. k < a
  <2>1. a # k
    BY <1>12, <1>14
  <2>2. ~(a < k)
    <3>1. SUFFICES ASSUME a < k
                   PROVE  FALSE
      OBVIOUS
    <3>2. a \in 1..(k - 1)
      BY <1>12, <3>1
    <3>3. s[a] = s[k]
      BY <1>13, <1>14, <3>2
    <3>4. QED
      BY <1>7, <1>12, <2>1, <3>3
  <2>3. QED
    BY <1>12, <2>1, <2>2
<1>17. k < b
  <2>1. b # k
    BY <1>12, <1>15
  <2>2. ~(b < k)
    <3>1. SUFFICES ASSUME b < k
                   PROVE  FALSE
      OBVIOUS
    <3>2. b \in 1..(k - 1)
      BY <1>12, <3>1
    <3>3. t[b] = t[k]
      BY <1>13, <1>15, <3>2
    <3>4. QED
      BY <1>7, <1>12, <2>1, <3>3
  <2>3. QED
    BY <1>12, <2>1, <2>2
<1>18. <<s[b], s[k]>> \notin R /\ <<t[a], t[k]>> \notin R
  BY <1>5, <1>6, <1>12, <1>16, <1>17
<1>19. PICK x \in T, y \in T : x = s[k] /\ y = s[b]
  BY <1>1, <1>12
<1>20. <<y, x>> \notin R /\ <<x, y>> \notin R /\ x # y
  BY <1>12, <1>14, <1>15, <1>18, <1>19
<1>21. QED
  BY <1>20 DEF TotalOrder

LEMMA InsertIs ==
  ASSUME NEW T, NEW held \in Seq(T), NEW x \in T, NEW B \in SUBSET (DOMAIN held)
  PROVE  Inserted(T, held, Len(held), 1 + Cardinality(B), x, InsertAt(held, 1 + Cardinality(B), x))
<1>1. PICK n \in Nat : n = Len(held) /\ DOMAIN held = 1..n
  BY ElementsOf
<1>2. IsFiniteSet(1..n) /\ Cardinality(1..n) = n
  BY NumbersUpTo
<1>3. IsFiniteSet(B) /\ Cardinality(B) <= n
  BY <1>1, <1>2, FS_Subset
<1>4. PICK m \in Nat : m = Cardinality(B) /\ m <= n
  BY <1>3, FS_CardinalityType
<1>5. PICK k \in 1..(n + 1) : k = 1 + m
  BY <1>4
<1>6. Inserted(T, held, n, k, x, InsertAt(held, k, x))
  BY <1>1, InsertedAt
<1>7. QED
  BY <1>1, <1>4, <1>5, <1>6

\* What is true of a sort when the first k elements are sorted.
SortInv(about, k, sorted) ==
  /\ Rearranged(about.type, about.list, k, sorted)
  /\ TotalOrder(about.order, about.type) => InOrder(about.order, sorted)

LEMMA SortBegins ==
  ASSUME NEW about
  PROVE  SortInv(about, 0, <<>>)
<1>1. PICK nothing : nothing = <<>>
  OBVIOUS
<1>2. nothing \in Seq(about.type) /\ Len(nothing) = 0 /\ DOMAIN nothing = {}
  BY <1>1
<1>3. Range(nothing) = {about.list[i] : i \in 1..0}
  BY <1>2 DEF Range
<1>4. SortInv(about, 0, nothing)
  BY <1>2, <1>3 DEF SortInv, Rearranged, InOrder
<1>5. QED
  BY <1>1, <1>4

LEMMA SortGoesOn ==
  ASSUME NEW T, NEW R, NEW list, NEW about, about = [type |-> T, order |-> R, list |-> list],
         NEW k \in Nat \ {0}, NEW held, SortInv(about, k - 1, held), NEW x \in T, x = list[k],
         NEW B, B = {i \in DOMAIN held : <<x, held[i]>> \notin R}
  PROVE  SortInv(about, k, InsertAt(held, 1 + Cardinality(B), x))
<1>1. about.type = T /\ about.order = R /\ about.list = list
  OBVIOUS
<1>2. held \in Seq(T) /\ Len(held) = k - 1 /\ Range(held) = {list[i] : i \in 1..(k - 1)}
  BY <1>1 DEF SortInv, Rearranged
<1>3. PICK out : out = InsertAt(held, 1 + Cardinality(B), x)
  BY Zenon
<1>4. B \in SUBSET (DOMAIN held)
  OBVIOUS
<1>5. Inserted(T, held, Len(held), 1 + Cardinality(B), x, out)
  BY <1>2, <1>3, <1>4, InsertIs, Zenon
<1>6. out \in Seq(T) /\ Len(out) = k - 1 + 1 /\ Range(out) = Range(held) \cup {x}
  BY <1>2, <1>5 DEF Inserted
<1>7. {list[i] : i \in 1..k} = {list[i] : i \in 1..(k - 1)} \cup {x}
  <2>1. \A i \in 1..k : i \in 1..(k - 1) \/ i = k
    OBVIOUS
  <2>2. k \in 1..k /\ 1..(k - 1) \subseteq 1..k
    OBVIOUS
  <2>3. QED
    BY <2>1, <2>2
<1>8. Rearranged(T, list, k, out)
  BY <1>2, <1>6, <1>7 DEF Rearranged
<1>9. ASSUME TotalOrder(R, T)
      PROVE  InOrder(R, out)
  <2>1. InOrder(R, held)
    BY <1>1, <1>9 DEF SortInv
  <2>2. QED
    BY <1>2, <1>3, <1>9, <2>1, InsertKeepsOrder
<1>10. QED
  BY <1>1, <1>3, <1>8, <1>9 DEF SortInv

----------------------------------------------------------------------------
(***************************************************************************)
(* Libraries in their order, and by name.                                  *)
(***************************************************************************)

\* The sort of libraries, as a fold.
LibraryStep(none, nothing, sorted, l) == Insert(sorted, l, LibraryBefore)
LibraryFold == INSTANCE FoldTheorems WITH Step <- LibraryStep, Inv <- SortInv

LEMMA LibrariesSorted ==
  ASSUME NEW T, NEW R, NEW list \in Seq(T),
         \A a, b \in T : LibraryBefore(a, b) <=> <<a, b>> \in R
  PROVE  SortInv([type |-> T, order |-> R, list |-> list], Len(list), SortLibraries(list))
<1>1. /\ Len(list) \in Nat /\ DOMAIN list = 1..Len(list)
      /\ \A i \in 1..Len(list) : list[i] \in T
  BY ElementsOf
<1>2. PICK about : about = [type |-> T, order |-> R, list |-> list]
  BY Zenon
<1>3. SortInv(about, 0, <<>>)
  BY SortBegins
<1>4. ASSUME NEW k \in 1..Len(list), NEW held, SortInv(about, k - 1, held)
      PROVE  SortInv(about, k, LibraryStep(0, 0, held, list[k]))
  <2>1. PICK x \in T : x = list[k]
    BY <1>1
  <2>2. \A i \in DOMAIN held : held[i] \in T
    BY <1>2, <1>4, ElementsOf DEF SortInv, Rearranged
  <2>3. PICK B : B = {i \in DOMAIN held : <<x, held[i]>> \notin R}
    BY Zenon
  <2>4. B = {i \in DOMAIN held : ~LibraryBefore(x, held[i])}
    BY <2>2, <2>3
  <2>5. LibraryStep(0, 0, held, x) = InsertAt(held, 1 + Cardinality(B), x)
    BY <2>4 DEF LibraryStep, Insert
  <2>6. SortInv(about, k, InsertAt(held, 1 + Cardinality(B), x))
    <3>1. k \in Nat \ {0}
      BY <1>1
    <3>2. QED
      BY <1>2, <1>4, <2>1, <2>3, <3>1, SortGoesOn, Zenon
  <2>7. QED
    BY <2>1, <2>5, <2>6
<1>5. SortInv(about, Len(list), LibraryFold!Result(0, 0, <<>>, list))
  BY <1>1, <1>3, <1>4, LibraryFold!FoldKeeps
<1>6. SortLibraries(list) = LibraryFold!Result(0, 0, <<>>, list)
  BY DEF SortLibraries, SortBy, LibraryStep, LibraryFold!Result, FoldLeft,
         MapThenFoldSet, LibraryFold!MapThenFoldSet, Max, LibraryFold!Highest
<1>7. QED
  BY <1>2, <1>5, <1>6

\* Libraries, by name and then by identifier.
LibraryOrder == {p \in Refs \X Refs : LibraryBefore(p[1], p[2])}

LEMMA TextsAreOrdered ==
  /\ \A a \in Texts : ~TextBefore(a, a)
  /\ \A a, b, c \in Texts : TextBefore(a, b) /\ TextBefore(b, c) => TextBefore(a, c)
  /\ \A a, b \in Texts : a = b \/ TextBefore(a, b) \/ TextBefore(b, a)
<1>1. /\ \A v \in Words : Rank[v] \in Nat
      /\ \A v, w \in Words : Rank[v] = Rank[w] => v = w
  BY RankAssumption
<1>2. \A a \in Texts : a.word \in Words /\ a.spaced \in BOOLEAN /\ a.upper \in BOOLEAN
  BY DEF Texts
<1>3. \A a \in Texts : ~TextBefore(a, a)
  BY <1>1, <1>2 DEF TextBefore
<1>4. \A a, b, c \in Texts : TextBefore(a, b) /\ TextBefore(b, c) => TextBefore(a, c)
  <2> SUFFICES ASSUME NEW a \in Texts, NEW b \in Texts, NEW c \in Texts,
                      TextBefore(a, b), TextBefore(b, c)
               PROVE  TextBefore(a, c)
    OBVIOUS
  <2>1. Rank[a.word] \in Nat /\ Rank[b.word] \in Nat /\ Rank[c.word] \in Nat
    BY <1>1, <1>2
  <2>2. QED
    BY <1>2, <2>1 DEF TextBefore
<1>5. \A a, b \in Texts : a = b \/ TextBefore(a, b) \/ TextBefore(b, a)
  <2> SUFFICES ASSUME NEW a \in Texts, NEW b \in Texts, ~TextBefore(a, b), ~TextBefore(b, a)
               PROVE  a = b
    OBVIOUS
  <2>1. a.spaced = b.spaced /\ a.upper = b.upper
    BY <1>2 DEF TextBefore
  <2>2. Rank[a.word] \in Nat /\ Rank[b.word] \in Nat
    BY <1>1, <1>2
  <2>3. a.word = b.word
    BY <1>1, <1>2, <2>1, <2>2 DEF TextBefore
  <2>4. QED
    BY <2>1, <2>3 DEF Texts
<1>6. QED
  BY <1>3, <1>4, <1>5

LEMMA LibrariesAreOrdered ==
  /\ TotalOrder(LibraryOrder, Refs)
  /\ \A k, l \in Refs : LibraryBefore(k, l) <=> <<k, l>> \in LibraryOrder
<1>1. \A k, l \in Refs : LibraryBefore(k, l) <=> <<k, l>> \in LibraryOrder
  BY DEF LibraryOrder
<1>2. \A k \in Refs : k.id \in Texts /\ k.name \in Texts
  BY DEF Refs
<1>3. \A k \in Refs : ~LibraryBefore(k, k)
  BY <1>2, TextsAreOrdered DEF LibraryBefore
<1>4. \A j, k, l \in Refs : LibraryBefore(j, k) /\ LibraryBefore(k, l) => LibraryBefore(j, l)
  <2> SUFFICES ASSUME NEW j \in Refs, NEW k \in Refs, NEW l \in Refs,
                      LibraryBefore(j, k), LibraryBefore(k, l)
               PROVE  LibraryBefore(j, l)
    OBVIOUS
  <2>1. CASE j.name = k.name /\ k.name = l.name
    BY <1>2, <2>1, TextsAreOrdered DEF LibraryBefore
  <2>2. CASE j.name = k.name /\ k.name # l.name
    BY <2>2 DEF LibraryBefore
  <2>3. CASE j.name # k.name /\ k.name = l.name
    BY <2>3 DEF LibraryBefore
  <2>4. CASE j.name # k.name /\ k.name # l.name
    <3>1. TextBefore(j.name, k.name) /\ TextBefore(k.name, l.name)
      BY <2>4 DEF LibraryBefore
    <3>2. TextBefore(j.name, l.name) /\ j.name # l.name
      BY <1>2, <3>1, TextsAreOrdered
    <3>3. QED
      BY <3>2 DEF LibraryBefore
  <2>5. QED
    BY <2>1, <2>2, <2>3, <2>4
<1>5. \A k, l \in Refs : k = l \/ LibraryBefore(k, l) \/ LibraryBefore(l, k)
  <2> SUFFICES ASSUME NEW k \in Refs, NEW l \in Refs, ~LibraryBefore(k, l), ~LibraryBefore(l, k)
               PROVE  k = l
    OBVIOUS
  <2>1. k.name = l.name
    BY <1>2, TextsAreOrdered DEF LibraryBefore
  <2>2. k.id = l.id
    BY <1>2, <2>1, TextsAreOrdered DEF LibraryBefore
  <2>3. QED
    BY <2>1, <2>2 DEF Refs
<1>6. QED
  BY <1>1, <1>3, <1>4, <1>5 DEF TotalOrder

\* Sorting makes up no library and loses none.
LEMMA SortIs ==
  ASSUME NEW T, NEW list \in Seq(T)
  PROVE  SortLibraries(list) \in Seq(T) /\ Range(SortLibraries(list)) = Range(list)
<1>1. PICK R : R = {p \in T \X T : LibraryBefore(p[1], p[2])}
  BY Zenon
<1>2. \A a, b \in T : LibraryBefore(a, b) <=> <<a, b>> \in R
  BY <1>1
<1>3. PICK n \in Nat : n = Len(list) /\ Range(list) = {list[i] : i \in 1..n}
  BY ElementsOf
<1>4. SortInv([type |-> T, order |-> R, list |-> list], n, SortLibraries(list))
  BY <1>2, <1>3, LibrariesSorted
<1>5. QED
  BY <1>3, <1>4 DEF SortInv, Rearranged

\* Libraries are sorted by name.
LEMMA SortedByName ==
  ASSUME NEW list \in Seq(Refs)
  PROVE  InOrder(LibraryOrder, SortLibraries(list))
<1>1. SortInv([type |-> Refs, order |-> LibraryOrder, list |-> list], Len(list),
              SortLibraries(list))
  BY LibrariesAreOrdered, LibrariesSorted
<1>2. QED
  BY <1>1, LibrariesAreOrdered DEF SortInv

\* A library that has a name at all has it folded.
HasName(l, key) == ~IsBlank(l.name) /\ Folded(l.name) = key

\* An index by name has libraries under their own names.
Indexed(T, index) ==
  \A key \in DOMAIN index : index[key] \in T /\ HasName(index[key], key)

\* The first k of a list are in the index, each name with the first that has it.
FirstOfName(list, k, index) ==
  /\ index = [key \in DOMAIN index |-> index[key]]
  /\ \A i \in 1..k : ~IsBlank(list[i].name) => Folded(list[i].name) \in DOMAIN index
  /\ \A key \in DOMAIN index : \E i \in 1..k :
       /\ index[key] = list[i] /\ HasName(list[i], key)
       /\ \A j \in 1..(i - 1) : ~HasName(list[j], key)

IndexStep(none, nothing, index, l) ==
  IF IsBlank(l.name) THEN index ELSE Alias(index, Folded(l.name), l)
IndexFold == INSTANCE FoldTheorems WITH Step <- IndexStep, Inv <- FirstOfName

LEMMA IndexGoesOn ==
  ASSUME NEW list, NEW k \in Nat \ {0}, NEW index, FirstOfName(list, k - 1, index), NEW l,
         l = list[k]
  PROVE  FirstOfName(list, k, IndexStep(0, 0, index, l))
<1>1. /\ index = [key \in DOMAIN index |-> index[key]]
      /\ \A i \in 1..(k - 1) : ~IsBlank(list[i].name) => Folded(list[i].name) \in DOMAIN index
      /\ \A key \in DOMAIN index : \E i \in 1..(k - 1) :
           /\ index[key] = list[i] /\ HasName(list[i], key)
           /\ \A j \in 1..(i - 1) : ~HasName(list[j], key)
  BY DEF FirstOfName
<1>2. PICK name : name = Folded(l.name)
  OBVIOUS
<1>3. PICK more : more = IndexStep(0, 0, index, l)
  OBVIOUS
<1>4. 1..(k - 1) \subseteq 1..k /\ k \in 1..k /\ \A i \in 1..k : i \in 1..(k - 1) \/ i = k
  OBVIOUS
<1>5. CASE IsBlank(l.name) \/ name \in DOMAIN index
  <2>1. more = index
    BY <1>2, <1>3, <1>5 DEF IndexStep, Alias
  <2>2. \A i \in 1..k : ~IsBlank(list[i].name) => Folded(list[i].name) \in DOMAIN index
    BY <1>1, <1>2, <1>4, <1>5
  <2>3. \A key \in DOMAIN index : \E i \in 1..k :
          /\ index[key] = list[i] /\ HasName(list[i], key)
          /\ \A j \in 1..(i - 1) : ~HasName(list[j], key)
    BY <1>1, <1>4
  <2>4. FirstOfName(list, k, index)
    BY <1>1, <2>2, <2>3 DEF FirstOfName
  <2>5. QED
    BY <1>3, <2>1, <2>4
<1>6. CASE ~(IsBlank(l.name) \/ name \in DOMAIN index)
  <2>1. more = [key \in DOMAIN index \cup {name} |-> IF key = name THEN l ELSE index[key]]
    BY <1>2, <1>3, <1>6 DEF IndexStep, Alias, Assign
  <2>2. more = [key \in DOMAIN more |-> more[key]] /\ DOMAIN more = DOMAIN index \cup {name}
    BY <2>1
  <2>3. \A i \in 1..k : ~IsBlank(list[i].name) => Folded(list[i].name) \in DOMAIN more
    BY <1>1, <1>2, <1>4, <2>2
  <2>4. ASSUME NEW key \in DOMAIN more
        PROVE  \E i \in 1..k :
                 /\ more[key] = list[i] /\ HasName(list[i], key)
                 /\ \A j \in 1..(i - 1) : ~HasName(list[j], key)
    <3>1. CASE key = name
      <4>1. more[key] = list[k] /\ HasName(list[k], key)
        BY <1>2, <1>6, <2>1, <2>4, <3>1 DEF HasName
      <4>2. \A j \in 1..(k - 1) : ~HasName(list[j], key)
        BY <1>1, <1>6, <3>1 DEF HasName
      <4>3. QED
        BY <1>4, <4>1, <4>2
    <3>2. CASE key # name
      <4>1. key \in DOMAIN index /\ more[key] = index[key]
        BY <2>1, <2>2, <2>4, <3>2
      <4>2. QED
        BY <1>1, <1>4, <4>1
    <3>3. QED
      BY <3>1, <3>2
  <2>5. FirstOfName(list, k, more)
    BY <2>2, <2>3, <2>4 DEF FirstOfName
  <2>6. QED
    BY <1>3, <2>5
<1>7. QED
  BY <1>5, <1>6

LEMMA ByNameIsFirst ==
  ASSUME NEW T, NEW available \in Seq(T)
  PROVE  FirstOfName(SortLibraries(available), Len(SortLibraries(available)), ByName(available))
<1>1. PICK list \in Seq(T) : list = SortLibraries(available)
  BY SortIs
<1>2. Len(list) \in Nat /\ DOMAIN list = 1..Len(list)
  BY ElementsOf
<1>3. FirstOfName(list, 0, <<>>)
  <2>1. PICK nothing : nothing = <<>>
    OBVIOUS
  <2>2. DOMAIN nothing = {} /\ nothing \in Seq({})
    BY <2>1
  <2>3. nothing = [key \in DOMAIN nothing |-> nothing[key]]
    BY <2>1
  <2>4. FirstOfName(list, 0, nothing)
    BY <2>2, <2>3 DEF FirstOfName
  <2>5. QED
    BY <2>1, <2>4
<1>4. ASSUME NEW k \in 1..Len(list), NEW index, FirstOfName(list, k - 1, index)
      PROVE  FirstOfName(list, k, IndexStep(0, 0, index, list[k]))
  <2>1. k \in Nat \ {0}
    BY <1>2
  <2>2. PICK l : l = list[k]
    OBVIOUS
  <2>3. FirstOfName(list, k, IndexStep(0, 0, index, l))
    BY <1>4, <2>1, <2>2, IndexGoesOn
  <2>4. QED
    BY <2>2, <2>3
<1>5. FirstOfName(list, Len(list), IndexFold!Result(0, 0, <<>>, list))
  BY <1>2, <1>3, <1>4, IndexFold!FoldKeeps
<1>6. ByName(available) = IndexFold!Result(0, 0, <<>>, SortLibraries(available))
  BY DEF ByName, IndexStep, IndexFold!Result, FoldLeft, MapThenFoldSet,
         IndexFold!MapThenFoldSet, Max, IndexFold!Highest
<1>7. QED
  BY <1>1, <1>5, <1>6

LEMMA ByNameIs ==
  ASSUME NEW T, NEW available \in Seq(T)
  PROVE  Indexed(T, ByName(available))
<1>1. PICK list \in Seq(T) : list = SortLibraries(available)
  BY SortIs
<1>2. Len(list) \in Nat /\ \A i \in 1..Len(list) : list[i] \in T
  BY ElementsOf
<1>3. FirstOfName(list, Len(list), ByName(available))
  BY <1>1, ByNameIsFirst
<1>4. QED
  BY <1>2, <1>3 DEF FirstOfName, Indexed

\* Of the libraries of one name, the index has the least.
LEMMA ByNameIsLeast ==
  ASSUME NEW available \in Seq(Refs), NEW index, index = ByName(available)
  PROVE  /\ index = [key \in DOMAIN index |-> index[key]]
         /\ \A key : key \in DOMAIN index <=> \E l \in Range(available) : HasName(l, key)
         /\ \A key \in DOMAIN index :
              /\ index[key] \in Range(available) /\ HasName(index[key], key)
              /\ \A l \in Range(available) : HasName(l, key) => <<l, index[key]>> \notin LibraryOrder
<1>1. PICK list \in Seq(Refs) : list = SortLibraries(available)
  BY SortIs
<1>2. PICK n \in Nat : /\ n = Len(list) /\ DOMAIN list = 1..n /\ Range(list) = {list[i] : i \in 1..n}
                       /\ \A i \in 1..n : list[i] \in Refs
  BY ElementsOf
<1>3. Range(list) = Range(available)
  BY <1>1, SortIs
<1>4. \A i, j \in 1..n : i < j => <<list[j], list[i]>> \notin LibraryOrder
  <2>1. InOrder(LibraryOrder, list)
    BY <1>1, SortedByName
  <2>2. QED
    BY <1>2, <2>1, Zenon DEF InOrder
<1>5. /\ index = [key \in DOMAIN index |-> index[key]]
      /\ \A i \in 1..n : ~IsBlank(list[i].name) => Folded(list[i].name) \in DOMAIN index
      /\ \A key \in DOMAIN index : \E i \in 1..n :
           /\ index[key] = list[i] /\ HasName(list[i], key)
           /\ \A j \in 1..(i - 1) : ~HasName(list[j], key)
  <2>1. FirstOfName(list, n, index)
    BY <1>1, <1>2, ByNameIsFirst
  <2>2. QED
    BY <2>1 DEF FirstOfName
<1>6. \A key : key \in DOMAIN index <=> \E l \in Range(available) : HasName(l, key)
  BY <1>2, <1>3, <1>5 DEF HasName
<1>7. ASSUME NEW key \in DOMAIN index
      PROVE  /\ index[key] \in Range(available) /\ HasName(index[key], key)
             /\ \A l \in Range(available) : HasName(l, key) => <<l, index[key]>> \notin LibraryOrder
  <2>1. PICK i \in 1..n : /\ index[key] = list[i] /\ HasName(list[i], key)
                          /\ \A j \in 1..(i - 1) : ~HasName(list[j], key)
    BY <1>5
  <2>2. ASSUME NEW l \in Range(available), HasName(l, key)
        PROVE  <<l, list[i]>> \notin LibraryOrder
    <3>1. PICK j \in 1..n : l = list[j]
      BY <1>2, <1>3
    <3>2. ~(j < i)
      <4>1. j \notin 1..(i - 1)
        BY <2>1, <2>2, <3>1
      <4>2. QED
        BY <4>1
    <3>3. CASE j = i
      BY <1>2, <3>1, <3>3, LibrariesAreOrdered DEF TotalOrder
    <3>4. CASE i < j
      BY <1>4, <3>1, <3>4
    <3>5. QED
      BY <3>2, <3>3, <3>4
  <2>3. QED
    BY <1>2, <1>3, <2>1, <2>2
<1>8. QED
  BY <1>5, <1>6, <1>7

\* So the order in which they are listed is lost.
LEMMA ByNameIgnoresOrder ==
  ASSUME NEW available \in Seq(Refs), NEW other \in Seq(Refs), Range(available) = Range(other)
  PROVE  ByName(available) = ByName(other)
<1>1. PICK f : f = ByName(available)
  OBVIOUS
<1>2. PICK g : g = ByName(other)
  OBVIOUS
<1>3. PICK S : S = Range(available) /\ S = Range(other)
  OBVIOUS
<1>4. S \subseteq Refs
  BY <1>3, ElementsOf
<1>5. /\ f = [key \in DOMAIN f |-> f[key]]
      /\ \A key : key \in DOMAIN f <=> \E l \in S : HasName(l, key)
      /\ \A key \in DOMAIN f :
           /\ f[key] \in S /\ HasName(f[key], key)
           /\ \A l \in S : HasName(l, key) => <<l, f[key]>> \notin LibraryOrder
  BY <1>1, <1>3, ByNameIsLeast
<1>6. /\ g = [key \in DOMAIN g |-> g[key]]
      /\ \A key : key \in DOMAIN g <=> \E l \in S : HasName(l, key)
      /\ \A key \in DOMAIN g :
           /\ g[key] \in S /\ HasName(g[key], key)
           /\ \A l \in S : HasName(l, key) => <<l, g[key]>> \notin LibraryOrder
  BY <1>2, <1>3, ByNameIsLeast
<1>7. DOMAIN f = DOMAIN g
  BY <1>5, <1>6
<1>8. ASSUME NEW key \in DOMAIN f
      PROVE  f[key] = g[key]
  <2>1. PICK a \in Refs, b \in Refs : a = f[key] /\ b = g[key]
    BY <1>4, <1>5, <1>6, <1>7
  <2>2. <<a, b>> \notin LibraryOrder /\ <<b, a>> \notin LibraryOrder
    BY <1>5, <1>6, <1>7, <2>1
  <2>3. a = b
    BY <2>2, LibrariesAreOrdered DEF TotalOrder
  <2>4. QED
    BY <2>1, <2>3
<1>9. f = g
  BY <1>5, <1>6, <1>7, <1>8
<1>10. QED
  BY <1>1, <1>2, <1>9

----------------------------------------------------------------------------
(***************************************************************************)
(* The libraries that a list of names becomes.                             *)
(***************************************************************************)

\* Every name of a list becomes a library of that name, or is left over; the
\* rest of the list stays as it is.
Replaced(service, refs, available, found) ==
  /\ found.refs \in Seq(Refs)
  /\ found.unmatched \in Seq(Refs)
  /\ \A r \in Range(found.refs) :
       ~IsPendingName(service, r) /\ (r \in Range(refs) \/ r \in Range(available))
  /\ \A ref \in Range(refs) : IsPendingName(service, ref) =>
       \/ ref \in Range(found.unmatched)
       \/ \E r \in Range(found.refs) : r \in Range(available) /\ Folded(r.name) = Folded(ref.id)

LEMMA NamesAreReplaced ==
  ASSUME NEW service, NEW refs \in Seq(Refs), NEW available \in Seq(Refs)
  PROVE  Replaced(service, refs, available, ResolveLibraryNames(service, refs, available))
<1>1. PICK index : index = ByName(available)
  OBVIOUS
<1>2. PICK T : T = Range(available)
  OBVIOUS
<1>3. Indexed(T, index)
  BY <1>1, <1>2, OwnRange, ByNameIs
<1>4. PICK none : none = {ref \in Range(refs) :
                            IsPendingName(service, ref) /\ Folded(ref.id) \notin DOMAIN index}
  BY Zenon
<1>5. PICK rest : rest = Range(refs) \ none
  BY Zenon
<1>6. PICK matched : matched = Only(refs, rest)
  OBVIOUS
<1>7. PICK unmatched : unmatched = Only(refs, none)
  OBVIOUS
<1>8. Range(refs) \subseteq Refs /\ T \subseteq Refs
  BY <1>2, ElementsOf
<1>9. matched \in Seq(Refs \cap rest) /\ Range(matched) = rest
  <2>1. Range(matched) = Range(refs) \cap rest
    BY <1>6, OnlyIs, Zenon
  <2>2. QED
    BY <1>5, <1>6, <2>1, OnlyIs, Zenon
<1>10. unmatched \in Seq(Refs) /\ Range(unmatched) = none
  <2>1. unmatched \in Seq(Refs \cap none) /\ Range(unmatched) = Range(refs) \cap none
    BY <1>7, OnlyIs
  <2>2. QED
    BY <1>4, <2>1
<1>11. PICK n \in Nat : /\ n = Len(matched) /\ DOMAIN matched = 1..n
                        /\ Range(matched) = {matched[i] : i \in 1..n}
  BY <1>9, ElementsOf
<1>12. PICK out : out = [i \in 1..n |-> IF IsPendingName(service, matched[i])
                                          THEN index[Folded(matched[i].id)] ELSE matched[i]]
  BY Zenon
<1>13. ASSUME NEW i \in 1..n
       PROVE  /\ matched[i] \in Range(refs)
              /\ IsPendingName(service, matched[i]) => Folded(matched[i].id) \in DOMAIN index
  BY <1>4, <1>5, <1>9, <1>11
<1>14. ASSUME NEW i \in 1..n
       PROVE  /\ out[i] \in Refs /\ ~IsPendingName(service, out[i])
              /\ out[i] \in Range(refs) \/ out[i] \in T
              /\ IsPendingName(service, matched[i]) =>
                   out[i] \in T /\ Folded(out[i].name) = Folded(matched[i].id)
  <2>1. CASE IsPendingName(service, matched[i])
    <3>a. PICK key \in DOMAIN index : key = Folded(matched[i].id)
      BY <1>13, <2>1
    <3>1. PICK l : l = index[key]
      OBVIOUS
    <3>2. l \in T /\ ~IsBlank(l.name) /\ Folded(l.name) = Folded(matched[i].id)
      BY <1>3, <3>a, <3>1 DEF Indexed, HasName
    <3>3. IsBlank(Empty)
      BY PlainFacts, TextsAssumption DEF IsBlank, Empty
    <3>4. l.name # Empty
      BY <3>2, <3>3
    <3>5. ~IsPendingName(service, l)
      BY <3>4 DEF IsPendingName
    <3>6. out[i] = l
      BY <1>12, <2>1, <3>a, <3>1
    <3>7. QED
      BY <1>8, <3>2, <3>5, <3>6
  <2>2. CASE ~IsPendingName(service, matched[i])
    <3>1. out[i] = matched[i]
      BY <1>12, <2>2
    <3>2. QED
      BY <1>8, <1>13, <2>2, <3>1
  <2>3. QED
    BY <2>1, <2>2
<1>15. out \in [1..n -> Refs]
  <2>1. DOMAIN out = 1..n /\ out = [i \in 1..n |-> out[i]]
    BY <1>12
  <2>2. QED
    BY <1>14, <2>1
<1>16. out \in Seq(Refs) /\ Range(out) = {out[i] : i \in 1..n}
  BY <1>15, Mapped
<1>17. PICK found : found = ResolveLibraryNames(service, refs, available)
  OBVIOUS
<1>18. found = [refs |-> out, unmatched |-> unmatched]
  BY <1>1, <1>4, <1>5, <1>6, <1>7, <1>11, <1>12, <1>17, Zenon DEF ResolveLibraryNames
<1>19. found.refs = out /\ found.unmatched = unmatched
  BY <1>18
<1>20. ASSUME NEW r \in Range(out)
       PROVE  ~IsPendingName(service, r) /\ (r \in Range(refs) \/ r \in Range(available))
  BY <1>2, <1>14, <1>16
<1>21. ASSUME NEW ref \in Range(refs), IsPendingName(service, ref)
       PROVE  \/ ref \in Range(unmatched)
              \/ \E r \in Range(out) : r \in Range(available) /\ Folded(r.name) = Folded(ref.id)
  <2>1. CASE ref \in none
    BY <1>10, <2>1
  <2>2. CASE ref \notin none
    <3>1. PICK i \in 1..n : matched[i] = ref
      BY <1>5, <1>9, <1>11, <2>2
    <3>2. out[i] \in T /\ Folded(out[i].name) = Folded(ref.id)
      BY <1>14, <1>21, <3>1
    <3>3. QED
      BY <1>2, <1>16, <3>2
  <2>3. QED
    BY <2>1, <2>2
<1>22. Replaced(service, refs, available, found)
  BY <1>10, <1>16, <1>19, <1>20, <1>21 DEF Replaced
<1>23. QED
  BY <1>17, <1>22

\* What the names of a service are found to be.
FoundFor(cfg, service, world) ==
  ResolveLibraryNames(service, Libraries(cfg, service), MovieLibraries(world[service]))

PendingNames == [service : {"jellyfin", "plex"}, name : Texts]

\* What is resolved has all the sources there were, all the libraries that were
\* found, and what was not found is still a name.
Resolved(cfg, A, T, held, world, more) ==
  /\ more = [order |-> more.order, pending |-> more.pending, resolve |-> {}]
  /\ SourceList(GoodSources(cfg, A, T), more.order)
  /\ more.pending \in Seq(PendingNames)
  /\ IDs(held.order) \subseteq IDs(more.order)
  /\ \A s \in {"jellyfin", "plex"} :
       /\ Configured(cfg, s) => \A ref \in Range(FoundFor(cfg, s, world).refs) :
            LibraryScopedID(s, ref) \in IDs(more.order)
       /\ \A ref \in Range(FoundFor(cfg, s, world).unmatched) :
            Pending(s, ref.id) \in Range(more.pending)

LEMMA PendingForIs ==
  ASSUME NEW service \in {"jellyfin", "plex"}, NEW refs \in Seq(Refs)
  PROVE  /\ PendingFor(service, refs) \in Seq(PendingNames)
         /\ \A ref \in Range(refs) : Pending(service, ref.id) \in Range(PendingFor(service, refs))
<1>1. PICK n \in Nat : /\ n = Len(refs) /\ DOMAIN refs = 1..n
                       /\ Range(refs) = {refs[i] : i \in 1..n} /\ \A i \in 1..n : refs[i] \in Refs
  BY ElementsOf
<1>2. PICK out : out = [i \in 1..n |-> Pending(service, refs[i].id)]
  BY Zenon
<1>3. \A i \in 1..n : Pending(service, refs[i].id) \in PendingNames
  BY <1>1 DEF Refs, Pending, PendingNames
<1>4. out \in [1..n -> PendingNames]
  BY <1>2, <1>3
<1>5. out \in Seq(PendingNames) /\ Range(out) = {out[i] : i \in 1..n}
  BY <1>4, Mapped, Zenon
<1>6. \A ref \in Range(refs) : Pending(service, ref.id) \in Range(out)
  BY <1>1, <1>2, <1>5
<1>7. PendingFor(service, refs) = out
  BY <1>1, <1>2 DEF PendingFor
<1>8. QED
  BY <1>5, <1>6, <1>7

LEMMA ResolvePendingIs ==
  ASSUME NEW cfg, NEW A, NEW T, NEW held, NEW world,
         SourceList(GoodSources(cfg, A, T), held.order),
         \A s \in {"jellyfin", "plex"} :
           /\ Libraries(cfg, s) \in Seq(Refs) /\ world[s].libs \in Seq(ListedLibraries)
           /\ Usable(A, s, FoundFor(cfg, s, world).refs)
  PROVE  Resolved(cfg, A, T, held, world, ResolvePendingLibraries(cfg, held, world))
<1>1. PICK G : G = GoodSources(cfg, A, T)
  OBVIOUS
<1>2. PICK found : found = [s \in Range(Services) |-> FoundFor(cfg, s, world)]
  BY Zenon
<1>3. \A s \in {"jellyfin", "plex"} : found[s] = FoundFor(cfg, s, world)
  BY <1>2, ServicesAre
<1>4. ASSUME NEW s \in {"jellyfin", "plex"}
      PROVE  /\ Replaced(s, Libraries(cfg, s), MovieLibraries(world[s]), found[s])
             /\ found[s].refs \in Seq(Refs) /\ found[s].unmatched \in Seq(Refs)
  <2>1. PICK server : server = world[s] /\ server.libs \in Seq(ListedLibraries)
    OBVIOUS
  <2>2. MovieLibraries(server) \in Seq(Refs)
    BY <2>1, MovieLibrariesAre
  <2>3. PICK movies \in Seq(Refs) : movies = MovieLibraries(world[s])
    BY <2>1, <2>2
  <2>4. PICK own \in Seq(Refs) : own = Libraries(cfg, s)
    OBVIOUS
  <2>5. Replaced(s, own, movies, ResolveLibraryNames(s, own, movies))
    BY NamesAreReplaced
  <2>6. Replaced(s, Libraries(cfg, s), MovieLibraries(world[s]), found[s])
    BY <1>3, <2>3, <2>4, <2>5 DEF FoundFor
  <2>7. QED
    BY <2>6 DEF Replaced
<1>5. PICK refs : refs = [s \in Range(Services) |-> found[s].refs]
  BY Zenon
<1>6. \A s \in {"jellyfin", "plex"} : refs[s] = found[s].refs
  BY <1>5, ServicesAre
<1>7. ASSUME NEW s \in {"jellyfin", "plex"}
      PROVE  refs[s] \in Seq(Refs) /\ Admits(G, {}, cfg, s, LibraryRefsOrAll(refs[s]))
  <2>1. PICK list \in Seq(Refs) : list = refs[s]
    BY <1>4, <1>6
  <2>2. Usable(A, s, list)
    BY <1>3, <1>6, <2>1
  <2>3. \A ref \in Range(list) : ~IsPendingName(s, ref)
    BY <1>4, <1>6, <2>1 DEF Replaced
  <2>4. ASSUME NEW ref \in Range(LibraryRefsOrAll(list))
        PROVE  ~IsPendingName(s, ref) /\ Client(cfg, s, ref) \in G
    <3>1. ~IsPendingName(s, ref)
      BY <2>3, AllOfIt
    <3>2. PICK a \in A : a = <<s, ref>>
      BY <2>2, <3>1, Zenon DEF Usable
    <3>3. a[1] = s /\ a[2] = ref
      BY <3>2
    <3>4. Client(cfg, s, ref) \in G
      BY <1>1, <3>3 DEF GoodSources
    <3>5. QED
      BY <3>1, <3>4
  <2>5. QED
    BY <2>1, <2>4 DEF Admits
<1>8. PICK local : local = AddLocalSources(cfg, refs)
  OBVIOUS
<1>9. PICK none : none = {}
  BY Zenon
<1>10. \A s \in {"jellyfin", "plex"} :
         refs[s] \in Seq(Refs) /\ (Configured(cfg, s) => Admits(G, none, cfg, s, LibraryRefsOrAll(refs[s])))
  BY <1>7, <1>9
<1>11. /\ SetOf(G, none, local)
       /\ \A s \in {"jellyfin", "plex"} : Configured(cfg, s) =>
            \A ref \in Range(LibraryRefsOrAll(refs[s])) : Has(local, s, ref)
  BY <1>8, <1>10, LocalSourcesAre, Zenon
<1>12. PICK base : base = local.order
  OBVIOUS
<1>13. SourceList(G, base)
  BY <1>11, <1>12 DEF SetOf
<1>14. PICK old : old = held.order
  OBVIOUS
<1>15. old \in Seq(G)
  BY <1>1, <1>14 DEF SourceList
<1>16. PICK order : order = FoldLeft(Add, base, old)
  OBVIOUS
<1>17. SourceList(G, order) /\ IDs(order) = IDs(base) \cup IDs(old)
  BY <1>13, <1>15, <1>16, AddAll
<1>18. PICK lists : lists = [i \in DOMAIN Services |-> PendingFor(Services[i], found[Services[i]].unmatched)]
  BY Zenon
<1>19. PICK U : U = Seq(PendingNames)
  OBVIOUS
<1>20. ASSUME NEW i \in 1..2
       PROVE  /\ lists[i] \in U
              /\ \A ref \in Range(found[Services[i]].unmatched) :
                   Pending(Services[i], ref.id) \in Range(lists[i])
  <2>1. PICK s \in {"jellyfin", "plex"} : s = Services[i]
    BY TwoServices
  <2>2. PICK left \in Seq(Refs) : left = found[s].unmatched
    BY <1>4
  <2>3. lists[i] = PendingFor(s, left)
    BY <1>18, <2>1, <2>2, TwoServices
  <2>4. QED
    BY <1>19, <2>1, <2>2, <2>3, PendingForIs, Zenon
<1>21. DOMAIN lists = 1..2
  BY <1>18, TwoServices
<1>22. lists \in [1..2 -> U]
  <2>1. lists = [i \in 1..2 |-> lists[i]]
    BY <1>18, <1>21
  <2>2. QED
    BY <1>20, <2>1
<1>23. 2 \in Nat /\ lists \in Seq(U) /\ Len(lists) = 2
  BY <1>22, Mapped, Zenon
<1>24. PICK pending : pending = FlattenSeq(lists)
  OBVIOUS
<1>25. pending \in Seq(PendingNames) /\ Range(pending) = UNION {Range(lists[i]) : i \in 1..2}
  BY <1>19, <1>23, <1>24, Flattened, Zenon
<1>26. PICK more : more = ResolvePendingLibraries(cfg, held, world)
  OBVIOUS
<1>27. more = [order |-> order, pending |-> pending, resolve |-> {}]
  BY <1>2, <1>5, <1>8, <1>12, <1>14, <1>16, <1>18, <1>24, <1>26 DEF ResolvePendingLibraries, FoundFor
<1>28. more.order = order /\ more.pending = pending
  BY <1>27
<1>29. IDs(held.order) \subseteq IDs(more.order)
  BY <1>14, <1>17, <1>28
<1>30. ASSUME NEW s \in {"jellyfin", "plex"}, Configured(cfg, s),
              NEW ref \in Range(FoundFor(cfg, s, world).refs)
       PROVE  LibraryScopedID(s, ref) \in IDs(more.order)
  <2>1. PICK list \in Seq(Refs) : list = refs[s] /\ ref \in Range(list)
    BY <1>3, <1>4, <1>6, <1>30
  <2>2. list # <<>>
    <3>1. PICK i \in DOMAIN list : TRUE
      BY <2>1 DEF Range
    <3>2. PICK nothing : nothing = <<>>
      OBVIOUS
    <3>3. DOMAIN nothing = {}
      BY <3>2
    <3>4. QED
      BY <3>1, <3>2, <3>3
  <2>3. LibraryRefsOrAll(list) = list
    BY <2>2 DEF LibraryRefsOrAll
  <2>4. ~IsPendingName(s, ref)
    BY <1>4, <1>6, <2>1 DEF Replaced
  <2>5. Has(local, s, ref)
    BY <1>11, <1>30, <2>1, <2>3
  <2>6. LibraryScopedID(s, ref) \in IDs(base)
    BY <1>12, <2>4, <2>5 DEF Has
  <2>7. QED
    BY <1>17, <1>28, <2>6
<1>31. ASSUME NEW s \in {"jellyfin", "plex"}, NEW ref \in Range(FoundFor(cfg, s, world).unmatched)
       PROVE  Pending(s, ref.id) \in Range(more.pending)
  <2>1. PICK i \in 1..2 : Services[i] = s
    BY TwoServices
  <2>2. Pending(s, ref.id) \in Range(lists[i])
    BY <1>3, <1>20, <1>31, <2>1
  <2>3. QED
    BY <1>25, <1>28, <2>2
<1>32. Resolved(cfg, A, T, held, world, more)
  BY <1>1, <1>17, <1>25, <1>27, <1>28, <1>29, <1>30, <1>31 DEF Resolved
<1>33. QED
  BY <1>26, <1>32

----------------------------------------------------------------------------
(***************************************************************************)
(* What holds of the set of a process throughout.                          *)
(***************************************************************************)

\* The set is one that cfg calls for, perhaps with names in it that are to be
\* resolved with a configuration of the same sources.
GoodSet(A, cfg, held) ==
  /\ held = [order |-> held.order, pending |-> held.pending, resolve |-> held.resolve]
  /\ \E T : SourceList(GoodSources(cfg, A, T), held.order)
  /\ held.pending \in Seq(PendingNames)
  /\ held.resolve # {} => held.pending # <<>>
  /\ \A c \in held.resolve : ~SourcesDiffer(c, cfg) /\ held.pending \in Seq(NamesOf(c))

\* Sources are made from what SourcesDiffer compares.
LEMMA SameClients ==
  ASSUME NEW a, NEW b, ~SourcesDiffer(a, b)
  PROVE  /\ \A s \in {"jellyfin", "plex"} : Libraries(a, s) = Libraries(b, s)
         /\ a.val["streaming.providers"] = b.val["streaming.providers"]
         /\ \A s \in {"jellyfin", "plex"} : \A ref : Client(a, s, ref) = Client(b, s, ref)
         /\ \A p : NewTMDBSource(a, p) = NewTMDBSource(b, p)
<1>1. \A k \in (Keys \ Toggles) \ HarmlessKeys : a.val[k] = b.val[k]
  BY DEF SourcesDiffer
<1>2. {"jellyfin.url", "jellyfin.apiKey", "jellyfin.userId", "jellyfin.libraries", "plex.url",
       "plex.token", "plex.libraries", "streaming.tmdbReadToken", "streaming.providers"}
        \subseteq (Keys \ Toggles) \ HarmlessKeys
  BY DEF Keys, Toggles, Scalars, Secrets, Lists, LibraryLists, HarmlessKeys
<1>3. /\ a.val["jellyfin.url"] = b.val["jellyfin.url"]
      /\ a.val["jellyfin.apiKey"] = b.val["jellyfin.apiKey"]
      /\ a.val["jellyfin.userId"] = b.val["jellyfin.userId"]
      /\ a.val["jellyfin.libraries"] = b.val["jellyfin.libraries"]
      /\ a.val["plex.url"] = b.val["plex.url"]
      /\ a.val["plex.token"] = b.val["plex.token"]
      /\ a.val["plex.libraries"] = b.val["plex.libraries"]
      /\ a.val["streaming.tmdbReadToken"] = b.val["streaming.tmdbReadToken"]
      /\ a.val["streaming.providers"] = b.val["streaming.providers"]
  BY <1>1, <1>2
<1>4. \A s \in {"jellyfin", "plex"} : Libraries(a, s) = Libraries(b, s)
  BY <1>3 DEF Libraries, LibrariesKey
<1>5. \A s \in {"jellyfin", "plex"} : \A ref : Client(a, s, ref) = Client(b, s, ref)
  BY <1>3 DEF Client
<1>6. \A p : NewTMDBSource(a, p) = NewTMDBSource(b, p)
  BY <1>3 DEF NewTMDBSource
<1>7. QED
  BY <1>3, <1>4, <1>5, <1>6

LEMMA SameGoodSources ==
  ASSUME NEW a, NEW b, ~SourcesDiffer(a, b), NEW A \in SUBSET ({"jellyfin", "plex"} \X Refs), NEW T
  PROVE  GoodSources(a, A, T) = GoodSources(b, A, T)
<1>1. \A x \in A : Client(a, x[1], x[2]) = Client(b, x[1], x[2])
  <2>1. \A x \in A : x[1] \in {"jellyfin", "plex"}
    OBVIOUS
  <2>2. QED
    BY <2>1, SameClients
<1>2. \A p \in T : NewTMDBSource(a, p) = NewTMDBSource(b, p)
  BY SameClients
<1>3. QED
  BY <1>1, <1>2 DEF GoodSources

LEMMA NamesArePending ==
  ASSUME NEW cfg
  PROVE  NamesOf(cfg) \subseteq PendingNames
BY DEF NamesOf, PendingNames

LEMMA BuiltIsGood ==
  ASSUME NEW cfg, NEW A, NEW T, NEW held, Built(cfg, A, T, held)
  PROVE  GoodSet(A, cfg, held)
<1>1. PICK names : names = IF held.pending = <<>> THEN {} ELSE {cfg}
  BY Zenon
<1>2. PICK o, p : held = [order |-> o, pending |-> p, resolve |-> names]
  <2>1. held = [order |-> held.order, pending |-> held.pending, resolve |-> names]
    BY <1>1 DEF Built
  <2>2. QED
    BY <2>1
<1>3. held.order = o /\ held.pending = p /\ held.resolve = names
  BY <1>2
<1>4. held = [order |-> held.order, pending |-> held.pending, resolve |-> held.resolve]
  BY <1>2, <1>3
<1>5. SourceList(GoodSources(cfg, A, T), held.order) /\ held.pending \in Seq(NamesOf(cfg))
  BY DEF Built
<1>6. held.pending \in Seq(PendingNames)
  BY <1>5, NamesArePending
<1>7. ~SourcesDiffer(cfg, cfg)
  BY DEF SourcesDiffer
<1>8. \A c \in names : c = cfg /\ held.pending # <<>>
  BY <1>1
<1>9. held.resolve # {} => held.pending # <<>>
  BY <1>3, <1>8
<1>10. \A c \in held.resolve : ~SourcesDiffer(c, cfg) /\ held.pending \in Seq(NamesOf(c))
  BY <1>3, <1>5, <1>7, <1>8
<1>11. QED
  BY <1>4, <1>5, <1>6, <1>9, <1>10 DEF GoodSet

\* What changes no source leaves a good set good.
LEMMA GoodForBoth ==
  ASSUME NEW a, NEW b, ~SourcesDiffer(a, b), NEW A \in SUBSET ({"jellyfin", "plex"} \X Refs),
         NEW held, GoodSet(A, a, held)
  PROVE  GoodSet(A, b, held)
<1>1. PICK T : SourceList(GoodSources(a, A, T), held.order)
  BY DEF GoodSet
<1>2. SourceList(GoodSources(b, A, T), held.order)
  BY <1>1, SameGoodSources
<1>3. \A c : ~SourcesDiffer(c, a) => ~SourcesDiffer(c, b)
  BY DEF SourcesDiffer
<1>4. QED
  BY <1>2, <1>3 DEF GoodSet

LEMMA CurrentIsGood ==
  ASSUME NEW cfg, NEW A \in SUBSET ({"jellyfin", "plex"} \X Refs), NEW held, GoodSet(A, cfg, held),
         NEW world,
         \A s \in {"jellyfin", "plex"} :
           /\ Libraries(cfg, s) \in Seq(Refs) /\ world[s].libs \in Seq(ListedLibraries)
           /\ Usable(A, s, FoundFor(cfg, s, world).refs)
  PROVE  /\ GoodSet(A, cfg, CurrentSources(held, world))
         /\ \/ CurrentSources(held, world) = held
            \/ \E c \in held.resolve : \E T :
                 Resolved(c, A, T, held, world, CurrentSources(held, world))
<1>1. CASE ~\E c \in held.resolve : AllReachable(c, world)
  <2>1. CurrentSources(held, world) = held
    BY <1>1 DEF CurrentSources
  <2>2. QED
    BY <2>1
<1>2. CASE \E c \in held.resolve : AllReachable(c, world)
  <2>1. PICK c \in held.resolve : c = CHOOSE x \in held.resolve : TRUE
    BY <1>2
  <2>2. PICK more : more = ResolvePendingLibraries(c, held, world)
    OBVIOUS
  <2>3. CurrentSources(held, world) = more
    BY <1>2, <2>1, <2>2 DEF CurrentSources
  <2>4. ~SourcesDiffer(c, cfg)
    BY DEF GoodSet
  <2>5. PICK T : SourceList(GoodSources(cfg, A, T), held.order)
    BY DEF GoodSet
  <2>6. GoodSources(c, A, T) = GoodSources(cfg, A, T)
    BY <2>4, SameGoodSources
  <2>7. ASSUME NEW s \in {"jellyfin", "plex"}
        PROVE  Libraries(c, s) = Libraries(cfg, s) /\ FoundFor(c, s, world) = FoundFor(cfg, s, world)
    <3>1. Libraries(c, s) = Libraries(cfg, s)
      BY <2>4, SameClients
    <3>2. QED
      BY <3>1 DEF FoundFor
  <2>8. SourceList(GoodSources(c, A, T), held.order)
    BY <2>5, <2>6
  <2>9. \A s \in {"jellyfin", "plex"} :
           /\ Libraries(c, s) \in Seq(Refs) /\ world[s].libs \in Seq(ListedLibraries)
           /\ Usable(A, s, FoundFor(c, s, world).refs)
    BY <2>7
  <2>10. Resolved(c, A, T, held, world, more)
    BY <2>2, <2>8, <2>9, ResolvePendingIs
  <2>11. PICK o, p : more = [order |-> o, pending |-> p, resolve |-> {}]
    <3>1. more = [order |-> more.order, pending |-> more.pending, resolve |-> {}]
      BY <2>10 DEF Resolved
    <3>2. QED
      BY <3>1
  <2>12. more = [order |-> more.order, pending |-> more.pending, resolve |-> more.resolve]
         /\ more.resolve = {}
    BY <2>11
  <2>13. SourceList(GoodSources(cfg, A, T), more.order) /\ more.pending \in Seq(PendingNames)
    BY <2>6, <2>10 DEF Resolved
  <2>14. GoodSet(A, cfg, more)
    BY <2>12, <2>13 DEF GoodSet
  <2>15. QED
    BY <2>3, <2>10, <2>14
<1>3. QED
  BY <1>1, <1>2

----------------------------------------------------------------------------
(***************************************************************************)
(* The merge.                                                              *)
(***************************************************************************)

AvailStep(none, nothing, b, e) == IF Contains(b, e) THEN b ELSE Append(b, e)
AvailInv(about, k, b) ==
  /\ b \in Seq(about.all)
  /\ Range(b) = Range(about.base) \cup {about.extra[i] : i \in 1..k}
AvailFold == INSTANCE FoldTheorems WITH Step <- AvailStep, Inv <- AvailInv

\* The badges of both copies.
LEMMA AvailabilityIs ==
  ASSUME NEW T, NEW base \in Seq(T), NEW extra \in Seq(T)
  PROVE  /\ AppendAvailability(base, extra) \in Seq(T)
         /\ Range(AppendAvailability(base, extra)) = Range(base) \cup Range(extra)
<1>1. PICK about : about = [all |-> T, base |-> base, extra |-> extra]
  BY Zenon
<1>2. about.all = T /\ about.base = base /\ about.extra = extra
  BY <1>1
<1>3. /\ Len(extra) \in Nat /\ DOMAIN extra = 1..Len(extra)
      /\ Range(extra) = {extra[i] : i \in 1..Len(extra)}
      /\ \A i \in 1..Len(extra) : extra[i] \in T
  BY ElementsOf
<1>4. AvailInv(about, 0, base)
  BY <1>2 DEF AvailInv
<1>5. ASSUME NEW k \in 1..Len(extra), NEW b, AvailInv(about, k - 1, b)
      PROVE  AvailInv(about, k, AvailStep(0, 0, b, extra[k]))
  <2>1. b \in Seq(T) /\ Range(b) = Range(base) \cup {extra[i] : i \in 1..(k - 1)}
    BY <1>2, <1>5 DEF AvailInv
  <2>2. PICK e \in T : e = extra[k]
    BY <1>3
  <2>3. PICK more : more = AvailStep(0, 0, b, e)
    OBVIOUS
  <2>4. more \in Seq(T) /\ Range(more) = Range(b) \cup {e}
    <3>1. CASE Contains(b, e)
      <4>1. more = b
        BY <2>3, <3>1 DEF AvailStep
      <4>2. e \in Range(b)
        BY <2>1, <3>1, ElementsOf DEF Contains
      <4>3. QED
        BY <2>1, <4>1, <4>2
    <3>2. CASE ~Contains(b, e)
      <4>1. more = Append(b, e)
        BY <2>3, <3>2 DEF AvailStep
      <4>2. QED
        BY <2>1, <4>1, RangeOfAppend
    <3>3. QED
      BY <3>1, <3>2
  <2>5. {extra[i] : i \in 1..k} = {extra[i] : i \in 1..(k - 1)} \cup {e}
    BY <1>3, <2>2
  <2>6. Range(more) = Range(base) \cup {extra[i] : i \in 1..k}
    BY <2>1, <2>4, <2>5, Zenon
  <2>7. AvailInv(about, k, more)
    BY <1>2, <2>4, <2>6 DEF AvailInv
  <2>8. QED
    BY <2>2, <2>3, <2>7
<1>6. AvailInv(about, Len(extra), AvailFold!Result(0, 0, base, extra))
  BY <1>3, <1>4, <1>5, AvailFold!FoldKeeps
<1>7. AppendAvailability(base, extra) = AvailFold!Result(0, 0, base, extra)
  BY DEF AppendAvailability, AvailStep, AvailFold!Result, FoldLeft,
         MapThenFoldSet, AvailFold!MapThenFoldSet, Max, AvailFold!Highest
<1>8. AvailInv(about, Len(extra), AppendAvailability(base, extra))
  BY <1>6, <1>7
<1>9. QED
  BY <1>2, <1>3, <1>8 DEF AvailInv

CardType(I, P, B) == [id : I, poster : P, badges : Seq(B)]

\* The badges that the copies of one film have.
BadgesOf(copies, id) == UNION {Range(c.badges) : c \in {c \in copies : c.id = id}}

FilmsOf(copies) == {c.id : c \in copies}

\* One card for every film there is a copy of, with the badges of all of them.
OneCardEach(X, copies, merged) ==
  /\ merged \in Seq(X)
  /\ \A i, j \in 1..Len(merged) : merged[i].id = merged[j].id => i = j
  /\ \A i \in 1..Len(merged) : Range(merged[i].badges) = BadgesOf(copies, merged[i].id)
  /\ IDs(merged) = FilmsOf(copies)

LEMMA MoreBadges ==
  ASSUME NEW copies, NEW m, NEW id
  PROVE  BadgesOf(copies \cup {m}, id) =
           IF m.id = id THEN BadgesOf(copies, id) \cup Range(m.badges) ELSE BadgesOf(copies, id)
<1>1. CASE m.id = id
  <2>1. {c \in copies \cup {m} : c.id = id} = {c \in copies : c.id = id} \cup {m}
    BY <1>1
  <2>2. QED
    BY <1>1, <2>1 DEF BadgesOf
<1>2. CASE m.id # id
  <2>1. {c \in copies \cup {m} : c.id = id} = {c \in copies : c.id = id}
    BY <1>2
  <2>2. QED
    BY <1>2, <2>1 DEF BadgesOf
<1>3. QED
  BY <1>1, <1>2

LEMMA NoBadges ==
  ASSUME NEW copies, NEW id, \A c \in copies : c.id # id
  PROVE  BadgesOf(copies, id) = {}
BY DEF BadgesOf

LEMMA MergeOneIs ==
  ASSUME NEW I, NEW P, NEW B, NEW X, X = CardType(I, P, B), NEW copies, NEW merged,
         OneCardEach(X, copies, merged), NEW m \in X
  PROVE  OneCardEach(X, copies \cup {m}, MergeOne(merged, m))
<1>1. PICK n \in Nat : n = Len(merged)
  BY ElementsOf DEF OneCardEach
<1>2. /\ merged \in Seq(X) /\ DOMAIN merged = 1..n
      /\ \A i \in 1..n : merged[i] \in X
  BY <1>1, ElementsOf DEF OneCardEach
<1>3. /\ \A i, j \in 1..n : merged[i].id = merged[j].id => i = j
      /\ \A i \in 1..n : Range(merged[i].badges) = BadgesOf(copies, merged[i].id)
      /\ IDs(merged) = FilmsOf(copies) /\ IDs(merged) = {merged[i].id : i \in 1..n}
  BY <1>1, <1>2 DEF OneCardEach, IDs
<1>4. PICK more : more = MergeOne(merged, m)
  OBVIOUS
<1>5. FilmsOf(copies \cup {m}) = FilmsOf(copies) \cup {m.id}
  BY DEF FilmsOf
<1>6. CASE \E i \in 1..n : merged[i].id = m.id
  <2>1. more = [i \in 1..n |->
            IF merged[i].id = m.id
              THEN [merged[i] EXCEPT !.badges = AppendAvailability(@, m.badges)] ELSE merged[i]]
    BY <1>2, <1>4, <1>6 DEF MergeOne
  <2>2. ASSUME NEW i \in 1..n
        PROVE  /\ more[i] \in X /\ more[i].id = merged[i].id
               /\ Range(more[i].badges) = BadgesOf(copies \cup {m}, more[i].id)
    <3>1. PICK card \in X : card = merged[i]
      BY <1>2
    <3>2. card.badges \in Seq(B) /\ m.badges \in Seq(B)
      BY DEF CardType
    <3>3. PICK both : both = AppendAvailability(card.badges, m.badges)
      OBVIOUS
    <3>4. both \in Seq(B) /\ Range(both) = Range(card.badges) \cup Range(m.badges)
      BY <3>2, <3>3, AvailabilityIs
    <3>5. more[i] = IF card.id = m.id THEN [card EXCEPT !.badges = both] ELSE card
      BY <2>1, <3>1, <3>3
    <3>6. /\ more[i] \in X /\ more[i].id = card.id
          /\ more[i].badges = IF card.id = m.id THEN both ELSE card.badges
      BY <3>4, <3>5 DEF CardType
    <3>7. Range(card.badges) = BadgesOf(copies, card.id)
      BY <1>3, <3>1
    <3>8. BadgesOf(copies \cup {m}, card.id) =
            IF m.id = card.id THEN BadgesOf(copies, card.id) \cup Range(m.badges)
            ELSE BadgesOf(copies, card.id)
      <4>1. PICK id : id = card.id
        OBVIOUS
      <4>2. BadgesOf(copies \cup {m}, id) =
              IF m.id = id THEN BadgesOf(copies, id) \cup Range(m.badges) ELSE BadgesOf(copies, id)
        BY ONLY MoreBadges
      <4>3. QED
        BY <4>1, <4>2
    <3>9. QED
      BY <3>1, <3>4, <3>6, <3>7, <3>8, Zenon
  <2>3. more \in [1..n -> X]
    BY <2>1, <2>2
  <2>4. more \in Seq(X) /\ Len(more) = n
    BY <2>3, Mapped
  <2>5. IDs(more) = IDs(merged) /\ m.id \in IDs(merged)
    <3>1. IDs(more) = {more[i].id : i \in 1..n}
      BY <2>1 DEF IDs
    <3>2. {more[i].id : i \in 1..n} = {merged[i].id : i \in 1..n}
      BY <2>2
    <3>3. QED
      BY <1>3, <1>6, <3>1, <3>2, Zenon
  <2>6. IDs(more) = FilmsOf(copies \cup {m})
    BY <1>3, <1>5, <2>5, Zenon
  <2>7. \A i, j \in 1..n : more[i].id = more[j].id => i = j
    BY <1>3, <2>2
  <2>8. QED
    BY <1>4, <2>2, <2>4, <2>6, <2>7, Zenon DEF OneCardEach
<1>7. CASE ~\E i \in 1..n : merged[i].id = m.id
  <2>1. more = Append(merged, m)
    BY <1>2, <1>4, <1>7 DEF MergeOne
  <2>2. /\ more \in Seq(X) /\ Len(more) = n + 1
        /\ \A i \in 1..n : more[i] = merged[i]
        /\ more[n + 1] = m
    BY <1>1, <1>2, <2>1, RangeOfAppend
  <2>3. \A i \in 1..(n + 1) : i \in 1..n \/ i = n + 1
    OBVIOUS
  <2>4. \A i, j \in 1..(n + 1) : more[i].id = more[j].id => i = j
    BY <1>3, <1>7, <2>2, <2>3
  <2>5. ASSUME NEW i \in 1..n
        PROVE  Range(more[i].badges) = BadgesOf(copies \cup {m}, more[i].id)
    <3>1. PICK card \in X : card = merged[i]
      BY <1>2
    <3>2. card.id # m.id /\ more[i] = card /\ Range(card.badges) = BadgesOf(copies, card.id)
      BY <1>3, <1>7, <2>2, <3>1
    <3>3. BadgesOf(copies \cup {m}, card.id) = BadgesOf(copies, card.id)
      <4>1. PICK id : id = card.id
        OBVIOUS
      <4>2. BadgesOf(copies \cup {m}, id) =
              IF m.id = id THEN BadgesOf(copies, id) \cup Range(m.badges) ELSE BadgesOf(copies, id)
        BY ONLY MoreBadges
      <4>3. QED
        BY <3>2, <4>1, <4>2
    <3>4. QED
      BY <3>2, <3>3
  <2>6. Range(m.badges) = BadgesOf(copies \cup {m}, m.id)
    <3>1. m.id \notin FilmsOf(copies)
      BY <1>3, <1>7
    <3>2. \A c \in copies : c.id # m.id
      BY <3>1 DEF FilmsOf
    <3>3. BadgesOf(copies, m.id) = {}
      BY <3>2, NoBadges
    <3>4. BadgesOf(copies \cup {m}, m.id) = BadgesOf(copies, m.id) \cup Range(m.badges)
      BY MoreBadges, Zenon
    <3>5. QED
      BY <3>3, <3>4
  <2>7. IDs(more) = IDs(merged) \cup {m.id}
    <3>1. \A i \in 1..n : more[i].id = merged[i].id
      BY <2>2
    <3>2. 1..(n + 1) = (1..n) \cup {n + 1}
      OBVIOUS
    <3>3. IDs(more) = {more[i].id : i \in 1..(n + 1)}
      BY <2>2, ElementsOf DEF IDs
    <3>4. {more[i].id : i \in 1..(n + 1)} = {merged[i].id : i \in 1..n} \cup {m.id}
      BY <2>2, <3>1, <3>2
    <3>5. QED
      BY <1>3, <3>3, <3>4, Zenon
  <2>8. \A i \in 1..(n + 1) : Range(more[i].badges) = BadgesOf(copies \cup {m}, more[i].id)
    BY <2>2, <2>3, <2>5, <2>6, Zenon
  <2>9. IDs(more) = FilmsOf(copies \cup {m})
    BY <1>3, <1>5, <2>7, Zenon
  <2>10. QED
    BY <1>4, <2>2, <2>4, <2>8, <2>9, Zenon DEF OneCardEach
<1>8. QED
  BY <1>6, <1>7

MergeStep(none, nothing, merged, m) == MergeOne(merged, m)
MergeInv(about, k, merged) == OneCardEach(about.kind, {about.all[i] : i \in 1..k}, merged)
MergeFold == INSTANCE FoldTheorems WITH Step <- MergeStep, Inv <- MergeInv

\* Whatever sources give what copies of what films, in whatever order.
LEMMA MergeIs ==
  ASSUME NEW I, NEW P, NEW B, NEW n \in Nat, NEW sets,
         sets \in Seq(Seq(CardType(I, P, B))), Len(sets) = n
  PROVE  OneCardEach(CardType(I, P, B), UNION {Range(sets[i]) : i \in 1..n}, MergeMovies(sets))
<1>1. PICK X : X = CardType(I, P, B)
  OBVIOUS
<1>2. PICK all : all = FlattenSeq(sets)
  OBVIOUS
<1>3. all \in Seq(X) /\ Range(all) = UNION {Range(sets[i]) : i \in 1..n}
  BY <1>1, <1>2, Flattened
<1>4. PICK about : about = [kind |-> X, all |-> all]
  BY Zenon
<1>5. about.kind = X /\ about.all = all
  BY <1>4
<1>6. /\ Len(all) \in Nat /\ Range(all) = {all[i] : i \in 1..Len(all)}
      /\ \A i \in 1..Len(all) : all[i] \in X
  BY <1>3, ElementsOf, Zenon
<1>7. PICK nothing : nothing = <<>>
  OBVIOUS
<1>8. MergeInv(about, 0, nothing)
  <2>1. nothing \in Seq(X) /\ Len(nothing) = 0 /\ DOMAIN nothing = {} /\ 1..0 = {}
    BY <1>7
  <2>2. PICK copies : copies = {all[i] : i \in 1..0}
    OBVIOUS
  <2>3. copies = {}
    BY <2>1, <2>2
  <2>4. IDs(nothing) = FilmsOf(copies)
    BY <2>1, <2>3 DEF IDs, FilmsOf
  <2>5. QED
    BY <1>5, <2>1, <2>2, <2>4 DEF MergeInv, OneCardEach
<1>9. ASSUME NEW k \in 1..Len(all), NEW merged, MergeInv(about, k - 1, merged)
      PROVE  MergeInv(about, k, MergeStep(0, 0, merged, all[k]))
  <2>1. PICK m \in X : m = all[k]
    BY <1>6
  <2>2. PICK copies : copies = {all[i] : i \in 1..(k - 1)}
    BY Zenon
  <2>3. {all[i] : i \in 1..k} = copies \cup {m}
    BY <1>6, <2>1, <2>2
  <2>4. OneCardEach(X, copies, merged)
    BY <1>5, <1>9, <2>2 DEF MergeInv
  <2>5. OneCardEach(X, copies \cup {m}, MergeOne(merged, m))
    BY <1>1, <2>4, MergeOneIs
  <2>6. QED
    BY <1>5, <2>1, <2>3, <2>5, Zenon DEF MergeInv, MergeStep
<1>10. MergeInv(about, Len(all), MergeFold!Result(0, 0, nothing, all))
  BY <1>6, <1>8, <1>9, MergeFold!FoldKeeps
<1>11. MergeMovies(sets) = MergeFold!Result(0, 0, nothing, all)
  BY <1>2, <1>7 DEF MergeMovies, MergeStep, MergeFold!Result, FoldLeft,
                    MapThenFoldSet, MergeFold!MapThenFoldSet, Max, MergeFold!Highest
<1>12. PICK merged : merged = MergeMovies(sets) /\ MergeInv(about, Len(all), merged)
  BY <1>10, <1>11
<1>13. OneCardEach(X, {all[i] : i \in 1..Len(all)}, merged)
  BY <1>5, <1>12 DEF MergeInv
<1>14. QED
  BY <1>1, <1>3, <1>6, <1>12, <1>13, Zenon

----------------------------------------------------------------------------
(***************************************************************************)
(* Problems.                                                               *)
(***************************************************************************)

LEMMA FailureIs ==
  ASSUME NEW status
  PROVE  StatusFailure(status) \in {"unauthorized", "unreachable"}
BY DEF StatusFailure

\* A problem for every source that failed, and no other.
LEMMA ProblemsAre ==
  ASSUME NEW T, NEW srcs \in Seq(T), NEW results, DOMAIN results = DOMAIN srcs
  PROVE  /\ ProblemsOf(srcs, results) \in Seq([source : {src.id : src \in T}, label : {src.name : src \in T},
                                               reason : {"unauthorized", "unreachable"}])
         /\ \A i \in DOMAIN srcs : results[i].status # 200 =>
              SourceProblem(srcs[i], results[i].status) \in Range(ProblemsOf(srcs, results))
<1>1. PICK n \in Nat : n = Len(srcs) /\ DOMAIN srcs = 1..n /\ \A i \in 1..n : srcs[i] \in T
  BY ElementsOf
<1>2. PICK X : X = [source : {src.id : src \in T}, label : {src.name : src \in T},
                    reason : {"unauthorized", "unreachable"}]
  BY Zenon
<1>3. PICK all : all = [i \in 1..n |-> i]
  BY Zenon
<1>4. PICK bad : bad = {i \in 1..n : results[i].status # 200}
  BY Zenon
<1>5. all \in [1..n -> 1..n]
  BY <1>3
<1>6. all \in Seq(1..n) /\ Range(all) = {all[i] : i \in 1..n}
  BY <1>5, Mapped
<1>7. Range(all) = 1..n
  BY <1>3, <1>6, Zenon
<1>8. PICK failed : failed = Only(all, bad)
  OBVIOUS
<1>9. failed \in Seq((1..n) \cap bad) /\ Range(failed) = Range(all) \cap bad
  BY <1>6, <1>8, OnlyIs, Zenon
<1>10. PICK k \in Nat : /\ k = Len(failed) /\ DOMAIN failed = 1..k
                        /\ Range(failed) = {failed[j] : j \in 1..k}
                        /\ \A j \in 1..k : failed[j] \in 1..n
  BY <1>9, ElementsOf
<1>11. PICK out : out = [j \in 1..k |-> SourceProblem(srcs[failed[j]], results[failed[j]].status)]
  BY Zenon
<1>12. ASSUME NEW i \in 1..n
       PROVE  SourceProblem(srcs[i], results[i].status) \in X
  <2>1. PICK src \in T : src = srcs[i]
    BY <1>1
  <2>2. StatusFailure(results[i].status) \in {"unauthorized", "unreachable"}
    BY FailureIs
  <2>3. QED
    BY <1>2, <2>1, <2>2 DEF SourceProblem
<1>13. out \in [1..k -> X]
  BY <1>10, <1>11, <1>12
<1>14. out \in Seq(X) /\ Range(out) = {out[j] : j \in 1..k}
  BY <1>13, Mapped, Zenon
<1>15. ASSUME NEW i \in 1..n, results[i].status # 200
       PROVE  SourceProblem(srcs[i], results[i].status) \in Range(out)
  <2>1. i \in Range(failed)
    BY <1>4, <1>7, <1>9, <1>15
  <2>2. PICK j \in 1..k : failed[j] = i
    BY <1>10, <2>1
  <2>3. out[j] = SourceProblem(srcs[i], results[i].status)
    BY <1>11, <2>2
  <2>4. QED
    BY <1>14, <2>3
<1>16. ProblemsOf(srcs, results) = out
  BY <1>1, <1>3, <1>4, <1>8, <1>10, <1>11, Zenon DEF ProblemsOf
<1>17. QED
  BY <1>1, <1>2, <1>14, <1>15, <1>16

\* A problem for every library that is still a name.
LEMMA PendingProblemsAre ==
  ASSUME NEW pending \in Seq(PendingNames)
  PROVE  /\ Len(PendingProblems(pending)) = Len(pending)
         /\ \E U : PendingProblems(pending) \in Seq(U) /\ \A q \in U : q.reason = "unresolved"
<1>1. PICK n \in Nat : n = Len(pending) /\ DOMAIN pending = 1..n
  BY ElementsOf
<1>2. PICK out : out = [i \in 1..n |->
                          [source |-> <<>>, reason |-> "unresolved",
                           label |-> LibraryScopedName(pending[i].service,
                                       Library(pending[i].name, pending[i].name))]]
  BY Zenon
<1>3. PICK U : U = {out[i] : i \in 1..n}
  BY Zenon
<1>4. out \in [1..n -> U]
  BY <1>2, <1>3
<1>5. out \in Seq(U) /\ Len(out) = n
  BY <1>4, Mapped
<1>6. \A q \in U : q.reason = "unresolved"
  BY <1>2, <1>3
<1>7. PendingProblems(pending) = out
  BY <1>1, <1>2 DEF PendingProblems
<1>8. QED
  BY <1>1, <1>5, <1>6, <1>7

Among(problems, reason) == Cardinality({i \in DOMAIN problems : problems[i].reason = reason})

\* How many of the problems of a preview are names.
LEMMA NamesAreCounted ==
  ASSUME NEW V, NEW s \in Seq(V), NEW U, NEW t \in Seq(U), NEW reason,
         \A q \in V : q.reason # reason, \A q \in U : q.reason = reason
  PROVE  Among(s \o t, reason) = Len(t)
<1>1. PICK X : X = V \cup U
  BY Zenon
<1>2. s \in Seq(X) /\ t \in Seq(X)
  <2>1. V \subseteq X /\ U \subseteq X
    BY <1>1
  <2>2. QED
    BY <2>1, SeqMonotonic
<1>3. PICK m \in Nat, n \in Nat : /\ m = Len(s) /\ n = Len(t)
                                  /\ \A i \in 1..m : s[i] \in V
                                  /\ \A i \in 1..n : t[i] \in U
  BY ElementsOf
<1>4. PICK c : c = s \o t
  BY Zenon
<1>5. /\ c \in Seq(X) /\ Len(c) = m + n
      /\ \A i \in 1..(m + n) : c[i] = IF i <= m THEN s[i] ELSE t[i - m]
  BY <1>2, <1>3, <1>4, ConcatProperties
<1>6. DOMAIN c = 1..(m + n)
  BY <1>5, ElementsOf
<1>7. PICK S : S = {i \in DOMAIN c : c[i].reason = reason}
  BY Zenon
<1>8. ASSUME NEW i \in 1..(m + n)
      PROVE  c[i].reason = reason <=> i \in (m + 1)..(m + n)
  <2>1. CASE i <= m
    <3>1. c[i] = s[i] /\ i \in 1..m
      BY <1>5, <2>1
    <3>2. QED
      BY <1>3, <2>1, <3>1
  <2>2. CASE ~(i <= m)
    <3>1. c[i] = t[i - m] /\ i - m \in 1..n
      BY <1>5, <2>2
    <3>2. c[i].reason = reason
      BY <1>3, <3>1
    <3>3. QED
      BY <2>2, <3>2
  <2>3. QED
    BY <2>1, <2>2
<1>9. S = (m + 1)..(m + n)
  BY <1>6, <1>7, <1>8
<1>10. Cardinality((m + 1)..(m + n)) = n
  <2>1. PICK a \in Int, b \in Int : a = m + 1 /\ b = m + n
    OBVIOUS
  <2>2. Cardinality(a..b) = IF a > b THEN 0 ELSE b - a + 1
    BY FS_Interval
  <2>3. QED
    BY <2>1, <2>2
<1>11. QED
  BY <1>3, <1>4, <1>7, <1>9, <1>10, Zenon DEF Among

----------------------------------------------------------------------------
(***************************************************************************)
(* What a streaming service that has few pages answers.                    *)
(***************************************************************************)

LEMMA DivisionIs ==
  ASSUME NEW a \in Nat, NEW b \in Nat \ {0}
  PROVE  /\ a \div b \in Nat
         /\ b * (a \div b) <= a /\ a < b * (a \div b) + b
OBVIOUS

LEMMA ProductsGrow ==
  ASSUME NEW p \in Nat \ {0}, NEW x \in Nat, NEW y \in Nat
  PROVE  /\ p * (y + 1) = p * y + p
         /\ p * x < p * y + p => x <= y
         /\ x <= y => p * x <= y * p
OBVIOUS

\* The pages hold all the films, and a film is on one of them.
LEMMA PagesAre ==
  ASSUME NEW T, NEW films \in Seq(T)
  PROVE  /\ TotalPages(films) \in Nat
         /\ \A j \in DOMAIN films : ((j - 1) \div PageSize) + 1 \in 1..TotalPages(films)
         /\ \A k \in Nat : TotalPages(films) <= k => Len(films) <= k * PageSize
<1>1. PICK n \in Nat : n = Len(films) /\ DOMAIN films = 1..n
  BY ElementsOf
<1>2. PICK p \in Nat \ {0} : p = PageSize
  BY PagesAssumption
<1>3. PICK a \in Nat : a = n + p - 1
  OBVIOUS
<1>4. PICK total : total = a \div p
  OBVIOUS
<1>5. total \in Nat /\ a < p * total + p
  BY <1>4, DivisionIs
<1>6. TotalPages(films) = total
  BY <1>1, <1>2, <1>3, <1>4 DEF TotalPages
<1>7. ASSUME NEW j \in 1..n
      PROVE  ((j - 1) \div p) + 1 \in 1..total
  <2>1. PICK b \in Nat : b = j - 1
    OBVIOUS
  <2>2. PICK page : page = b \div p
    OBVIOUS
  <2>3. page \in Nat /\ p * page <= b
    BY <2>2, DivisionIs
  <2>4. p * (page + 1) = p * page + p /\ p * page \in Nat /\ p * total \in Nat
    BY <1>5, <2>3, ProductsGrow
  <2>5. p * (page + 1) < p * total + p
    <3>1. PICK x \in Nat, y \in Nat, z \in Nat : x = p * page /\ y = p * (page + 1) /\ z = p * total
      BY <1>5, <2>3, <2>4
    <3>2. y = x + p /\ x <= b /\ a < z + p
      BY <1>5, <2>3, <2>4, <3>1
    <3>3. b + p <= a
      BY <1>3, <2>1
    <3>4. y < z + p
      BY <3>2, <3>3
    <3>5. QED
      BY <3>1, <3>4
  <2>6. page + 1 <= total
    BY <1>5, <2>3, <2>5, ProductsGrow
  <2>7. QED
    BY <1>5, <2>1, <2>2, <2>3, <2>6
<1>8. ASSUME NEW k \in Nat, total <= k
      PROVE  n <= k * p
  <2>1. p * total <= k * p /\ p * total \in Nat /\ k * p \in Nat
    BY <1>5, <1>8, ProductsGrow
  <2>2. n <= p * total
    <3>1. PICK x \in Nat : x = p * total
      BY <2>1
    <3>2. a < x + p
      BY <1>5, <3>1
    <3>3. n <= x
      BY <1>3, <3>2
    <3>4. QED
      BY <3>1, <3>3
  <2>3. QED
    BY <2>1, <2>2
<1>9. QED
  BY <1>1, <1>2, <1>5, <1>6, <1>7, <1>8

\* A subset of the whole set's size is the whole set.
LEMMA AllOfThem ==
  ASSUME NEW S, IsFiniteSet(S), NEW s \in kSubset(Cardinality(S), S)
  PROVE  s = S
BY FS_Subset DEF kSubset

\* What is sampled of few pages is everything.
LEMMA FewPages ==
  ASSUME NEW T, NEW films \in Seq(T), TotalPages(films) <= PagesPerProvider,
         NEW pages \in SamplePages(TotalPages(films))
  PROVE  OnPages(films, pages) = {m \in Range(films) : m.poster}
<1>1. PICK total \in Nat : total = TotalPages(films)
  BY PagesAre
<1>2. /\ PagesPerProvider \in Nat /\ MaxSampledPages \in Nat
      /\ total <= PagesPerProvider /\ total <= MaxSampledPages
  BY <1>1, PagesAssumption
<1>3. Least(PagesPerProvider, total) = total /\ Least(total, MaxSampledPages) = total
  BY <1>2 DEF Least
<1>4. pages \in kSubset(total, 1..total)
  BY <1>1, <1>3 DEF SamplePages
<1>5. pages = 1..total
  <2>1. IsFiniteSet(1..total) /\ Cardinality(1..total) = total
    BY NumbersUpTo
  <2>2. QED
    BY <1>4, <2>1, AllOfThem
<1>6. \A j \in DOMAIN films : ((j - 1) \div PageSize) + 1 \in pages
  BY <1>1, <1>5, PagesAre
<1>7. Range(films) = {films[j] : j \in DOMAIN films}
  BY DEF Range
<1>8. QED
  BY <1>6, <1>7 DEF OnPages

----------------------------------------------------------------------------
(***************************************************************************)
(* The sources of a configuration do not depend on the order in which a    *)
(* server lists its libraries.                                             *)
(***************************************************************************)

\* A list read backwards.
LEMMA Backwards ==
  ASSUME NEW T, NEW s \in Seq(T)
  PROVE  /\ Reverse(s) \in Seq(T) /\ Len(Reverse(s)) = Len(s) /\ Range(Reverse(s)) = Range(s)
         /\ \A i \in 1..Len(s) : Reverse(s)[i] = s[Len(s) - i + 1]
<1>1. PICK n \in Nat : /\ n = Len(s) /\ DOMAIN s = 1..n /\ Range(s) = {s[i] : i \in 1..n}
                       /\ \A i \in 1..n : s[i] \in T
  BY ElementsOf
<1>2. \A i \in 1..n : n - i + 1 \in 1..n /\ n - (n - i + 1) + 1 = i
  OBVIOUS
<1>3. PICK out : out = [i \in 1..n |-> s[n - i + 1]]
  BY Zenon
<1>4. out \in [1..n -> T] /\ \A i \in 1..n : out[i] = s[n - i + 1] /\ s[i] = out[n - i + 1]
  <2>1. ASSUME NEW i \in 1..n
        PROVE  out[i] = s[n - i + 1] /\ out[i] \in T /\ s[i] = out[n - i + 1]
    <3>1. PICK j \in 1..n : j = n - i + 1 /\ n - j + 1 = i
      BY <1>2
    <3>2. out[i] = s[j] /\ out[j] = s[n - j + 1]
      BY <1>3, <3>1
    <3>3. QED
      BY <1>1, <3>1, <3>2
  <2>2. out = [i \in 1..n |-> out[i]]
    BY <1>3
  <2>3. QED
    BY <2>1, <2>2, Zenon
<1>5. out \in Seq(T) /\ Len(out) = n /\ Range(out) = {out[i] : i \in 1..n}
  <2>1. out \in [1..n -> T]
    BY <1>4
  <2>2. QED
    BY <2>1, Mapped, Zenon
<1>6. Range(out) = Range(s)
  BY <1>1, <1>2, <1>4, <1>5
<1>7. Reverse(s) = out
  BY <1>1, <1>3 DEF Reverse
<1>8. QED
  BY <1>1, <1>4, <1>5, <1>6, <1>7

LEMMA NamesIgnoreOrder ==
  ASSUME NEW server, NEW other, server.libs \in Seq(ListedLibraries),
         other.libs \in Seq(ListedLibraries), Range(server.libs) = Range(other.libs)
  PROVE  ByName(MovieLibraries(server)) = ByName(MovieLibraries(other))
<1>1. PICK a \in Seq(Refs) : a = MovieLibraries(server)
  BY MovieLibrariesAre
<1>2. PICK b \in Seq(Refs) : b = MovieLibraries(other)
  BY MovieLibrariesAre
<1>3. \A r, q \in Refs : r.id = q.id /\ r.name = q.name => r = q
  BY DEF Refs
<1>4. Range(a) \subseteq Refs /\ Range(b) \subseteq Refs
  BY ElementsOf
<1>5. /\ \A r \in Range(a) :
           /\ r.id # Empty
           /\ \E l \in Range(server.libs) : l.movies /\ l.id = r.id /\ l.name = r.name
      /\ \A l \in Range(server.libs) : l.movies /\ l.id # Empty =>
           \E r \in Range(a) : r.id = l.id /\ r.name = l.name
  BY <1>1, MovieLibrariesAre
<1>6. /\ \A r \in Range(b) :
           /\ r.id # Empty
           /\ \E l \in Range(other.libs) : l.movies /\ l.id = r.id /\ l.name = r.name
      /\ \A l \in Range(other.libs) : l.movies /\ l.id # Empty =>
           \E r \in Range(b) : r.id = l.id /\ r.name = l.name
  BY <1>2, MovieLibrariesAre
<1>7. ASSUME NEW r \in Range(a)
      PROVE  r \in Range(b)
  <2>1. PICK q \in Range(b) : q.id = r.id /\ q.name = r.name
    BY <1>5, <1>6
  <2>2. QED
    BY <1>3, <1>4, <2>1
<1>8. ASSUME NEW r \in Range(b)
      PROVE  r \in Range(a)
  <2>1. PICK q \in Range(a) : q.id = r.id /\ q.name = r.name
    BY <1>5, <1>6
  <2>2. QED
    BY <1>3, <1>4, <2>1
<1>9. Range(a) = Range(b)
  BY <1>7, <1>8, Zenon
<1>10. ByName(a) = ByName(b)
  BY <1>9, ByNameIgnoresOrder
<1>11. QED
  BY <1>1, <1>2, <1>10

\* A set resolved with what was found.
ResolvedWith(cfg, held, found) ==
  LET local == AddLocalSources(cfg, [s \in Range(Services) |-> found[s].refs])
  IN [order |-> FoldLeft(Add, local.order, held.order),
      pending |-> FlattenSeq([i \in DOMAIN Services |->
                    PendingFor(Services[i], found[Services[i]].unmatched)]),
      resolve |-> {}]

\* What a set resolves to, in two worlds that differ in nothing but the order in
\* which the servers list their libraries.
LEMMA CurrentIgnoresOrder ==
  ASSUME NEW held, NEW world, NEW other,
         \A s \in {"jellyfin", "plex"} :
           /\ world[s].url = other[s].url /\ world[s].key = other[s].key
           /\ world[s].status = other[s].status
           /\ world[s].libs \in Seq(ListedLibraries) /\ other[s].libs \in Seq(ListedLibraries)
           /\ Range(world[s].libs) = Range(other[s].libs)
  PROVE  CurrentSources(held, world) = CurrentSources(held, other)
<1>1. ASSUME NEW s \in {"jellyfin", "plex"}
      PROVE  ByName(MovieLibraries(world[s])) = ByName(MovieLibraries(other[s]))
  <2>1. PICK a, b : a = world[s] /\ b = other[s]
    OBVIOUS
  <2>2. /\ a.libs \in Seq(ListedLibraries) /\ b.libs \in Seq(ListedLibraries)
        /\ Range(a.libs) = Range(b.libs)
    BY <2>1
  <2>3. ByName(MovieLibraries(a)) = ByName(MovieLibraries(b))
    BY <2>2, NamesIgnoreOrder
  <2>4. QED
    BY <2>1, <2>3
<1>2. ASSUME NEW cfg, NEW s \in {"jellyfin", "plex"}
      PROVE  /\ ResolveLibraryNames(s, Libraries(cfg, s), MovieLibraries(world[s]))
                  = ResolveLibraryNames(s, Libraries(cfg, s), MovieLibraries(other[s]))
             /\ Reachable(cfg, s, world[s]) <=> Reachable(cfg, s, other[s])
  <2>1. PICK refs : refs = Libraries(cfg, s)
    OBVIOUS
  <2>2. PICK a, b : a = MovieLibraries(world[s]) /\ b = MovieLibraries(other[s])
    OBVIOUS
  <2>3. PICK index : index = ByName(a) /\ index = ByName(b)
    BY <1>1, <2>2
  <2>4. ResolveLibraryNames(s, refs, a) = ResolveLibraryNames(s, refs, b)
    BY <2>3 DEF ResolveLibraryNames
  <2>5. Reachable(cfg, s, world[s]) <=> Reachable(cfg, s, other[s])
    BY DEF Reachable, Status
  <2>6. QED
    BY <2>1, <2>2, <2>4, <2>5
<1>3. ASSUME NEW cfg
      PROVE  /\ AllReachable(cfg, world) <=> AllReachable(cfg, other)
             /\ ResolvePendingLibraries(cfg, held, world) = ResolvePendingLibraries(cfg, held, other)
  <2>1. AllReachable(cfg, world) <=> AllReachable(cfg, other)
    BY <1>2, ServicesAre DEF AllReachable
  <2>2. PICK found : found = [s \in Range(Services) |->
            ResolveLibraryNames(s, Libraries(cfg, s), MovieLibraries(world[s]))]
    BY Zenon
  <2>3. found = [s \in Range(Services) |->
            ResolveLibraryNames(s, Libraries(cfg, s), MovieLibraries(other[s]))]
    <3>1. \A s \in Range(Services) :
            ResolveLibraryNames(s, Libraries(cfg, s), MovieLibraries(world[s]))
              = ResolveLibraryNames(s, Libraries(cfg, s), MovieLibraries(other[s]))
      BY <1>2, ServicesAre
    <3>2. QED
      BY <2>2, <3>1
  <2>4. ResolvePendingLibraries(cfg, held, world) = ResolvedWith(cfg, held, found)
    BY <2>2 DEF ResolvePendingLibraries, ResolvedWith
  <2>5. ResolvePendingLibraries(cfg, held, other) = ResolvedWith(cfg, held, found)
    BY <2>3 DEF ResolvePendingLibraries, ResolvedWith
  <2>6. QED
    BY <2>1, <2>4, <2>5
<1>4. QED
  BY <1>3 DEF CurrentSources

----------------------------------------------------------------------------
(***************************************************************************)
(* The catalog of streaming services does not depend on the order in which *)
(* TMDB lists them, and finds what it offers.                              *)
(***************************************************************************)

LEMMA AppendNew ==
  ASSUME NEW T, NEW s \in Seq(T), NEW x \in T, NoRepeats(s), x \notin Range(s)
  PROVE  NoRepeats(Append(s, x))
<1>1. PICK n \in Nat : n = Len(s) /\ DOMAIN s = 1..n /\ Range(s) = {s[i] : i \in 1..n}
  BY ElementsOf
<1>2. PICK longer : longer = Append(s, x)
  BY Zenon
<1>3. /\ longer \in Seq(T) /\ Len(longer) = n + 1
      /\ \A i \in 1..n : longer[i] = s[i]
      /\ longer[n + 1] = x
  BY <1>1, <1>2, RangeOfAppend
<1>4. DOMAIN longer = 1..(n + 1)
  BY <1>3, ElementsOf
<1>5. ASSUME NEW i \in 1..(n + 1), NEW j \in 1..(n + 1), longer[i] = longer[j]
      PROVE  i = j
  <2>1. (i \in 1..n \/ i = n + 1) /\ (j \in 1..n \/ j = n + 1)
    OBVIOUS
  <2>2. CASE i \in 1..n /\ j \in 1..n
    BY <1>1, <1>3, <1>5, <2>2 DEF NoRepeats
  <2>3. CASE i \in 1..n /\ j = n + 1
    BY <1>1, <1>3, <1>5, <2>3
  <2>4. CASE i = n + 1 /\ j \in 1..n
    BY <1>1, <1>3, <1>5, <2>4
  <2>5. QED
    BY <2>1, <2>2, <2>3, <2>4
<1>6. NoRepeats(longer)
  BY <1>4, <1>5 DEF NoRepeats
<1>7. QED
  BY <1>2, <1>6

\* What is chosen from a list without repetition has none.
ChosenInv(about, k, out) ==
  /\ out \in Seq(about.keep) /\ Range(out) \subseteq {about.seq[i] : i \in 1..k}
  /\ NoRepeats(out)
ChosenFold == INSTANCE FoldTheorems WITH Step <- OnlyStep, Inv <- ChosenInv

LEMMA OnlyNoRepeats ==
  ASSUME NEW T, NEW seq \in Seq(T), NEW S, NoRepeats(seq)
  PROVE  NoRepeats(Only(seq, S))
<1>1. PICK about : about = [seq |-> seq, keep |-> T]
  BY Zenon
<1>2. about.seq = seq /\ about.keep = T
  BY <1>1
<1>3. PICK n \in Nat : /\ n = Len(seq) /\ DOMAIN seq = 1..n /\ \A i \in 1..n : seq[i] \in T
  BY ElementsOf
<1>4. ChosenInv(about, 0, <<>>)
  <2>1. PICK nothing : nothing = <<>>
    OBVIOUS
  <2>2. nothing \in Seq(T) /\ Range(nothing) = {} /\ DOMAIN nothing = {}
    BY <2>1 DEF Range
  <2>3. ChosenInv(about, 0, nothing)
    BY <1>2, <2>2 DEF ChosenInv, NoRepeats
  <2>4. QED
    BY <2>1, <2>3
<1>5. ASSUME NEW k \in 1..n, NEW out, ChosenInv(about, k - 1, out)
      PROVE  ChosenInv(about, k, OnlyStep(S, 0, out, seq[k]))
  <2>1. out \in Seq(T) /\ Range(out) \subseteq {seq[i] : i \in 1..(k - 1)} /\ NoRepeats(out)
    BY <1>2, <1>5 DEF ChosenInv
  <2>2. PICK x \in T : x = seq[k]
    BY <1>3
  <2>3. 1..(k - 1) \subseteq 1..k /\ k \in 1..k /\ 1..(k - 1) \subseteq 1..n /\ k \notin 1..(k - 1)
    BY <1>3
  <2>4. CASE x \in S
    <3>1. PICK longer : longer = Append(out, x)
      BY Zenon
    <3>2. x \notin Range(out)
      BY <1>3, <2>1, <2>2, <2>3 DEF NoRepeats
    <3>3. NoRepeats(longer)
      BY <2>1, <3>1, <3>2, AppendNew
    <3>4. longer \in Seq(T) /\ Range(longer) = Range(out) \cup {x}
      BY <2>1, <3>1, RangeOfAppend
    <3>5. Range(longer) \subseteq {seq[i] : i \in 1..k}
      BY <2>1, <2>2, <2>3, <3>4
    <3>6. ChosenInv(about, k, longer)
      BY <1>2, <3>3, <3>4, <3>5, Zenon DEF ChosenInv
    <3>7. QED
      BY <2>2, <2>4, <3>1, <3>6 DEF OnlyStep
  <2>5. CASE x \notin S
    <3>1. Range(out) \subseteq {seq[i] : i \in 1..k}
      BY <2>1, <2>3
    <3>2. ChosenInv(about, k, out)
      BY <1>2, <2>1, <3>1 DEF ChosenInv
    <3>3. QED
      BY <2>2, <2>5, <3>2 DEF OnlyStep
  <2>6. QED
    BY <2>4, <2>5
<1>6. ChosenInv(about, n, ChosenFold!Result(S, 0, <<>>, seq))
  BY <1>3, <1>4, <1>5, ChosenFold!FoldKeeps
<1>7. Only(seq, S) = ChosenFold!Result(S, 0, <<>>, seq)
  BY DEF Only, OnlyStep, ChosenFold!Result, FoldLeft, MapThenFoldSet,
         ChosenFold!MapThenFoldSet, Max, ChosenFold!Highest
<1>8. QED
  BY <1>6, <1>7 DEF ChosenInv

\* The sort of the services, as a fold.
EntryStep(none, nothing, sorted, e) == Insert(sorted, e, Before)
EntryFold == INSTANCE FoldTheorems WITH Step <- EntryStep, Inv <- SortInv

LEMMA EntriesSorted ==
  ASSUME NEW T, NEW R, NEW list \in Seq(T),
         \A a, b \in T : Before(a, b) <=> <<a, b>> \in R
  PROVE  SortInv([type |-> T, order |-> R, list |-> list], Len(list), SortBy(list, Before))
<1>1. /\ Len(list) \in Nat /\ DOMAIN list = 1..Len(list)
      /\ \A i \in 1..Len(list) : list[i] \in T
  BY ElementsOf
<1>2. PICK about : about = [type |-> T, order |-> R, list |-> list]
  BY Zenon
<1>3. SortInv(about, 0, <<>>)
  BY SortBegins
<1>4. ASSUME NEW k \in 1..Len(list), NEW held, SortInv(about, k - 1, held)
      PROVE  SortInv(about, k, EntryStep(0, 0, held, list[k]))
  <2>1. PICK x \in T : x = list[k]
    BY <1>1
  <2>2. \A i \in DOMAIN held : held[i] \in T
    BY <1>2, <1>4, ElementsOf DEF SortInv, Rearranged
  <2>3. PICK B : B = {i \in DOMAIN held : <<x, held[i]>> \notin R}
    BY Zenon
  <2>4. B = {i \in DOMAIN held : ~Before(x, held[i])}
    BY <2>2, <2>3
  <2>5. EntryStep(0, 0, held, x) = InsertAt(held, 1 + Cardinality(B), x)
    BY <2>4 DEF EntryStep, Insert
  <2>6. SortInv(about, k, InsertAt(held, 1 + Cardinality(B), x))
    <3>1. k \in Nat \ {0}
      BY <1>1
    <3>2. QED
      BY <1>2, <1>4, <2>1, <2>3, <3>1, SortGoesOn, Zenon
  <2>7. QED
    BY <2>1, <2>5, <2>6
<1>5. SortInv(about, Len(list), EntryFold!Result(0, 0, <<>>, list))
  BY <1>1, <1>3, <1>4, EntryFold!FoldKeeps
<1>6. SortBy(list, Before) = EntryFold!Result(0, 0, <<>>, list)
  BY DEF SortBy, EntryStep, EntryFold!Result, FoldLeft,
         MapThenFoldSet, EntryFold!MapThenFoldSet, Max, EntryFold!Highest
<1>7. QED
  BY <1>2, <1>5, <1>6

\* What TMDB lists: services, none of them twice.
Listed(list) ==
  /\ list \in Seq([name : Words, tmdbID : Nat])
  /\ \A i, j \in DOMAIN list : list[i].tmdbID = list[j].tmdbID => i = j

\* The table has a service once.
LEMMA KnownTable ==
  /\ \A k \in Range(KnownProviders) : k.slug \in Words /\ k.name \in Words /\ k.tmdbID \in Nat
  /\ \A k, l \in Range(KnownProviders) : k.slug = l.slug \/ k.tmdbID = l.tmdbID => k = l
<1>1. PICK table \in Seq([slug : Words, name : Words, tmdbID : Nat]) : table = KnownProviders
  BY KnownAssumption
<1>2. PICK n \in Nat : n = Len(table) /\ DOMAIN table = 1..n /\ Range(table) = {table[i] : i \in 1..n}
                      /\ \A i \in 1..n : table[i] \in [slug : Words, name : Words, tmdbID : Nat]
  BY ElementsOf, Zenon
<1>3. \A k \in Range(table) : k.slug \in Words /\ k.name \in Words /\ k.tmdbID \in Nat
  BY <1>2
<1>4. \A i, j \in 1..n : table[i].slug = table[j].slug \/ table[i].tmdbID = table[j].tmdbID => i = j
  BY <1>1, <1>2, KnownAssumption
<1>5. \A k, l \in Range(table) : k.slug = l.slug \/ k.tmdbID = l.tmdbID => k = l
  BY <1>2, <1>4
<1>6. QED
  BY <1>1, <1>3, <1>5

\* An entry is for the service of its number.
LEMMA EntryIs ==
  ASSUME NEW p \in [name : Words, tmdbID : Nat]
  PROVE  /\ Entry(p).provider.tmdbID = p.tmdbID /\ Entry(p).provider.name \in Words
         /\ Entry(p).rawName = p.name
         /\ \A k \in Range(KnownProviders) : k.tmdbID = p.tmdbID =>
              Entry(p).provider = Provider(k.slug, k.name, k.tmdbID)
<1>1. PICK known : known = LookupKnownProviderByID(p.tmdbID)
  OBVIOUS
<1>2. p.name \in Words
  OBVIOUS
<1>3. \A k \in Range(KnownProviders) : k.name \in Words
  BY KnownTable
<1>4. known = {Provider(k.slug, k.name, k.tmdbID) : k \in {k \in Range(KnownProviders) : k.tmdbID = p.tmdbID}}
  BY <1>1 DEF LookupKnownProviderByID
<1>5. PICK sp : sp = IF known = {} THEN Provider(Slug[p.name], p.name, p.tmdbID)
                     ELSE CHOOSE k \in known : TRUE
  OBVIOUS
<1>6. Entry(p) = [provider |-> sp, rawName |-> p.name, rawSlug |-> Slug[p.name]]
  BY <1>1, <1>5 DEF Entry
<1>7. \A k, l \in Range(KnownProviders) : k.tmdbID = l.tmdbID => k = l
  BY KnownTable
<1>8. known # {} => sp \in known
  BY <1>5
<1>9. sp.tmdbID = p.tmdbID /\ sp.name \in Words
  <2>1. CASE known = {}
    BY <1>2, <1>5, <2>1 DEF Provider
  <2>2. CASE known # {}
    BY <1>3, <1>4, <1>8, <2>2 DEF Provider
  <2>3. QED
    BY <2>1, <2>2
<1>10. ASSUME NEW k \in Range(KnownProviders), k.tmdbID = p.tmdbID
       PROVE  sp = Provider(k.slug, k.name, k.tmdbID)
  <2>1. sp \in known
    BY <1>4, <1>8, <1>10
  <2>2. PICK l \in Range(KnownProviders) : l.tmdbID = p.tmdbID /\ sp = Provider(l.slug, l.name, l.tmdbID)
    BY <1>4, <2>1
  <2>3. l = k
    BY <1>7, <1>10, <2>2
  <2>4. QED
    BY <2>2, <2>3
<1>11. QED
  BY <1>6, <1>9, <1>10

\* The entries of the services TMDB lists.
Entries(list) == {Entry(p) : p \in Range(list)}

\* Services by name, and those of one name by number.
EntryOrder(T) == {p \in T \X T : Before(p[1], p[2])}

LEMMA ListedOnce ==
  ASSUME NEW list, Listed(list)
  PROVE  /\ \A p, q \in Range(list) : p.tmdbID = q.tmdbID => p = q
         /\ \A p \in Range(list) : p \in [name : Words, tmdbID : Nat]
         /\ \A e, f \in Entries(list) : e.provider.tmdbID = f.provider.tmdbID => e = f
         /\ \A e \in Entries(list) : e.provider.tmdbID \in Nat /\ e.provider.name \in Words
<1>1. PICK n \in Nat : /\ n = Len(list) /\ DOMAIN list = 1..n /\ Range(list) = {list[i] : i \in 1..n}
                       /\ \A i \in 1..n : list[i] \in [name : Words, tmdbID : Nat]
  BY ElementsOf, Zenon DEF Listed
<1>2. \A p, q \in Range(list) : p.tmdbID = q.tmdbID => p = q
  BY <1>1 DEF Listed
<1>3. \A p \in Range(list) : p \in [name : Words, tmdbID : Nat]
  BY <1>1
<1>4. \A p \in Range(list) : /\ Entry(p).provider.tmdbID = p.tmdbID
                             /\ Entry(p).provider.name \in Words
  BY <1>3, EntryIs
<1>5. ASSUME NEW e \in Entries(list), NEW f \in Entries(list), e.provider.tmdbID = f.provider.tmdbID
      PROVE  e = f
  <2>1. PICK p \in Range(list), q \in Range(list) : e = Entry(p) /\ f = Entry(q)
    BY DEF Entries
  <2>2. p.tmdbID = q.tmdbID
    BY <1>4, <1>5, <2>1
  <2>3. QED
    BY <1>2, <2>1, <2>2
<1>6. ASSUME NEW e \in Entries(list)
      PROVE  e.provider.tmdbID \in Nat /\ e.provider.name \in Words
  <2>1. PICK p \in Range(list) : e = Entry(p)
    BY DEF Entries
  <2>2. p.tmdbID \in Nat
    BY <1>3
  <2>3. QED
    BY <1>4, <2>1, <2>2
<1>7. QED
  BY <1>2, <1>3, <1>5, <1>6

LEMMA EntriesAreOrdered ==
  ASSUME NEW list, Listed(list), NEW T, T = Entries(list)
  PROVE  /\ TotalOrder(EntryOrder(T), T)
         /\ \A e, f \in T : Before(e, f) <=> <<e, f>> \in EntryOrder(T)
<1>1. \A e, f \in T : Before(e, f) <=> <<e, f>> \in EntryOrder(T)
  BY DEF EntryOrder
<1>2. \A e \in T : e.provider.tmdbID \in Nat /\ e.provider.name \in Words
  BY ListedOnce
<1>3. \A e, f \in T : e.provider.tmdbID = f.provider.tmdbID => e = f
  BY ListedOnce
<1>4. /\ \A e \in T : Rank[e.provider.name] \in Nat
      /\ \A e, f \in T : Rank[e.provider.name] = Rank[f.provider.name] =>
           e.provider.name = f.provider.name
  BY <1>2, RankAssumption
<1>5. \A e \in T : ~Before(e, e)
  BY <1>2, <1>4 DEF Before
<1>6. \A e, f, g \in T : Before(e, f) /\ Before(f, g) => Before(e, g)
  <2> SUFFICES ASSUME NEW e \in T, NEW f \in T, NEW g \in T, Before(e, f), Before(f, g)
               PROVE  Before(e, g)
    OBVIOUS
  <2>1. /\ Rank[e.provider.name] \in Nat /\ Rank[f.provider.name] \in Nat
        /\ Rank[g.provider.name] \in Nat
        /\ e.provider.tmdbID \in Nat /\ f.provider.tmdbID \in Nat /\ g.provider.tmdbID \in Nat
    BY <1>2, <1>4
  <2>2. QED
    BY <2>1 DEF Before
<1>7. \A e, f \in T : e = f \/ Before(e, f) \/ Before(f, e)
  <2> SUFFICES ASSUME NEW e \in T, NEW f \in T, ~Before(e, f), ~Before(f, e)
               PROVE  e = f
    OBVIOUS
  <2>1. /\ Rank[e.provider.name] \in Nat /\ Rank[f.provider.name] \in Nat
        /\ e.provider.tmdbID \in Nat /\ f.provider.tmdbID \in Nat
    BY <1>2, <1>4
  <2>2. e.provider.name = f.provider.name
    BY <1>4, <2>1 DEF Before
  <2>3. e.provider.tmdbID = f.provider.tmdbID
    BY <2>1, <2>2 DEF Before
  <2>4. QED
    BY <1>3, <2>3
<1>8. QED
  BY <1>1, <1>5, <1>6, <1>7 DEF TotalOrder

\* What the catalog is made of: entries, each once.
LEMMA SluggableIs ==
  ASSUME NEW list, Listed(list), NEW T, T = Entries(list)
  PROVE  /\ Sluggable(list) \in Seq(T) /\ NoRepeats(Sluggable(list))
         /\ Range(Sluggable(list)) = {e \in T : e.rawSlug # Blank}
<1>1. PICK n \in Nat : /\ n = Len(list) /\ DOMAIN list = 1..n /\ Range(list) = {list[i] : i \in 1..n}
                       /\ \A i \in 1..n : list[i] \in [name : Words, tmdbID : Nat]
  BY ElementsOf, Zenon DEF Listed
<1>2. PICK entries : entries = [i \in 1..n |-> Entry(list[i])]
  BY Zenon
<1>3. T = {entries[i] : i \in 1..n}
  BY <1>1, <1>2 DEF Entries
<1>4. entries \in [1..n -> T]
  BY <1>2, <1>3
<1>5. entries \in Seq(T) /\ DOMAIN entries = 1..n /\ Range(entries) = T
  BY <1>3, <1>4, Mapped, Zenon
<1>6. NoRepeats(entries)
  <2>1. ASSUME NEW i \in 1..n, NEW j \in 1..n, entries[i] = entries[j]
        PROVE  i = j
    <3>1. Entry(list[i]) = Entry(list[j])
      BY <1>2, <2>1
    <3>2. list[i].tmdbID = list[j].tmdbID
      BY <1>1, <3>1, EntryIs
    <3>3. QED
      BY <1>1, <3>2 DEF Listed
  <2>2. QED
    BY <1>5, <2>1 DEF NoRepeats
<1>7. PICK S : S = {e \in Range(entries) : e.rawSlug # Blank}
  BY Zenon
<1>8. Sluggable(list) = Only(entries, S)
  BY <1>1, <1>2, <1>7 DEF Sluggable
<1>9. PICK out : out = Only(entries, S)
  OBVIOUS
<1>10. out \in Seq(T \cap S) /\ Range(out) = T \cap S
  BY <1>5, <1>9, OnlyIs
<1>11. NoRepeats(out)
  BY <1>5, <1>6, <1>9, OnlyNoRepeats
<1>12. T \cap S = S /\ S = {e \in T : e.rawSlug # Blank}
  BY <1>5, <1>7
<1>13. out \in Seq(T)
  BY <1>10
<1>14. QED
  BY <1>8, <1>9, <1>10, <1>11, <1>12, <1>13

\* In the order of the catalog.
LEMMA SortedEntries ==
  ASSUME NEW list, Listed(list), NEW T, T = Entries(list),
         NEW sorted, sorted = SortBy(Sluggable(list), Before)
  PROVE  /\ sorted \in Seq(T) /\ NoRepeats(sorted) /\ InOrder(EntryOrder(T), sorted)
         /\ Range(sorted) = {e \in T : e.rawSlug # Blank}
<1>1. PICK entries : entries = Sluggable(list)
  OBVIOUS
<1>2. /\ entries \in Seq(T) /\ NoRepeats(entries)
      /\ Range(entries) = {e \in T : e.rawSlug # Blank}
  BY <1>1, SluggableIs
<1>3. PICK R : R = EntryOrder(T)
  OBVIOUS
<1>4. TotalOrder(R, T) /\ \A e, f \in T : Before(e, f) <=> <<e, f>> \in R
  BY <1>3, EntriesAreOrdered
<1>5. PICK n \in Nat : n = Len(entries)
  BY <1>2, ElementsOf
<1>6. SortInv([type |-> T, order |-> R, list |-> entries], n, SortBy(entries, Before))
  BY <1>2, <1>4, <1>5, EntriesSorted, Zenon
<1>7. sorted = SortBy(entries, Before)
  BY <1>1
<1>8. Rearranged(T, entries, n, sorted) /\ InOrder(R, sorted)
  BY <1>4, <1>6, <1>7 DEF SortInv
<1>9. NoRepeats(sorted) /\ Range(sorted) = Range(entries)
  BY <1>2, <1>5, <1>8, StillNoRepeats
<1>10. sorted \in Seq(T)
  BY <1>8 DEF Rearranged
<1>11. QED
  BY <1>2, <1>3, <1>8, <1>9, <1>10

\* So the order in which TMDB lists the services is lost.
LEMMA CatalogIgnoresOrder ==
  ASSUME NEW list, Listed(list), NEW other, Listed(other), Range(list) = Range(other)
  PROVE  NewProviderCatalog(list) = NewProviderCatalog(other)
<1>1. PICK T : T = Entries(list) /\ T = Entries(other)
  BY Zenon DEF Entries
<1>2. PICK s : s = SortBy(Sluggable(list), Before)
  OBVIOUS
<1>3. PICK t : t = SortBy(Sluggable(other), Before)
  OBVIOUS
<1>4. /\ s \in Seq(T) /\ NoRepeats(s) /\ InOrder(EntryOrder(T), s)
      /\ Range(s) = {e \in T : e.rawSlug # Blank}
  BY <1>1, <1>2, SortedEntries, Zenon
<1>5. /\ t \in Seq(T) /\ NoRepeats(t) /\ InOrder(EntryOrder(T), t)
      /\ Range(t) = {e \in T : e.rawSlug # Blank}
  BY <1>1, <1>3, SortedEntries
<1>6. TotalOrder(EntryOrder(T), T)
  BY <1>1, EntriesAreOrdered
<1>7. s = t
  BY <1>4, <1>5, <1>6, OneOrder, Zenon
<1>8. QED
  BY <1>2, <1>3, <1>7 DEF NewProviderCatalog

LEMMA ListedBackwards ==
  ASSUME NEW list, Listed(list)
  PROVE  Listed(Reverse(list)) /\ Range(Reverse(list)) = Range(list)
<1>1. PICK n \in Nat : n = Len(list) /\ DOMAIN list = 1..n
  BY ElementsOf DEF Listed
<1>2. PICK out : out = Reverse(list)
  OBVIOUS
<1>3. /\ out \in Seq([name : Words, tmdbID : Nat]) /\ Len(out) = n /\ Range(out) = Range(list)
      /\ \A i \in 1..n : out[i] = list[n - i + 1]
  BY <1>1, <1>2, Backwards, Zenon DEF Listed
<1>4. DOMAIN out = 1..n
  BY <1>3, ElementsOf
<1>5. ASSUME NEW i \in 1..n, NEW j \in 1..n, out[i].tmdbID = out[j].tmdbID
      PROVE  i = j
  <2>1. PICK a \in 1..n : a = n - i + 1
    OBVIOUS
  <2>2. PICK b \in 1..n : b = n - j + 1
    OBVIOUS
  <2>3. list[a].tmdbID = list[b].tmdbID
    BY <1>3, <1>5, <2>1, <2>2
  <2>4. a = b
    BY <1>1, <2>3, Zenon DEF Listed
  <2>5. QED
    BY <2>1, <2>2, <2>4
<1>6. QED
  BY <1>2, <1>3, <1>4, <1>5 DEF Listed

\* What an alias makes of an index.
Aliased(index, key, sp, more) ==
  /\ DOMAIN more = DOMAIN index \cup {key}
  /\ \A k \in DOMAIN index : more[k] = index[k]
  /\ \A k \in DOMAIN more : k \notin DOMAIN index => k = key /\ more[k] = sp

LEMMA AliasIs ==
  ASSUME NEW index, NEW key, NEW sp
  PROVE  Aliased(index, key, sp, Alias(index, key, sp))
<1>1. PICK more : more = Alias(index, key, sp)
  OBVIOUS
<1>2. CASE key \in DOMAIN index
  <2>1. more = index
    BY <1>1, <1>2 DEF Alias
  <2>2. Aliased(index, key, sp, more)
    BY <1>2, <2>1 DEF Aliased
  <2>3. QED
    BY <1>1, <2>2
<1>3. CASE key \notin DOMAIN index
  <2>1. more = [k \in DOMAIN index \cup {key} |-> IF k = key THEN sp ELSE index[k]]
    BY <1>1, <1>3 DEF Alias, Assign
  <2>2. Aliased(index, key, sp, more)
    BY <1>3, <2>1 DEF Aliased
  <2>3. QED
    BY <1>1, <2>2
<1>4. QED
  BY <1>2, <1>3

\* The catalog of the first k entries: each option is what its identifier finds,
\* and what a name finds has this name.
Catalogued(list, k, cat) ==
  /\ cat.options \in Seq({list[i].provider : i \in DOMAIN list}) /\ NoRepeats(cat.options)
  /\ \A o \in Range(cat.options) : o.id \in DOMAIN cat.bySlug /\ cat.bySlug[o.id] = o
  /\ \A key \in DOMAIN cat.bySlug : \E i \in 1..k : cat.bySlug[key] = list[i].provider
  /\ \A key \in DOMAIN cat.byName : \E i \in 1..k :
       /\ cat.byName[key] = list[i].provider
       /\ key \in {list[i].provider.name, list[i].rawName}

RegisterStep(none, nothing, cat, e) == Register(cat, e)
RegisterFold == INSTANCE FoldTheorems WITH Step <- RegisterStep, Inv <- Catalogued

LEMMA RegisterGoesOn ==
  ASSUME NEW list, NEW n \in Nat, DOMAIN list = 1..n,
         \A i, j \in 1..n : list[i].provider.tmdbID = list[j].provider.tmdbID => i = j,
         NEW k \in 1..n, NEW cat, Catalogued(list, k - 1, cat), NEW e, e = list[k]
  PROVE  Catalogued(list, k, Register(cat, e))
<1>1. PICK U : U = {list[i].provider : i \in 1..n}
  BY Zenon
<1>2. PICK options : options = cat.options
  OBVIOUS
<1>3. PICK slugs : slugs = cat.bySlug
  OBVIOUS
<1>4. PICK names : names = cat.byName
  OBVIOUS
<1>5. /\ options \in Seq(U) /\ NoRepeats(options)
      /\ \A o \in Range(options) : o.id \in DOMAIN slugs /\ slugs[o.id] = o
      /\ \A key \in DOMAIN slugs : \E i \in 1..(k - 1) : slugs[key] = list[i].provider
      /\ \A key \in DOMAIN names : \E i \in 1..(k - 1) :
           names[key] = list[i].provider /\ key \in {list[i].provider.name, list[i].rawName}
  BY <1>1, <1>2, <1>3, <1>4 DEF Catalogued
<1>6. PICK sp : sp = e.provider
  OBVIOUS
<1>7. sp \in U /\ 1..(k - 1) \subseteq 1..k /\ k \in 1..k
  BY <1>1, <1>6
<1>8. PICK clash \in BOOLEAN : clash = (sp.id \in DOMAIN slugs /\ slugs[sp.id].tmdbID # sp.tmdbID)
  BY Zenon
<1>9. PICK named : named = Alias(names, sp.name, sp)
  OBVIOUS
<1>10. PICK allNamed : allNamed = Alias(named, e.rawName, sp)
  OBVIOUS
<1>11. PICK longer : longer = IF clash THEN options ELSE Append(options, sp)
  BY Zenon
<1>12. PICK more : more = IF clash THEN slugs ELSE Alias(Assign(slugs, sp.id, sp), e.rawSlug, sp)
  OBVIOUS
<1>13. PICK next : next = Register(cat, e)
  OBVIOUS
<1>14. /\ next.options = longer /\ next.bySlug = more /\ next.byName = allNamed
  BY <1>2, <1>3, <1>4, <1>6, <1>8, <1>9, <1>10, <1>11, <1>12, <1>13, Zenon DEF Register
<1>15. Aliased(names, sp.name, sp, named) /\ Aliased(named, e.rawName, sp, allNamed)
  BY <1>9, <1>10, AliasIs
<1>16. ASSUME NEW key \in DOMAIN allNamed
       PROVE  \E i \in 1..k : /\ allNamed[key] = list[i].provider
                              /\ key \in {list[i].provider.name, list[i].rawName}
  <2>1. CASE key \in DOMAIN names
    <3>1. key \in DOMAIN named /\ named[key] = names[key]
      BY <1>15, <2>1 DEF Aliased
    <3>2. allNamed[key] = names[key]
      BY <1>15, <3>1 DEF Aliased
    <3>3. QED
      BY <1>5, <1>7, <2>1, <3>2
  <2>2. CASE key \in DOMAIN named /\ key \notin DOMAIN names
    <3>1. key = sp.name /\ named[key] = sp
      BY <1>15, <2>2 DEF Aliased
    <3>2. allNamed[key] = sp
      BY <1>15, <2>2, <3>1 DEF Aliased
    <3>3. QED
      BY <1>6, <1>7, <3>1, <3>2
  <2>3. CASE key \notin DOMAIN named
    <3>1. key = e.rawName /\ allNamed[key] = sp
      BY <1>15, <2>3 DEF Aliased
    <3>2. QED
      BY <1>6, <1>7, <3>1
  <2>4. QED
    BY <2>1, <2>2, <2>3
<1>17. /\ longer \in Seq(U) /\ NoRepeats(longer)
       /\ \A o \in Range(longer) : o.id \in DOMAIN more /\ more[o.id] = o
       /\ \A key \in DOMAIN more : \E i \in 1..k : more[key] = list[i].provider
  <2>1. CASE clash
    BY <1>5, <1>7, <1>11, <1>12, <2>1
  <2>2. CASE ~clash
    <3>1. sp.id \notin DOMAIN slugs
      <4>1. SUFFICES ASSUME sp.id \in DOMAIN slugs
                     PROVE  FALSE
        OBVIOUS
      <4>2. PICK i \in 1..(k - 1) : slugs[sp.id] = list[i].provider
        BY <1>5, <4>1
      <4>3. list[i].provider.tmdbID = list[k].provider.tmdbID
        BY <1>6, <1>8, <2>2, <4>1, <4>2, Zenon
      <4>4. i \in 1..n /\ i # k
        BY <4>2
      <4>5. QED
        BY <4>3, <4>4
    <3>2. longer = Append(options, sp) /\ more = Alias(Assign(slugs, sp.id, sp), e.rawSlug, sp)
      BY <1>11, <1>12, <2>2
    <3>3. sp \notin Range(options)
      BY <1>5, <3>1
    <3>4. NoRepeats(longer)
      BY <1>5, <1>7, <3>2, <3>3, AppendNew
    <3>5. longer \in Seq(U) /\ Range(longer) = Range(options) \cup {sp}
      BY <1>5, <1>7, <3>2, RangeOfAppend
    <3>6. PICK assigned : assigned = Assign(slugs, sp.id, sp)
      OBVIOUS
    <3>7. /\ DOMAIN assigned = DOMAIN slugs \cup {sp.id} /\ assigned[sp.id] = sp
          /\ \A key \in DOMAIN slugs : assigned[key] = slugs[key]
      BY <3>1, <3>6 DEF Assign
    <3>8. /\ DOMAIN more = DOMAIN assigned \cup {e.rawSlug}
          /\ \A key \in DOMAIN assigned : more[key] = assigned[key]
          /\ \A key \in DOMAIN more : key \notin DOMAIN assigned => more[key] = sp
      <4>1. Aliased(assigned, e.rawSlug, sp, more)
        BY <3>2, <3>6, AliasIs
      <4>2. QED
        BY <4>1 DEF Aliased
    <3>9. \A o \in Range(longer) : o.id \in DOMAIN more /\ more[o.id] = o
      BY <1>5, <3>5, <3>7, <3>8
    <3>10. ASSUME NEW key \in DOMAIN more
           PROVE  \E i \in 1..k : more[key] = list[i].provider
      <4>1. CASE key \in DOMAIN slugs
        <5>1. more[key] = slugs[key]
          BY <3>7, <3>8, <4>1
        <5>2. QED
          BY <1>5, <1>7, <4>1, <5>1
      <4>2. CASE key \notin DOMAIN slugs
        <5>1. more[key] = list[k].provider
          BY <1>6, <3>7, <3>8, <3>10, <4>2
        <5>2. QED
          BY <1>7, <5>1
      <4>3. QED
        BY <4>1, <4>2
    <3>11. QED
      BY <3>4, <3>5, <3>9, <3>10
  <2>3. QED
    BY <2>1, <2>2
<1>18. Catalogued(list, k, next)
  BY <1>1, <1>14, <1>16, <1>17, Zenon DEF Catalogued
<1>19. QED
  BY <1>13, <1>18

LEMMA CatalogIs ==
  ASSUME NEW T, NEW list \in Seq(T), NEW n \in Nat, n = Len(list),
         \A i, j \in 1..n : list[i].provider.tmdbID = list[j].provider.tmdbID => i = j
  PROVE  Catalogued(list, n, FoldLeft(Register, NoCatalog, list))
<1>1. DOMAIN list = 1..n
  BY ElementsOf
<1>2. Catalogued(list, 0, NoCatalog)
  <2>1. PICK nothing : nothing = <<>>
    OBVIOUS
  <2>2. /\ nothing \in Seq({list[i].provider : i \in DOMAIN list}) /\ DOMAIN nothing = {}
        /\ Range(nothing) = {}
    BY <2>1 DEF Range
  <2>3. NoCatalog.options = nothing /\ NoCatalog.bySlug = nothing /\ NoCatalog.byName = nothing
    BY <2>1 DEF NoCatalog
  <2>4. QED
    BY <2>2, <2>3 DEF Catalogued, NoRepeats
<1>3. ASSUME NEW k \in 1..n, NEW cat, Catalogued(list, k - 1, cat)
      PROVE  Catalogued(list, k, RegisterStep(0, 0, cat, list[k]))
  <2>1. PICK e : e = list[k]
    OBVIOUS
  <2>2. Catalogued(list, k, Register(cat, e))
    BY <1>1, <1>3, <2>1, RegisterGoesOn
  <2>3. QED
    BY <2>1, <2>2 DEF RegisterStep
<1>4. Catalogued(list, n, RegisterFold!Result(0, 0, NoCatalog, list))
  BY <1>1, <1>2, <1>3, RegisterFold!FoldKeeps
<1>5. FoldLeft(Register, NoCatalog, list) = RegisterFold!Result(0, 0, NoCatalog, list)
  BY DEF RegisterStep, RegisterFold!Result, FoldLeft, MapThenFoldSet,
         RegisterFold!MapThenFoldSet, Max, RegisterFold!Highest
<1>6. QED
  BY <1>4, <1>5

\* What the picker offers, and what an identifier or a name stands for.
LEMMA PickerIs ==
  ASSUME NEW list, Listed(list), NEW cat, cat = NewProviderCatalog(list)
  PROVE  /\ \E U : cat.options \in Seq(U)
         /\ \A i, j \in DOMAIN cat.options : cat.options[i].id = cat.options[j].id => i = j
         /\ \A o \in Range(cat.options) :
              /\ o.id \in DOMAIN cat.bySlug /\ cat.bySlug[o.id] = o
              /\ \E p \in Range(list) : o = Entry(p).provider
         /\ \A key \in DOMAIN cat.byName : \E p \in Range(list) :
              cat.byName[key] = Entry(p).provider /\ key \in {p.name, Entry(p).provider.name}
<1>1. PICK T : T = Entries(list)
  OBVIOUS
<1>2. PICK sorted : sorted = SortBy(Sluggable(list), Before)
  OBVIOUS
<1>3. sorted \in Seq(T) /\ NoRepeats(sorted)
  BY <1>1, <1>2, SortedEntries
<1>4. PICK n \in Nat : n = Len(sorted) /\ DOMAIN sorted = 1..n /\ \A i \in 1..n : sorted[i] \in T
  BY <1>3, ElementsOf
<1>5. \A i, j \in 1..n : sorted[i].provider.tmdbID = sorted[j].provider.tmdbID => i = j
  <2>1. \A e, f \in T : e.provider.tmdbID = f.provider.tmdbID => e = f
    BY <1>1, ListedOnce
  <2>2. QED
    BY <1>3, <1>4, <2>1 DEF NoRepeats
<1>6. Catalogued(sorted, n, cat)
  BY <1>2, <1>3, <1>4, <1>5, CatalogIs DEF NewProviderCatalog
<1>7. PICK options : options = cat.options
  OBVIOUS
<1>8. options \in Seq({sorted[i].provider : i \in 1..n}) /\ NoRepeats(options)
  BY <1>4, <1>6, <1>7 DEF Catalogued
<1>9. \A o \in Range(options) : o.id \in DOMAIN cat.bySlug /\ cat.bySlug[o.id] = o
  BY <1>6, <1>7 DEF Catalogued
<1>10. PICK m \in Nat : /\ DOMAIN options = 1..m /\ Range(options) = {options[i] : i \in 1..m}
                        /\ \A i \in 1..m : options[i] \in {sorted[j].provider : j \in 1..n}
  BY <1>8, ElementsOf, Zenon
<1>11. \A i, j \in 1..m : options[i].id = options[j].id => i = j
  <2>1. \A i \in 1..m : cat.bySlug[options[i].id] = options[i]
    BY <1>9, <1>10
  <2>2. \A i, j \in 1..m : options[i] = options[j] => i = j
    BY <1>8, <1>10, Zenon DEF NoRepeats
  <2>3. QED
    BY <2>1, <2>2
<1>12. ASSUME NEW i \in 1..n
       PROVE  \E p \in Range(list) : sorted[i] = Entry(p) /\ sorted[i].rawName = p.name
  <2>1. PICK p \in Range(list) : sorted[i] = Entry(p)
    BY <1>1, <1>4 DEF Entries
  <2>2. Entry(p).rawName = p.name
    BY ListedOnce, EntryIs
  <2>3. QED
    BY <2>1, <2>2
<1>13. ASSUME NEW o \in Range(options)
       PROVE  \E p \in Range(list) : o = Entry(p).provider
  <2>1. PICK j \in 1..n : o = sorted[j].provider
    BY <1>10
  <2>2. QED
    BY <1>12, <2>1
<1>14. ASSUME NEW key \in DOMAIN cat.byName
       PROVE  \E p \in Range(list) :
                cat.byName[key] = Entry(p).provider /\ key \in {p.name, Entry(p).provider.name}
  <2>1. PICK i \in 1..n : /\ cat.byName[key] = sorted[i].provider
                          /\ key \in {sorted[i].provider.name, sorted[i].rawName}
    BY <1>6 DEF Catalogued
  <2>2. PICK p \in Range(list) : sorted[i] = Entry(p) /\ sorted[i].rawName = p.name
    BY <1>12
  <2>3. QED
    BY <2>1, <2>2
<1>15. QED
  BY <1>7, <1>8, <1>9, <1>10, <1>11, <1>13, <1>14, Zenon

LEMMA OneElement ==
  ASSUME NEW T, NEW s \in Seq(T), Len(s) = 1, NEW x, s[1] = x
  PROVE  s = <<x>>
<1>1. PICK one : one = <<x>>
  OBVIOUS
<1>2. one \in Seq({x}) /\ Len(one) = 1 /\ one[1] = x
  BY <1>1
<1>3. PICK t : t = [i \in 1..1 |-> one[i]]
  BY Zenon
<1>4. t = one
  BY <1>2, <1>3, SameSequence
<1>5. t = [i \in 1..1 |-> s[i]]
  BY <1>2, <1>3
<1>6. t = s
  BY <1>5, SameSequence
<1>7. QED
  BY <1>1, <1>4, <1>6

LEMMA NoElement ==
  ASSUME NEW T, NEW s \in Seq(T), Range(s) = {}
  PROVE  s = <<>> /\ DOMAIN s = {}
<1>1. PICK n \in Nat : n = Len(s) /\ DOMAIN s = 1..n /\ Range(s) = {s[i] : i \in 1..n}
  BY ElementsOf
<1>2. n = 0
  <2>1. SUFFICES ASSUME n # 0
                 PROVE  FALSE
    OBVIOUS
  <2>2. 1 \in 1..n
    BY <2>1
  <2>3. s[1] \in Range(s)
    BY <1>1, <2>2
  <2>4. QED
    BY <2>3
<1>3. QED
  BY <1>1, <1>2, EmptySeq

LEMMA SetOfOne ==
  ASSUME NEW x
  PROVE  SetToSeq({x}) = <<x>> /\ SetToSeq({x}) \in Seq({x})
<1>1. IsFiniteSet({x}) /\ Cardinality({x}) = 1
  BY FS_Singleton
<1>2. PICK s : s = SetToSeq({x})
  OBVIOUS
<1>3. s \in Seq({x}) /\ Len(s) = 1
  BY <1>1, <1>2, SetAsSequence, Zenon
<1>4. s[1] = x
  BY <1>3, ElementsOf
<1>5. s = <<x>>
  BY <1>3, <1>4, OneElement
<1>6. QED
  BY <1>2, <1>3, <1>5

LEMMA SetOfNone == SetToSeq({}) = <<>> /\ \A T : SetToSeq({}) \in Seq(T)
<1>1. IsFiniteSet({})
  BY FS_EmptySet
<1>2. PICK s : s = SetToSeq({})
  OBVIOUS
<1>3. s \in Seq({}) /\ Range(s) = {}
  BY <1>1, <1>2, SetAsSequence
<1>4. s = <<>>
  BY <1>3, NoElement
<1>5. \A T : s \in Seq(T)
  BY <1>4
<1>6. QED
  BY <1>2, <1>4, <1>5

LEMMA FlattenOne ==
  ASSUME NEW T, NEW s \in Seq(T), NEW seqs, seqs = [i \in 1..1 |-> s]
  PROVE  FlattenSeq(seqs) = s
<1>1. PICK U : U = Seq(T)
  OBVIOUS
<1>2. seqs \in [1..1 -> U]
  BY <1>1
<1>3. Len(seqs) = 1
  BY <1>2, Mapped
<1>4. PICK f : f = CHOOSE g : Flattens(seqs, 1, g)
  OBVIOUS
<1>5. Flattens(seqs, 1, f)
  BY <1>4, FlattenExists
<1>6. FlattenSeq(seqs) = f[1]
  BY <1>3, <1>4 DEF FlattenSeq, Flattens
<1>7. 1 \in 1..1
  OBVIOUS
<1>8. f[1] = seqs[1]
  BY <1>5, <1>7 DEF Flattens
<1>9. QED
  BY <1>6, <1>7, <1>8

LEMMA FlattenNone ==
  ASSUME NEW seqs, seqs = <<>>
  PROVE  FlattenSeq(seqs) = <<>>
BY DEF FlattenSeq

\* An identifier that is no other's stands for the one service it is of.
LEMMA PickResolves ==
  ASSUME NEW tmdb, Listed(tmdb.providers), tmdb.status = 200, tmdb.key # Empty,
         NEW cat, cat = NewProviderCatalog(tmdb.providers),
         NEW o \in Range(cat.options),
         o.id \notin DOMAIN NumberOf,
         \A k \in Range(KnownProviders) : k.tmdbID # o.tmdbID => o.id # k.slug,
         \A p \in Range(tmdb.providers) : p.tmdbID # o.tmdbID =>
           o.id \notin {p.name, Entry(p).provider.name},
         NEW cfg, cfg.val["streaming.tmdbReadToken"] = tmdb.key,
         cfg.val["streaming.providers"] = <<Plain(o.id)>>
  PROVE  ResolveStreamingProviders(cfg, tmdb) = <<o>>
<1>1. PICK list : list = tmdb.providers /\ Listed(list)
  OBVIOUS
<1>2. PICK p \in Range(list) : o = Entry(p).provider
  BY <1>1, PickerIs
<1>3. o.id \in DOMAIN cat.bySlug /\ cat.bySlug[o.id] = o
  BY <1>1, PickerIs
<1>4. /\ o.tmdbID = p.tmdbID
      /\ \A k \in Range(KnownProviders) : k.tmdbID = p.tmdbID =>
           o = Provider(k.slug, k.name, k.tmdbID)
  BY <1>1, <1>2, ListedOnce, EntryIs
<1>5. PICK w : w = o.id
  OBVIOUS
<1>6. LookupKnownProvider(w) = {} \/ LookupKnownProvider(w) = {o}
  <2>1. \A k \in Range(KnownProviders) : k.slug = w => Provider(k.slug, k.name, k.tmdbID) = o
    BY <1>4, <1>5
  <2>2. LookupKnownProvider(w)
          = {Provider(k.slug, k.name, k.tmdbID) : k \in {k \in Range(KnownProviders) : k.slug = w}}
    BY DEF LookupKnownProvider
  <2>3. \A x \in LookupKnownProvider(w) : x = o
    BY <2>1, <2>2
  <2>4. QED
    BY <2>3
<1>7. FromCatalog(cat, w) = {o}
  <2>1. FromCatalog(cat, w) = Lookup(cat, w)
    BY <1>5 DEF FromCatalog
  <2>2. CASE w \in DOMAIN cat.byName
    <3>1. PICK q \in Range(list) :
            cat.byName[w] = Entry(q).provider /\ w \in {q.name, Entry(q).provider.name}
      BY <1>1, <2>2, PickerIs
    <3>2. q.tmdbID = o.tmdbID
      BY <1>1, <1>5, <3>1
    <3>3. q = p
      BY <1>1, <1>4, <3>2, ListedOnce
    <3>4. Lookup(cat, w) = {cat.byName[w]}
      BY <2>2 DEF Lookup
    <3>5. QED
      BY <1>2, <2>1, <3>1, <3>3, <3>4
  <2>3. CASE w \notin DOMAIN cat.byName
    <3>1. Lookup(cat, w) = {cat.bySlug[w]}
      BY <1>3, <1>5, <2>3 DEF Lookup
    <3>2. QED
      BY <1>3, <1>5, <2>1, <3>1
  <2>4. QED
    BY <2>2, <2>3
<1>8. FetchProviders(tmdb, tmdb.key) = list
  BY <1>1 DEF FetchProviders, Status
<1>9. PICK texts : texts = cfg.val["streaming.providers"] /\ texts = <<Plain(w)>>
  BY <1>5, Zenon
<1>10. DOMAIN texts = 1..1 /\ texts[1].word = w
  BY <1>9 DEF Plain
<1>11. PICK words : words = [i \in DOMAIN texts |-> texts[i].word]
  BY Zenon
<1>12. words \in Seq({w}) /\ DOMAIN words = 1..1 /\ words[1] = w /\ Range(words) = {w}
  <2>1. words \in [1..1 -> {w}] /\ words[1] = w
    BY <1>10, <1>11
  <2>2. PICK n \in Nat : n = 1
    OBVIOUS
  <2>3. PICK U : U = {w}
    BY Zenon
  <2>4. words \in [1..n -> U]
    BY <2>1, <2>2, <2>3
  <2>5. words \in Seq(U) /\ DOMAIN words = 1..n
    BY <2>4, Mapped
  <2>6. Range(words) = {words[i] : i \in DOMAIN words}
    BY DEF Range
  <2>7. QED
    BY <2>1, <2>2, <2>3, <2>5, <2>6
<1>13. PICK S : S = {v \in Range(words) : LookupKnownProvider(v) = {}}
  BY Zenon
<1>14. PICK leftover : leftover = Only(words, S)
  OBVIOUS
<1>15. PICK a : a = Each(words, LookupKnownProvider)
  OBVIOUS
<1>16. PICK b : b = Each(leftover, LAMBDA v : FromCatalog(cat, v))
  BY Zenon
<1>17. ResolveStreamingProviders(cfg, tmdb) = a \o b
  <2>1. cfg.val["streaming.tmdbReadToken"] # Empty
    OBVIOUS
  <2>2. cat = NewProviderCatalog(FetchProviders(tmdb, cfg.val["streaming.tmdbReadToken"]))
    BY <1>1, <1>8
  <2>3. texts = cfg.val["streaming.providers"]
    BY <1>9
  <2>4. ResolveStreamingProviders(cfg, tmdb)
          = IF cfg.val["streaming.tmdbReadToken"] = Empty THEN <<>> ELSE a \o b
    BY <1>11, <1>13, <1>14, <1>15, <1>16, <2>2, <2>3 DEF ResolveStreamingProviders
  <2>5. QED
    BY <2>1, <2>4
<1>18. a = SetToSeq(LookupKnownProvider(w))
  <2>1. PICK seqs : seqs = [i \in DOMAIN words |-> SetToSeq(LookupKnownProvider(words[i]))]
    BY Zenon
  <2>2. PICK s : s = SetToSeq(LookupKnownProvider(w))
    OBVIOUS
  <2>3. seqs = [i \in 1..1 |-> s]
    BY <1>12, <2>1, <2>2
  <2>4. s \in Seq({o})
    BY <1>6, <2>2, SetOfOne, SetOfNone, Zenon
  <2>5. FlattenSeq(seqs) = s
    BY <2>3, <2>4, FlattenOne
  <2>6. a = FlattenSeq(seqs)
    BY <1>15, <2>1 DEF Each
  <2>7. QED
    BY <2>2, <2>5, <2>6
<1>19. CASE LookupKnownProvider(w) = {o}
  <2>1. a = <<o>>
    <3>1. SetToSeq({o}) = <<o>>
      BY SetOfOne, Zenon
    <3>2. QED
      BY <1>18, <1>19, <3>1
  <2>2. S = {}
    BY <1>12, <1>13, <1>19
  <2>3. leftover \in Seq({w} \cap S) /\ Range(leftover) = {}
    BY <1>12, <1>14, <2>2, OnlyIs
  <2>4. DOMAIN leftover = {}
    BY <2>3, NoElement
  <2>5. PICK seqs : seqs = [i \in DOMAIN leftover |-> SetToSeq(FromCatalog(cat, leftover[i]))]
    BY Zenon
  <2>6. seqs = <<>>
    BY <2>4, <2>5
  <2>7. b = FlattenSeq(seqs)
    BY <1>16, <2>5 DEF Each
  <2>8. b = <<>>
    BY <2>6, <2>7, FlattenNone
  <2>9. <<o>> \o <<>> = <<o>>
    OBVIOUS
  <2>10. QED
    BY <1>17, <2>1, <2>8, <2>9
<1>20. CASE LookupKnownProvider(w) = {}
  <2>1. a = <<>>
    BY <1>18, <1>20, SetOfNone
  <2>2. Range(words) \subseteq S
    BY <1>12, <1>13, <1>20
  <2>3. leftover = words
    BY <1>12, <1>14, <2>2, OnlyIs
  <2>4. PICK seqs : seqs = [i \in DOMAIN leftover |-> SetToSeq(FromCatalog(cat, leftover[i]))]
    BY Zenon
  <2>5. PICK s : s = SetToSeq(FromCatalog(cat, w))
    OBVIOUS
  <2>6. seqs = [i \in 1..1 |-> s]
    BY <1>12, <2>3, <2>4, <2>5
  <2>7. s = <<o>> /\ s \in Seq({o})
    <3>1. SetToSeq({o}) = <<o>> /\ SetToSeq({o}) \in Seq({o})
      BY SetOfOne
    <3>2. s = SetToSeq({o})
      BY <1>7, <2>5, Zenon
    <3>3. QED
      BY <3>1, <3>2, Zenon
  <2>8. b = FlattenSeq(seqs)
    BY <1>16, <2>4 DEF Each
  <2>9. b = <<o>>
    <3>1. FlattenSeq(seqs) = s
      <4>1. s \in Seq({o})
        BY <2>7
      <4>2. QED
        BY <2>6, <4>1, FlattenOne
    <3>2. QED
      BY <2>7, <2>8, <3>1
  <2>10. <<>> \o <<o>> = <<o>>
    OBVIOUS
  <2>11. QED
    BY <1>17, <2>1, <2>9, <2>10
<1>21. QED
  BY <1>6, <1>19, <1>20

----------------------------------------------------------------------------
(***************************************************************************)
(* The genres, each of them once.                                          *)
(***************************************************************************)

LEMMA SetOnce ==
  ASSUME NEW S, IsFiniteSet(S)
  PROVE  NoRepeats(SetToSeq(S))
<1>1. PICK s : s = SetToSeq(S)
  OBVIOUS
<1>2. PICK n \in Nat : n = Len(s) /\ n = Cardinality(S) /\ s \in Seq(S) /\ Range(s) = S
  BY <1>1, SetAsSequence, FS_CardinalityType
<1>3. DOMAIN s = 1..n /\ Range(s) = {s[i] : i \in 1..n} /\ \A i \in 1..n : s[i] \in S
  BY <1>2, ElementsOf, Zenon
<1>4. s = [i \in 1..n |-> s[i]]
  BY <1>2, SameSequence, Zenon
<1>5. s \in Surjection(1..n, S)
  BY <1>2, <1>3, <1>4, Zenon DEF Surjection
<1>6. IsFiniteSet(1..n) /\ Cardinality(1..n) = Cardinality(S)
  BY <1>2, NumbersUpTo
<1>7. s \in Injection(1..n, S)
  BY <1>5, <1>6, FS_SurjSameCardinalityImpliesInj
<1>8. NoRepeats(s)
  BY <1>3, <1>7 DEF NoRepeats, Injection, IsInjective
<1>9. QED
  BY <1>1, <1>8

\* The sort of the genres, as a fold.
GenreStep(none, nothing, sorted, g) == Insert(sorted, g, LAMBDA a, b : Rank[a] < Rank[b])
GenreFold == INSTANCE FoldTheorems WITH Step <- GenreStep, Inv <- SortInv

LEMMA GenresSorted ==
  ASSUME NEW T, NEW list \in Seq(T)
  PROVE  Rearranged(T, list, Len(list), SortBy(list, LAMBDA a, b : Rank[a] < Rank[b]))
<1>1. /\ Len(list) \in Nat /\ DOMAIN list = 1..Len(list)
      /\ \A i \in 1..Len(list) : list[i] \in T
  BY ElementsOf
<1>2. PICK R : R = {p \in T \X T : Rank[p[1]] < Rank[p[2]]}
  BY Zenon
<1>3. PICK about : about = [type |-> T, order |-> R, list |-> list]
  BY Zenon
<1>4. SortInv(about, 0, <<>>)
  BY SortBegins
<1>5. ASSUME NEW k \in 1..Len(list), NEW held, SortInv(about, k - 1, held)
      PROVE  SortInv(about, k, GenreStep(0, 0, held, list[k]))
  <2>1. PICK x \in T : x = list[k]
    BY <1>1
  <2>2. \A i \in DOMAIN held : held[i] \in T
    BY <1>3, <1>5, ElementsOf DEF SortInv, Rearranged
  <2>3. PICK B : B = {i \in DOMAIN held : <<x, held[i]>> \notin R}
    BY Zenon
  <2>4. B = {i \in DOMAIN held : ~(Rank[x] < Rank[held[i]])}
    BY <1>2, <2>2, <2>3
  <2>5. GenreStep(0, 0, held, x) = InsertAt(held, 1 + Cardinality(B), x)
    BY <2>4 DEF GenreStep, Insert
  <2>6. SortInv(about, k, InsertAt(held, 1 + Cardinality(B), x))
    <3>1. k \in Nat \ {0}
      BY <1>1
    <3>2. QED
      BY <1>3, <1>5, <2>1, <2>3, <3>1, SortGoesOn, Zenon
  <2>7. QED
    BY <2>1, <2>5, <2>6
<1>6. SortInv(about, Len(list), GenreFold!Result(0, 0, <<>>, list))
  BY <1>1, <1>4, <1>5, GenreFold!FoldKeeps
<1>7. SortBy(list, LAMBDA a, b : Rank[a] < Rank[b]) = GenreFold!Result(0, 0, <<>>, list)
  BY DEF SortBy, GenreStep, GenreFold!Result, FoldLeft,
         MapThenFoldSet, GenreFold!MapThenFoldSet, Max, GenreFold!Highest
<1>8. QED
  BY <1>3, <1>6, <1>7, Zenon DEF SortInv

\* The genres TMDB knows, each once.
LEMMA DefaultGenres ==
  ASSUME NEW genres, genres = DefaultAvailableFilters.genres
  PROVE  genres \in Seq(DOMAIN GenreIDs) /\ NoRepeats(genres) /\ Range(genres) = Range(GenreNames)
<1>1. PICK S : S = Range(GenreNames)
  OBVIOUS
<1>2. IsFiniteSet(S) /\ S \subseteq DOMAIN GenreIDs
  <2>1. PICK D : D = DOMAIN GenreNames
    OBVIOUS
  <2>2. IsFiniteSet(D) /\ S = {GenreNames[n] : n \in D}
    BY <1>1, <2>1, GenresAssumption DEF Range
  <2>3. PICK names : names = [n \in D |-> GenreNames[n]]
    BY Zenon
  <2>4. names \in Surjection(D, S)
    BY <2>2, <2>3 DEF Surjection
  <2>5. IsFiniteSet(S)
    BY <2>2, <2>4, FS_Surjection
  <2>6. QED
    BY <1>1, <2>1, <2>2, <2>5, GenresAssumption
<1>3. PICK list : list = SetToSeq(S)
  OBVIOUS
<1>4. list \in Seq(S) /\ Range(list) = S /\ NoRepeats(list)
  BY <1>2, <1>3, SetAsSequence, SetOnce
<1>5. PICK n \in Nat : n = Len(list)
  BY <1>4, ElementsOf
<1>6. genres = SortBy(list, LAMBDA a, b : Rank[a] < Rank[b])
  BY <1>1, <1>3, Zenon DEF DefaultAvailableFilters
<1>7. Rearranged(S, list, n, genres)
  BY <1>4, <1>5, <1>6, GenresSorted, Zenon
<1>8. NoRepeats(genres) /\ Range(genres) = S /\ genres \in Seq(S)
  <2>1. NoRepeats(genres) /\ Range(genres) = Range(list)
    BY <1>4, <1>5, <1>7, StillNoRepeats
  <2>2. QED
    BY <1>4, <1>7, <2>1 DEF Rearranged
<1>9. QED
  BY <1>1, <1>2, <1>8

\* The genres of a list, one for each key.
GenresInv(about, k, out) ==
  /\ out \in Seq(about.type) /\ Range(out) \subseteq {about.list[i] : i \in 1..k}
  /\ \A i, j \in DOMAIN out : CanonicalGenreKey(out[i]) = CanonicalGenreKey(out[j]) => i = j
  /\ \A i \in 1..k : \E h \in Range(out) :
       CanonicalGenreKey(h) = CanonicalGenreKey(about.list[i])

MergeGenreStep(none, nothing, genres, g) == MergeGenre(genres, g)
MergeGenreFold == INSTANCE FoldTheorems WITH Step <- MergeGenreStep, Inv <- GenresInv

LEMMA GenresMerge ==
  ASSUME NEW T, NEW list \in Seq(T), NEW out, out = FoldLeft(MergeGenre, <<>>, list)
  PROVE  /\ out \in Seq(T) /\ Range(out) \subseteq Range(list)
         /\ \A i, j \in DOMAIN out : CanonicalGenreKey(out[i]) = CanonicalGenreKey(out[j]) => i = j
         /\ \A g \in Range(list) : \E h \in Range(out) : CanonicalGenreKey(h) = CanonicalGenreKey(g)
<1>1. PICK n \in Nat : /\ n = Len(list) /\ DOMAIN list = 1..n /\ Range(list) = {list[i] : i \in 1..n}
                       /\ \A i \in 1..n : list[i] \in T
  BY ElementsOf
<1>2. PICK about : about = [type |-> T, list |-> list]
  BY Zenon
<1>3. about.type = T /\ about.list = list
  BY <1>2
<1>4. GenresInv(about, 0, <<>>)
  <2>1. PICK nothing : nothing = <<>>
    OBVIOUS
  <2>2. nothing \in Seq(T) /\ DOMAIN nothing = {} /\ Range(nothing) = {}
    BY <2>1 DEF Range
  <2>3. GenresInv(about, 0, nothing)
    BY <1>3, <2>2 DEF GenresInv
  <2>4. QED
    BY <2>1, <2>3
<1>5. ASSUME NEW k \in 1..n, NEW genres, GenresInv(about, k - 1, genres)
      PROVE  GenresInv(about, k, MergeGenreStep(0, 0, genres, list[k]))
  <2>1. /\ genres \in Seq(T) /\ Range(genres) \subseteq {list[i] : i \in 1..(k - 1)}
        /\ \A i, j \in DOMAIN genres : CanonicalGenreKey(genres[i]) = CanonicalGenreKey(genres[j]) => i = j
        /\ \A i \in 1..(k - 1) : \E h \in Range(genres) :
             CanonicalGenreKey(h) = CanonicalGenreKey(list[i])
    BY <1>3, <1>5 DEF GenresInv
  <2>2. PICK g \in T : g = list[k]
    BY <1>1
  <2>3. 1..(k - 1) \subseteq 1..k /\ k \in 1..k /\ \A i \in 1..k : i \in 1..(k - 1) \/ i = k
    OBVIOUS
  <2>4. PICK m \in Nat : m = Len(genres) /\ DOMAIN genres = 1..m /\ Range(genres) = {genres[i] : i \in 1..m}
    BY <2>1, ElementsOf
  <2>5. CASE \E i \in DOMAIN genres : CanonicalGenreKey(genres[i]) = CanonicalGenreKey(g)
    <3>1. MergeGenre(genres, g) = genres
      BY <2>5, Zenon DEF MergeGenre
    <3>2. Range(genres) \subseteq {list[i] : i \in 1..k}
      BY <2>1, <2>3
    <3>3. \A i \in 1..k : \E h \in Range(genres) :
            CanonicalGenreKey(h) = CanonicalGenreKey(list[i])
      BY <2>1, <2>2, <2>3, <2>4, <2>5, Zenon
    <3>4. GenresInv(about, k, genres)
      BY <1>3, <2>1, <3>2, <3>3 DEF GenresInv
    <3>5. QED
      BY <2>2, <3>1, <3>4 DEF MergeGenreStep
  <2>6. CASE ~\E i \in DOMAIN genres : CanonicalGenreKey(genres[i]) = CanonicalGenreKey(g)
    <3>1. PICK longer : longer = Append(genres, g)
      BY Zenon
    <3>2. MergeGenre(genres, g) = longer
      BY <2>6, <3>1, Zenon DEF MergeGenre
    <3>3. /\ longer \in Seq(T) /\ Len(longer) = m + 1 /\ Range(longer) = Range(genres) \cup {g}
          /\ \A i \in 1..m : longer[i] = genres[i]
          /\ longer[m + 1] = g
      BY <2>1, <2>4, <3>1, RangeOfAppend
    <3>4. DOMAIN longer = 1..(m + 1)
      BY <3>3, ElementsOf
    <3>5. \A i \in 1..m : CanonicalGenreKey(longer[i]) # CanonicalGenreKey(longer[m + 1])
      BY <2>4, <2>6, <3>3
    <3>6. \A i, j \in 1..m : CanonicalGenreKey(longer[i]) = CanonicalGenreKey(longer[j]) => i = j
      BY <2>1, <2>4, <3>3, Zenon
    <3>7. \A i, j \in DOMAIN longer : CanonicalGenreKey(longer[i]) = CanonicalGenreKey(longer[j]) => i = j
      <4>1. \A i \in 1..(m + 1) : i \in 1..m \/ i = m + 1
        OBVIOUS
      <4>2. QED
        BY <3>4, <3>5, <3>6, <4>1
    <3>8. Range(longer) \subseteq {list[i] : i \in 1..k}
      BY <2>1, <2>2, <2>3, <3>3
    <3>9. \A i \in 1..k : \E h \in Range(longer) :
            CanonicalGenreKey(h) = CanonicalGenreKey(list[i])
      BY <2>1, <2>2, <2>3, <3>3, Zenon
    <3>10. GenresInv(about, k, longer)
      BY <1>3, <3>3, <3>7, <3>8, <3>9, Zenon DEF GenresInv
    <3>11. QED
      BY <2>2, <3>2, <3>10 DEF MergeGenreStep
  <2>7. QED
    BY <2>5, <2>6
<1>6. GenresInv(about, n, MergeGenreFold!Result(0, 0, <<>>, list))
  BY <1>1, <1>4, <1>5, MergeGenreFold!FoldKeeps
<1>7. FoldLeft(MergeGenre, <<>>, list) = MergeGenreFold!Result(0, 0, <<>>, list)
  BY DEF MergeGenreStep, MergeGenreFold!Result, FoldLeft,
         MapThenFoldSet, MergeGenreFold!MapThenFoldSet, Max, MergeGenreFold!Highest
<1>8. GenresInv(about, n, out)
  BY <1>6, <1>7
<1>9. /\ out \in Seq(T) /\ Range(out) \subseteq {list[i] : i \in 1..n}
      /\ \A i, j \in DOMAIN out : CanonicalGenreKey(out[i]) = CanonicalGenreKey(out[j]) => i = j
      /\ \A i \in 1..n : \E h \in Range(out) : CanonicalGenreKey(h) = CanonicalGenreKey(list[i])
  BY <1>3, <1>8 DEF GenresInv
<1>10. QED
  BY <1>1, <1>9
============================================================================
