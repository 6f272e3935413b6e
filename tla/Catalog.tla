------------------------------ MODULE Catalog ------------------------------
(***************************************************************************)
(* Which streaming services a deployment offers: the view of TMDB's list   *)
(* that the picker and the resolution of configured entries share, and the *)
(* media servers and TMDB themselves, as far as a client can tell.         *)
(*                                                                         *)
(* The name of a service is the word it has in lower case.                 *)
(***************************************************************************)
EXTENDS Config

CONSTANTS
  KnownProviders, \* the built-in table: a sequence of [slug, name, tmdbID]
  Slug,           \* the slug of each name; names may share one, or have Blank
  NumberOf,       \* the words that are integers, each with its value
  Rank            \* the order of the words, for sorting

\* The table has each service once (providers.go:44-53).
ASSUME KnownAssumption ==
  /\ KnownProviders \in Seq([slug : Words, name : Words, tmdbID : Nat])
  /\ \A i, j \in DOMAIN KnownProviders :
       \/ KnownProviders[i].slug = KnownProviders[j].slug
       \/ KnownProviders[i].tmdbID = KnownProviders[j].tmdbID
       => i = j

\* Strings are ordered, and no two are level.
ASSUME RankAssumption ==
  Rank \in [Words -> Nat] /\ \A v, w \in Words : Rank[v] = Rank[w] => v = w

\* An upstream answers 200 to who has its address and its credential, unless it
\* is in trouble; 0 is no answer at all.
Status(upstream, base, key) ==
  IF base # upstream.url THEN 0
  ELSE IF upstream.status # 200 THEN upstream.status
  ELSE IF key # upstream.key THEN 401 ELSE 200

\* Only 401 and 403 are the credential's fault.
StatusFailure(status) ==
  IF status \in {401, 403} THEN "unauthorized" ELSE "unreachable"

Provider(id, name, tmdbID) == [id |-> id, name |-> name, tmdbID |-> tmdbID]

LookupKnownProvider(slug) ==
  {Provider(p.slug, p.name, p.tmdbID) : p \in {k \in Range(KnownProviders) : k.slug = slug}}

LookupKnownProviderByID(n) ==
  {Provider(p.slug, p.name, p.tmdbID) : p \in {k \in Range(KnownProviders) : k.tmdbID = n}}

\* A listed service under the identifier and the name the table gives it, with
\* its upstream spelling.
Entry(p) ==
  LET known == LookupKnownProviderByID(p.tmdbID)
  IN [provider |-> IF known = {} THEN Provider(Slug[p.name], p.name, p.tmdbID)
                   ELSE CHOOSE k \in known : TRUE,
      rawName |-> p.name, rawSlug |-> Slug[p.name]]

Before(e, f) ==
  \/ Rank[e.provider.name] < Rank[f.provider.name]
  \/ /\ e.provider.name = f.provider.name
     /\ e.provider.tmdbID < f.provider.tmdbID

NoCatalog == [options |-> <<>>, byName |-> <<>>, bySlug |-> <<>>, byID |-> <<>>]

Assign(index, key, sp) ==
  [k \in DOMAIN index \cup {key} |-> IF k = key THEN sp ELSE index[k]]

\* An alias takes a key only while it is free.
Alias(index, key, sp) == IF key \in DOMAIN index THEN index ELSE Assign(index, key, sp)

\* A service whose identifier another has stays reachable by name and number.
Register(cat, e) ==
  LET sp == e.provider
      clash == sp.id \in DOMAIN cat.bySlug /\ cat.bySlug[sp.id].tmdbID # sp.tmdbID
  IN [options |-> IF clash THEN cat.options ELSE Append(cat.options, sp),
      byName |-> Alias(Alias(cat.byName, sp.name, sp), e.rawName, sp),
      bySlug |-> IF clash THEN cat.bySlug
                 ELSE Alias(Assign(cat.bySlug, sp.id, sp), e.rawSlug, sp),
      byID |-> Assign(cat.byID, sp.tmdbID, sp)]

\* What is listed without a name to make a slug of is left out.
Sluggable(list) ==
  LET entries == [i \in DOMAIN list |-> Entry(list[i])]
  IN Only(entries, {e \in Range(entries) : e.rawSlug # Blank})

\* Mutant: the services are taken in the order TMDB lists them.
NewProviderCatalog_AsListed(list) ==
  FoldLeft(Register, NoCatalog, Sluggable(list))

NewProviderCatalog(list) ==
  FoldLeft(Register, NoCatalog, SortBy(Sluggable(list), Before))

\* By exact name, then by identifier: the service in a set, or none.
Lookup(cat, word) ==
  IF word \in DOMAIN cat.byName THEN {cat.byName[word]}
  ELSE IF word \in DOMAIN cat.bySlug THEN {cat.bySlug[word]} ELSE {}

\* A number needs no name to be of use.  It is its identifier, with a prefix.
ByNumber(cat, word) ==
  LET n == NumberOf[word]
  IN IF n \in DOMAIN cat.byID THEN cat.byID[n] ELSE Provider(word, word, n)

\* What the entries left over by the table stand for; TMDB's list is empty if it
\* could not be had.
FromCatalog(cat, word) ==
  IF word \in DOMAIN NumberOf THEN {ByNumber(cat, word)} ELSE Lookup(cat, word)

FetchProviders(tmdb, token) ==
  IF Status(tmdb, tmdb.url, token) = 200 THEN tmdb.providers ELSE <<>>

\* The words of a sequence each replaced by the services in a set of at most one.
Each(words, Found(_)) == FlattenSeq([i \in DOMAIN words |-> SetToSeq(Found(words[i]))])

\* Those of the table first, in their order, then the others in theirs.
ResolveStreamingProviders(cfg, tmdb) ==
  LET token == cfg.val["streaming.tmdbReadToken"]
      words == [i \in DOMAIN cfg.val["streaming.providers"] |->
                  cfg.val["streaming.providers"][i].word]
      cat == NewProviderCatalog(FetchProviders(tmdb, token))
      leftover == Only(words, {w \in Range(words) : LookupKnownProvider(w) = {}})
  IN IF token = Empty THEN <<>>
     ELSE Each(words, LookupKnownProvider) \o Each(leftover, LAMBDA w : FromCatalog(cat, w))

=============================================================================
