-------------------------------- MODULE Shoe --------------------------------
(***************************************************************************)
(* What the selected sources answer to the host's filters: the candidates  *)
(* for a deck, the values the filters may take, and what failed.           *)
(*                                                                         *)
(* A film is a record of what the filters ask about.  Its tmdb is the word *)
(* of its TMDB id, or Absent.  TMDB draws pages at random and so does the  *)
(* cut to a source's depth: a search is the set of its possible results,   *)
(* without order, and a library is never deeper than its cut.              *)
(***************************************************************************)
EXTENDS Sources

CONSTANTS
  GenreIDs,           \* TMDB's id for each genre name it knows, ids are words
  GenreNames,         \* the canonical name of each of those ids
  Certifications,     \* the ratings TMDB knows, in their order
  PageSize,           \* results on a page of TMDB's
  PagesPerProvider,   \* pages sampled for one query
  MaxSampledPages     \* the pages the sample is drawn from

ASSUME PagesAssumption ==
  /\ PageSize \in Nat \ {0} /\ MaxSampledPages \in Nat
  /\ PagesPerProvider \in 1..MaxSampledPages

ASSUME CertificationsAssumption ==
  Certifications \in Seq(Range(Certifications)) /\ Absent \notin Range(Certifications)

\* The name of an id is one that has this id (tmdb.go:402-411).
ASSUME GenresAssumption ==
  /\ IsFiniteSet(DOMAIN GenreNames)
  /\ \A n \in DOMAIN GenreNames :
       GenreNames[n] \in DOMAIN GenreIDs /\ GenreIDs[GenreNames[n]] = n

Least(a, b) == IF a < b THEN a ELSE b

----------------------------------------------------------------------------
(***************************************************************************)
(* The filters as each upstream is asked them.                             *)
(***************************************************************************)

\* Every year from one bound to the other; a missing bound is the other one.
YearsList(min, max) ==
  LET a == IF min = 0 THEN max ELSE min
      b == IF max = 0 THEN min ELSE max
  IN IF a > b THEN b..a ELSE a..b

Query(f, scope, floor, unwatched) ==
  [scope |-> scope, genres |-> f.genres,
   years |-> IF f.yearMin > 0 \/ f.yearMax > 0 THEN YearsList(f.yearMin, f.yearMax) ELSE {},
   floor |-> floor, ratings |-> f.ratings, unwatched |-> unwatched]

\* Filters.apply, for a source's own library whatever the request says.
Apply(f, src) == Query(f, src.scope, f.ratingMin, f.unwatched /\ src.unwatched)

\* Filters.applyPlex: Plex has no least rating.
ApplyPlex(f, section) == Query(f, section, 0, f.unwatched)

Film(src, film) ==
  [id |-> IF film.tmdb # Absent THEN <<"tmdb", film.tmdb>> ELSE <<src.service, film.item>>,
   poster |-> <<src.id, film.item>>,
   badges |-> <<src.id>>]

Found(movies) == [status |-> 200, movies |-> movies]
Failed(status) == [status |-> status, movies |-> <<>>]

\* The films of a media server that a query is for: one library's, or all.
Matching(server, q) ==
  Only(server.films, {m \in Range(server.films) :
    /\ q.scope \in {Empty, m.library}
    /\ q.genres = {} \/ m.genres \cap q.genres # {}
    /\ q.years = {} \/ m.year \in q.years
    /\ m.score >= q.floor
    /\ q.ratings = {} \/ m.rating \in q.ratings
    /\ q.unwatched => ~m.watched})

JellyfinMovies(src, f, server) ==
  LET status == Status(server, src.base, src.key)
      films == Matching(server, Apply(f, src))
  IN IF status # 200 THEN Failed(status)
     ELSE Found([i \in DOMAIN films |-> Film(src, films[i])])

\* A source over all of a Plex looks for its section.
Discovers(src) == src.service = "plex" /\ src.scope = Empty

\* movieSection: the source's own; what it remembers of having looked for one, a
\* failure too; or the first the server has, if any.
MovieSection(src, server, known) ==
  LET status == Status(server, src.base, src.key)
  IN IF src.scope # Empty THEN [status |-> 200, section |-> src.scope]
     ELSE IF known # Absent THEN known
     ELSE IF status # 200 THEN [status |-> status, section |-> Empty]
     ELSE IF MovieLibraries(server) = <<>> THEN [status |-> 0, section |-> Empty]
     ELSE [status |-> 200, section |-> MovieLibraries(server)[1].id]

\* What is remembered when these sources have looked.
Remembered(srcs, server, known) ==
  LET looking == {src \in Range(srcs) : Discovers(src)}
  IN IF looking = {} THEN known
     ELSE MovieSection(CHOOSE src \in looking : TRUE, server, known)

\* A section that the server does not have is not found.
SectionStatus(src, section, server) ==
  LET status == Status(server, src.base, src.key)
  IN IF status # 200 THEN status
     ELSE IF \E l \in Range(server.libs) : l.id = section THEN 200 ELSE 404

\* A section the request names goes before the source's own, and the least
\* rating is applied to what comes back.
PlexMovies(src, f, server, known) ==
  LET own == IF f.libraryId # Empty THEN [status |-> 200, section |-> f.libraryId]
             ELSE MovieSection(src, server, known)
      status == IF own.status # 200 THEN own.status
                ELSE SectionStatus(src, own.section, server)
      films == Only(Matching(server, ApplyPlex(f, own.section)),
                    {m \in Range(server.films) : m.score >= f.ratingMin})
  IN IF status # 200 THEN Failed(status)
     ELSE Found([i \in DOMAIN films |-> Film(src, films[i])])

MapGenres(genres) == {GenreIDs[g] : g \in genres \cap DOMAIN GenreIDs}
MapCertifications(ratings) == ratings \cap Range(Certifications)

\* One query of the service, for one certification or for none, by popularity.
Discover(src, f, cert, tmdb) ==
  Only(tmdb.films, {m \in Range(tmdb.films) :
    /\ src.scope \in m.providers
    /\ MapGenres(f.genres) = {} \/ m.genreIDs \cap MapGenres(f.genres) # {}
    /\ f.yearMin > 0 => m.year >= f.yearMin
    /\ f.yearMax > 0 => m.year <= f.yearMax
    /\ m.score >= f.ratingMin
    /\ cert = Absent \/ m.rating = cert})

TotalPages(films) == (Len(films) + PageSize - 1) \div PageSize

\* The samples that may be drawn: all there is if it is little.
SamplePages(total) ==
  kSubset(Least(PagesPerProvider, total), 1..Least(total, MaxSampledPages))

\* The films on some pages; one without a poster is not worth dealing.
OnPages(films, pages) ==
  {films[i] : i \in {j \in DOMAIN films :
                       /\ ((j - 1) \div PageSize) + 1 \in pages /\ films[j].poster}}

\* Mutant: what TMDB knows nothing of is left out of the query.
Certs_Widened(f) ==
  IF MapCertifications(f.ratings) = {} THEN {Absent} ELSE MapCertifications(f.ratings)

\* The certifications to ask for, one query each: none at all if what the host
\* chose means nothing to TMDB.
Certs(f) ==
  IF \/ f.genres # {} /\ MapGenres(f.genres) = {}
     \/ f.ratings # {} /\ MapCertifications(f.ratings) = {}
    THEN {}
  ELSE IF f.ratings = {} THEN {Absent} ELSE MapCertifications(f.ratings)

\* The pages that may be drawn for each certification, and the films on them.
Draws(src, f, tmdb) ==
  {d \in [Certs(f) -> SUBSET (1..MaxSampledPages)] :
     \A c \in Certs(f) : d[c] \in SamplePages(TotalPages(Discover(src, f, c, tmdb)))}

Pool(src, f, tmdb, d) == UNION {OnPages(Discover(src, f, c, tmdb), d[c]) : c \in Certs(f)}

\* What is in the pool, cut to depth.
Hands(pool) == kSubset(Least(PagesPerProvider * PageSize, Cardinality(pool)), pool)

\* The possible results: a sample for each certification, together cut to depth.
TMDBSearch(src, f, tmdb) ==
  LET status == Status(tmdb, src.base, src.key)
  IN IF Certs(f) # {} /\ status # 200 THEN {Failed(status)}
     ELSE {Found(SetToSeq({Film(src, m) : m \in hand})) :
             hand \in UNION {Hands(Pool(src, f, tmdb, d)) : d \in Draws(src, f, tmdb)}}

Searches(src, f, world, known) ==
  CASE src.service = "jellyfin" -> {JellyfinMovies(src, f, world.jellyfin)}
    [] src.service = "plex" -> {PlexMovies(src, f, world.plex, known)}
    [] src.service = "tmdb" -> TMDBSearch(src, f, world.tmdb)

----------------------------------------------------------------------------
(***************************************************************************)
(* The merge.                                                              *)
(***************************************************************************)

AppendAvailability(base, extra) ==
  FoldLeft(LAMBDA b, e : IF Contains(b, e) THEN b ELSE Append(b, e), base, extra)

\* Mutant: whichever copy comes first is kept as it is.
MergeOne_First(merged, m) ==
  IF \E i \in DOMAIN merged : merged[i].id = m.id THEN merged ELSE Append(merged, m)

\* A film that is there already is given the badges of the new copy.
MergeOne(merged, m) ==
  IF \E i \in DOMAIN merged : merged[i].id = m.id
    THEN [i \in DOMAIN merged |->
            IF merged[i].id = m.id
              THEN [merged[i] EXCEPT !.badges = AppendAvailability(@, m.badges)] ELSE merged[i]]
    ELSE Append(merged, m)

MergeMovies(sets) == FoldLeft(MergeOne, <<>>, FlattenSeq(sets))

\* Mutant: of what failed, the first is named.
ProblemsOf_First(srcs, results) ==
  LET failed == {i \in DOMAIN srcs : results[i].status # 200}
  IN IF failed = {} THEN <<>>
     ELSE LET i == CHOOSE j \in failed : \A k \in failed : j <= k
          IN <<SourceProblem(srcs[i], results[i].status)>>

ProblemsOf(srcs, results) ==
  LET failed == Only([i \in DOMAIN srcs |-> i], {i \in DOMAIN srcs : results[i].status # 200})
  IN [j \in DOMAIN failed |-> SourceProblem(srcs[failed[j]], results[failed[j]].status)]

AllFailed(results) == \A i \in DOMAIN results : results[i].status # 200

\* gatherShoe: a result for every source, in each way they may come out.
Gathered(srcs, f, world, known) ==
  {r \in [DOMAIN srcs -> UNION {Searches(s, f, world, known) : s \in Range(srcs)}] :
     \A i \in DOMAIN srcs : r[i] \in Searches(srcs[i], f, world, known)}

\* All that was asked failed.  Without a source there is nothing to fail.
NothingAnswered(srcs, results) == srcs # <<>> /\ AllFailed(results)

\* handleLibraryPreview.  A request that nothing answered gets a line of text,
\* without a film and without a problem; srcs and results are not sent.
Preview(set, f, world, known) ==
  LET srcs == SelectSources(set.order, f.sources)
      Sent(r, body) == IF NothingAnswered(srcs, r) THEN <<>> ELSE body
  IN {[code |-> IF NothingAnswered(srcs, r) THEN 502 ELSE 200,
       srcs |-> srcs, results |-> r,
       movies |-> Sent(r, MergeMovies([i \in DOMAIN r |-> r[i].movies])),
       problems |-> Sent(r, ProblemsOf(srcs, r) \o PendingProblems(set.pending))] :
        r \in Gathered(srcs, f, world, known)}

\* handleLibraryWarm, which fails without a source too.
WarmCode(results) == IF AllFailed(results) THEN 502 ELSE 200

----------------------------------------------------------------------------
(***************************************************************************)
(* The vocabulary of the filters.                                          *)
(***************************************************************************)

\* Mutant: a genre goes by its name alone.
CanonicalGenreKey_Name(name) == name

CanonicalGenreKey(name) == IF name \in DOMAIN GenreIDs THEN GenreIDs[name] ELSE name

\* A service's whole vocabulary is TMDB's.
DefaultAvailableFilters ==
  [genres |-> SortBy(SetToSeq(Range(GenreNames)), LAMBDA a, b : Rank[a] < Rank[b]),
   ratings |-> Certifications]

\* What the films of a library have.
Shelf(server, scope) ==
  LET films == Matching(server, [scope |-> scope, genres |-> {}, years |-> {}, floor |-> 0,
                                 ratings |-> {}, unwatched |-> FALSE])
  IN [genres |-> SetToSeq(UNION {m.genres : m \in Range(films)}),
      ratings |-> SetToSeq({m.rating : m \in Range(films)})]

\* TMDB's vocabulary is known without asking it, and Plex is asked for a section's.
VocabularyOf(src, world, known) ==
  LET server == world[src.service]
      own == MovieSection(src, server, known)
  IN CASE src.service = "tmdb" -> [status |-> 200, filters |-> DefaultAvailableFilters]
       [] src.service = "jellyfin" ->
            [status |-> Status(server, src.base, src.key), filters |-> Shelf(server, src.scope)]
       [] src.service = "plex" ->
            [status |-> IF own.status # 200 THEN own.status
                        ELSE SectionStatus(src, own.section, server),
             filters |-> Shelf(server, own.section)]

\* The first name of a genre is the one that is offered.
MergeGenre(genres, g) ==
  IF \E i \in DOMAIN genres : CanonicalGenreKey(genres[i]) = CanonicalGenreKey(g)
    THEN genres ELSE Append(genres, g)

\* handleLibraryFilters, with gatherVocabulary.  If nothing answered, this too is
\* a line of text.
LibraryFilters(set, requested, world, known) ==
  LET srcs == SelectSources(set.order, requested)
      results == [i \in DOMAIN srcs |-> VocabularyOf(srcs[i], world, known)]
      ok == Only(results, {r \in Range(results) : r.status = 200})
      Sent(body) == IF NothingAnswered(srcs, results) THEN <<>> ELSE body
  IN [code |-> IF NothingAnswered(srcs, results) THEN 502 ELSE 200,
      srcs |-> srcs, results |-> results,
      genres |-> IF srcs = <<>> THEN DefaultAvailableFilters.genres
                 ELSE FoldLeft(MergeGenre, <<>>,
                               FlattenSeq([i \in DOMAIN ok |-> ok[i].filters.genres])),
      ratings |-> IF srcs = <<>> THEN DefaultAvailableFilters.ratings
                  ELSE AppendAvailability(<<>>, FlattenSeq([i \in DOMAIN ok |-> ok[i].filters.ratings])),
      sources |-> Sent(ConfiguredSources(set.order)),
      problems |-> Sent(ProblemsOf(srcs, results) \o PendingProblems(set.pending))]

=============================================================================
