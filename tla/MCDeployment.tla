---------------------------- MODULE MCDeployment ----------------------------
(***************************************************************************)
(* A small world for Deployment: a Jellyfin with two libraries of one      *)
(* name, a Plex with two movie sections, and six services at TMDB.         *)
(***************************************************************************)
EXTENDS Deployment

Listing == <<Blank, "localhost", "4h", "8h", "us", "junk", "jf.url", "px.url", "jf.key", "px.key",
           "tm.key", "old.key", "user", "amc", "amc+", "apple tv", "apple tv+",
           "amazon prime video", "netflix", "prime", "disney", "apple",
           "apple-tv", "amazon-prime-video", "action", "drama", "home", "sci-fi",
           "science fiction", "films", "kids", "hexa", "hexb", "hexc", "1", "2", "80">>

MCWords == Range(Listing)
MCRank == [w \in Range(Listing) |-> CHOOSE i \in DOMAIN Listing : Listing[i] = w]
MCURLs == {"localhost", "jf.url", "px.url"}
MCHexIDs == {"hexa", "hexb", "hexc"}
MCNumberOf == [w \in {"1", "2", "80"} |-> CASE w = "1" -> 1 [] w = "2" -> 2 [] w = "80" -> 80]

MCKnown == <<[slug |-> "netflix", name |-> "netflix", tmdbID |-> 8],
             [slug |-> "prime", name |-> "prime", tmdbID |-> 9],
             [slug |-> "apple", name |-> "apple tv+", tmdbID |-> 350]>>

MCSlug == [n \in {"netflix", "prime", "amazon prime video", "apple tv", "apple tv+", "amc", "amc+"} |->
             CASE n \in {"apple tv", "apple tv+"} -> "apple-tv"
               [] n \in {"amc", "amc+"} -> "amc"
               [] n = "amazon prime video" -> "amazon-prime-video"
               [] OTHER -> n]

Listed(name, n) == [name |-> name, tmdbID |-> n]

\* Genres 28 and 878; "home" is one that only a library has.
MCGenreIDs == [g \in {"action", "sci-fi", "science fiction"} |-> IF g = "action" THEN "28" ELSE "878"]
MCGenreNames == [i \in {"28", "878"} |-> IF i = "28" THEN "action" ELSE "science fiction"]

MCCertifications == <<"PG", "R">>

Lib(id, name, movies) == [id |-> Plain(id), name |-> name, movies |-> movies]
Kids == [word |-> "kids", spaced |-> FALSE, upper |-> TRUE]

LocalFilm(item, tmdb, library, genre, year, score, watched) ==
  [item |-> item, tmdb |-> tmdb, library |-> Plain(library), genres |-> {genre}, year |-> year,
   score |-> score, rating |-> IF year = 1 THEN "PG" ELSE "unrated", watched |-> watched]

StreamedFilm(tmdb, ids, year, providers, poster) ==
  [item |-> tmdb, tmdb |-> tmdb, genreIDs |-> ids, year |-> year, score |-> 2,
   rating |-> IF year = 1 THEN "PG" ELSE "R", providers |-> providers, poster |-> poster]

MCWorld ==
  [jellyfin |->
     [url |-> Plain("jf.url"), key |-> Plain("jf.key"), status |-> 200,
      libs |-> <<Lib("hexb", Plain("kids"), TRUE), Lib("hexa", Kids, TRUE),
                 Lib("hexc", Plain("home"), FALSE)>>,
      films |-> <<LocalFilm("j1", "t1", "hexa", "sci-fi", 1, 2, TRUE),
                  LocalFilm("j2", Absent, "hexb", "home", 2, 1, FALSE)>>,
      users |-> <<Library(Plain("user"), Plain("home"))>>],
   plex |->
     [url |-> Plain("px.url"), key |-> Plain("px.key"), status |-> 200,
      libs |-> <<Lib("2", Plain("films"), TRUE), Lib("80", Plain("home"), FALSE),
                 Lib("1", Plain("kids"), TRUE)>>,
      films |-> <<LocalFilm("p1", "t1", "2", "sci-fi", 1, 2, FALSE),
                  LocalFilm("p2", "t2", "2", "action", 2, 1, FALSE)>>],
   tmdb |->
     [url |-> Empty, key |-> Plain("tm.key"), status |-> 200,
      providers |-> <<Listed("apple tv+", 350), Listed("amc+", 81), Listed("netflix", 8),
                      Listed("amc", 80), Listed("apple tv", 2), Listed("amazon prime video", 9)>>,
      films |-> <<StreamedFilm("t1", {"878"}, 1, {8, 350}, TRUE),
                  StreamedFilm("t3", {"878"}, 2, {8}, FALSE),
                  StreamedFilm("t4", {"28"}, 2, {8, 80}, TRUE),
                  StreamedFilm("t2", {"28"}, 2, {8}, TRUE),
                  StreamedFilm("t5", {"28"}, 1, {8}, TRUE)>>]]

\* All is well; nothing answers; each upstream refuses or fails on its own.
Status3(j, p, t) == [jellyfin |-> j, plex |-> p, tmdb |-> t]
MCOutages == {Status3(200, 200, 200), Status3(0, 0, 0), Status3(403, 200, 500)}

NoEnv == [k \in Keys \ Toggles |-> IF k \in Lists THEN <<>> ELSE Empty]

JellyfinEnv == ("jellyfin.url" :> Plain("jf.url")) @@ ("jellyfin.apiKey" :> Plain("jf.key"))
PlexEnv == ("plex.url" :> Plain("px.url")) @@ ("plex.token" :> Plain("px.key"))
TMDBEnv == ("streaming.tmdbReadToken" :> Plain("tm.key"))
Shouted(w) == [word |-> w, spaced |-> TRUE, upper |-> TRUE]

\* Nothing set; one Jellyfin, with a user; libraries by name with a typo among
\* them, and services by number, old slug and name; Plex with the old variable,
\* a credential that is refused, and one that is only spaces.
MCEnvs ==
  {NoEnv,
   JellyfinEnv @@ ("jellyfin.userId" :> Plain("user")) @@ TMDBEnv @@ NoEnv,
   JellyfinEnv @@ PlexEnv @@ TMDBEnv
     @@ ("jellyfin.libraries" :> <<Shouted("kids"), Plain("hexb"), Plain("junk")>>)
     @@ ("plex.libraries" :> <<Shouted("films"), Plain("1")>>)
     @@ ("streaming.providers" :> <<Plain("80"), Shouted("apple tv+"), Plain("amazon-prime-video"),
                                  Plain("amc")>>)
     @@ NoEnv,
   PlexEnv @@ ("plex.librarySection" :> Plain("2")) @@ ("jellyfin.url" :> Plain("jf.url"))
     @@ ("jellyfin.apiKey" :> Plain("old.key"))
     @@ ("streaming.tmdbReadToken" :> [word |-> Blank, spaced |-> TRUE, upper |-> FALSE]) @@ NoEnv}

\* No file, and one written by hand, with an entry that has no identifier and
\* a service whose only entry is a name that no library has.
MCFiles ==
  {NoFile,
   [keys |-> ("jellyfin.libraries" :> <<Library(Plain("hexa"), Kids), Library(Absent, Plain("kids"))>>)
               @@ ("plex.token" :> Plain("px.key")) @@ ("plex.url" :> Plain("px.url"))
               @@ ("plex.libraries" :> <<Library(Plain("junk"), Absent)>>)
               @@ ("publicUrl" :> Empty) @@ NoFile.keys,
    streaming |-> TRUE]}

MCEdits ==
  {<<>>,
   "publicUrl" :> Plain("px.url"), "publicUrl" :> Plain("junk"), "sessionTtl" :> Plain("8h"),
   "jellyfin.url" :> Plain("px.url"), "jellyfin.apiKey" :> Plain("old.key"),
   "jellyfin.apiKey" :> Empty, "jellyfin.libraries" :> <<>>,
   "jellyfin.libraries" :> <<Kids, Plain("hexa")>>, "plex.libraries" :> <<Plain("2")>>,
   "jellyfin.enabled" :> FALSE, "plex.enabled" :> TRUE,
   ("jellyfin.enabled" :> FALSE) @@ ("publicUrl" :> Plain("px.url")),
   ("plex.url" :> Plain("px.url")) @@ ("plex.token" :> Plain("px.key")) @@ ("plex.enabled" :> TRUE),
   ("streaming.tmdbReadToken" :> Plain("tm.key")) @@ ("streaming.providers" :> <<Shouted("amc")>>)
     @@ ("streaming.enabled" :> TRUE),
   "streaming.providers" :> <<>>, "streaming.watchRegion" :> Plain("us")}

AnyOf(sources) ==
  [genres |-> {}, yearMin |-> 0, yearMax |-> 0, ratingMin |-> 0, ratings |-> {},
   unwatched |-> FALSE, libraryId |-> Empty, sources |-> sources]

Everything ==
  {<<"jellyfin">>, <<"jellyfin", Plain("hexa")>>, <<"plex">>, <<"plex", Plain("2")>>,
   <<"netflix">>, <<"apple">>, <<"amc">>}

MCFilters ==
  {AnyOf({}), AnyOf(Everything), AnyOf({<<"netflix">>}),
   [AnyOf(Everything) EXCEPT !.genres = {"sci-fi"}, !.yearMin = 1],
   [AnyOf(Everything) EXCEPT !.genres = {"home"}],
   [AnyOf(Everything) EXCEPT !.yearMin = 1, !.yearMax = 2, !.ratingMin = 2, !.unwatched = TRUE],
   [AnyOf(Everything) EXCEPT !.ratings = {"PG", "R"}],
   [AnyOf(Everything) EXCEPT !.ratings = {"unrated"}, !.libraryId = Plain("1")]}

Candidate(url, secret, section) ==
  [url |-> url, secret |-> secret, section |-> section, region |-> Empty]

MCCandidates ==
  {Candidate(Empty, Empty, Empty),
   Candidate(Plain("jf.url"), Plain("jf.key"), Empty),
   Candidate(Plain("px.url"), Plain("px.key"), Plain("80")),
   Candidate(Plain("px.url"), Plain("px.key"), Plain("1")),
   Candidate(Empty, Plain("tm.key"), Empty)}

=============================================================================
