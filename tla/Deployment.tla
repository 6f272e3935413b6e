----------------------------- MODULE Deployment -----------------------------
(***************************************************************************)
(* One server process after another over one configuration file: saves     *)
(* from the settings screen, restarts, the resolution of named libraries,  *)
(* and the requests that a source set answers.  Saves do not overlap here. *)
(***************************************************************************)
EXTENDS Checks

CONSTANTS
  World,        \* the media servers and TMDB
  Outages,      \* for each upstream the status it is in trouble with, or 200
  Files, Envs,  \* what the configuration may start as
  Edits,        \* what is edited before one save: for some keys, values, or
                \* identifiers for the library picker
  Filters,      \* filters a host asks with
  Candidates,   \* values to check: [url, secret, section, region]
  NoAnswer,
  MaxSaves,     \* bound: saves in a behaviour
  MaxAsking     \* bound: requests are made only up to this many saves

ASSUME FilesAssumption == \A f \in Files : IsFile(f)
ASSUME EnvsAssumption == \A e \in Envs : IsEnv(e)
ASSUME EditsAssumption ==
  \A e \in Edits : \A k \in DOMAIN e \cap Keys :
    e[k] \in IF k \in LibraryLists THEN Seq(Texts) ELSE ValuesOf(k)

\* TMDB has one address, which is not configured, knows its films by number, lists
\* a service once, and is well: when it is not, an outage says so.  A film has
\* some genres, none of them called by a number of TMDB's (sources.go:172-177).
ASSUME WorldAssumption ==
  /\ DOMAIN World = {"jellyfin", "plex", "tmdb"}
  /\ \A u \in DOMAIN World :
       /\ {"url", "key", "status", "films"} \subseteq DOMAIN World[u]
       /\ World[u].films \in Seq(Range(World[u].films))
       /\ \A m \in Range(World[u].films) : m.year \in Nat /\ m.score \in Nat
  /\ \A s \in Range(Services) :
       /\ "libs" \in DOMAIN World[s]
       /\ World[s].libs \in Seq(ListedLibraries)
       /\ \A m \in Range(World[s].films) :
            IsFiniteSet(m.genres) /\ m.genres \cap Range(GenreIDs) = {}
  /\ World.tmdb.url = Empty /\ World.tmdb.status = 200
  /\ "providers" \in DOMAIN World.tmdb
  /\ World.tmdb.providers \in Seq([name : Words, tmdbID : Nat])
  /\ \A i, j \in DOMAIN World.tmdb.providers :
       World.tmdb.providers[i].tmdbID = World.tmdb.providers[j].tmdbID => i = j
  /\ \A m \in Range(World.tmdb.films) : m.tmdb # Absent

\* Servers list libraries by real identifiers.  An entry that the file starts with,
\* and that has both an identifier and a name, was written by the screen: it is of
\* a server's list, or a name that the screen gave itself for a name.
IsPair(l) == l.id # Absent /\ l.name # Absent /\ ~IsBlank(l.id) /\ ~IsBlank(l.name)

RealPairs(service, entries) ==
  \A l \in Range(entries) :
    IsPair(l) => IsIdentifier(service, l.id) \/ TrimSpace(l.id) = TrimSpace(l.name)

ASSUME PairsAssumption ==
  \A s \in Range(Services) :
    /\ \A f \in Files : LET list == f.keys[LibrariesKey(s)]
                        IN list # Absent => RealPairs(s, list)
    /\ \A l \in Range(World[s].libs) : l.movies /\ l.id # Empty => IsIdentifier(s, l.id)

\* Years of the query string are any integers (filters.go:48-53).
ASSUME FiltersAssumption == \A f \in Filters : f.yearMin \in Int /\ f.yearMax \in Int

ASSUME MaxSavesAssumption == MaxSaves \in Nat

VARIABLES
  file,    \* the configuration file
  env,     \* the environment, which never changes
  live,    \* the configuration the process runs on
  set,     \* its source set
  discovered, \* what the set's source over all of Plex found for a section, or Absent
  cache,   \* TMDB's provider list by region
  saves,
  answer   \* the last answer given, until the next action

vars == <<file, env, live, set, discovered, cache, saves, answer>>

Upstreams(outage) == [u \in DOMAIN World |-> [World[u] EXCEPT !.status = outage[u]]]

Init ==
  /\ file \in Files /\ env \in Envs
  /\ live = Resolve(file, env)
  /\ \E o \in Outages : set = BuildSourceSet(live, Upstreams(o).tmdb)
  /\ discovered = Absent /\ cache = <<>> /\ saves = 0 /\ answer = NoAnswer

Asking == answer = NoAnswer /\ saves <= MaxAsking

\* What the screen's checks found the servers to list.  It matters only for a list
\* that is edited.
FoundOn(checked) ==
  LET Listing(k) == MovieLibraries(World[IF k = "plex.libraries" THEN "plex" ELSE "jellyfin"])
  IN [k \in LibraryLists |-> IF k \in checked THEN Listing(k) ELSE <<>>]

\* handleSetSettings with applyConfig: what is edited on top of what is shown.
Save(edit, checked, o) ==
  LET screen == Edited(Draft(live), edit, FoundOn(checked))
      merged == ApplySettings(file, BuildUpdate(screen, live))
      next == Resolve(merged, env)
      outcome == Outcome(live, next)
      Answer(code, says) == [kind |-> "save", code |-> code, says |-> says, edit |-> edit]
  IN /\ answer = NoAnswer /\ saves < MaxSaves
     /\ saves' = saves + 1
     /\ \/ /\ ValidateSettings(next) # {}
           /\ answer' = Answer(400, "invalid")
           /\ UNCHANGED <<file, live, set, discovered>>
        \/ /\ ValidateSettings(next) = {}
           /\ answer' = Answer(200, outcome)
           /\ file' = merged
           /\ live' = IF outcome = "no_change" THEN live ELSE next
           /\ set' = IF outcome = "rebuilt" THEN BuildSourceSet(next, Upstreams(o).tmdb) ELSE set
           /\ discovered' = IF outcome = "rebuilt" THEN Absent ELSE discovered
     /\ UNCHANGED <<env, cache>>

\* The process starts again: LoadConfig and buildSourceSet.
Restart(o) ==
  /\ answer = NoAnswer
  /\ live' = Resolve(file, env)
  /\ set' = BuildSourceSet(live', Upstreams(o).tmdb)
  /\ discovered' = Absent
  /\ cache' = <<>>
  /\ UNCHANGED <<file, env, saves, answer>>

\* The first request of a set that has names in it resolves them.
UseSources(o) == set' = CurrentSources(set, Upstreams(o))

\* A resolved set has new sources, which remember nothing.
Known == IF set' = set THEN discovered ELSE Absent

\* What is remembered when these sources were queried; a query that names a
\* section looks for none.
Queried(srcs, f, o) ==
  discovered' = IF f.libraryId # Empty THEN Known
                ELSE Remembered(srcs, Upstreams(o).plex, Known)

AskPreview(f, o) ==
  /\ Asking
  /\ UseSources(o)
  /\ Queried(SelectSources(set'.order, f.sources), f, o)
  /\ \E p \in Preview(set', f, Upstreams(o), Known) :
       answer' = [kind |-> "preview", f |-> f, outage |-> o, got |-> p]
  /\ UNCHANGED <<file, env, live, cache, saves>>

\* handleLibraryWarm: the posters of what it found are then warmed.
AskWarm(f, o) ==
  /\ Asking
  /\ UseSources(o)
  /\ Queried(SelectSources(set'.order, f.sources), f, o)
  /\ \E r \in Gathered(SelectSources(set'.order, f.sources), f, Upstreams(o), Known) :
       answer' = [kind |-> "warm", f |-> f, outage |-> o, code |-> WarmCode(r)]
  /\ UNCHANGED <<file, env, live, cache, saves>>

\* The response of the filters also says whether streaming is configured.
AskFilters(f, o) ==
  /\ Asking
  /\ UseSources(o)
  /\ discovered' = Remembered(SelectSources(set'.order, f.sources), Upstreams(o).plex, Known)
  /\ answer' = [kind |-> "filters", outage |-> o, streaming |-> StreamingConfigured(live),
                got |-> LibraryFilters(set', f.sources, Upstreams(o), Known)]
  /\ UNCHANGED <<file, env, live, cache, saves>>

Check(kind, req, o, verdict) ==
  answer' = [kind |-> kind, req |-> req, outage |-> o, got |-> verdict]

AskVerify(req, o) ==
  LET up == Upstreams(o)
  IN /\ Asking
     /\ \/ /\ Check("jellyfin", req, o, VerifyJellyfin(req, live, up.jellyfin))
           /\ UNCHANGED cache
        \/ /\ Check("users", req, o, JellyfinUsers(req, live, up.jellyfin))
           /\ UNCHANGED cache
        \/ /\ Check("plex", req, o, VerifyPlex(req, live, up.plex))
           /\ UNCHANGED cache
        \/ LET v == VerifyTMDB(req, live, cache, up.tmdb)
           IN Check("tmdb", req, o, v.verdict) /\ cache' = v.cache
     /\ UNCHANGED <<file, env, live, set, discovered, saves>>

AskProviders(req, o) ==
  LET got == ProviderList(req, live, cache, Upstreams(o).tmdb)
  IN /\ Asking
     /\ Check("providers", req, o, [code |-> got.code, options |-> got.options])
     /\ cache' = got.cache
     /\ UNCHANGED <<file, env, live, set, discovered, saves>>

\* An entry of the cache grows too old.
Expire ==
  /\ answer = NoAnswer /\ cache # <<>>
  /\ cache' = <<>>
  /\ UNCHANGED <<file, env, live, set, discovered, saves, answer>>

\* The time for which a failure is remembered has passed.
RetryDue ==
  /\ answer = NoAnswer
  /\ discovered # Absent /\ discovered.status # 200
  /\ discovered' = Absent
  /\ UNCHANGED <<file, env, live, set, cache, saves, answer>>

Next ==
  \/ \E o \in Outages :
       \/ \E e \in Edits : \E checked \in SUBSET (LibraryLists \cap DOMAIN e) : Save(e, checked, o)
       \/ Restart(o)
       \/ \E f \in Filters : AskPreview(f, o) \/ AskWarm(f, o) \/ AskFilters(f, o)
       \/ \E req \in Candidates : AskVerify(req, o) \/ AskProviders(req, o)
  \/ Expire
  \/ RetryDue
  \/ /\ answer # NoAnswer
     /\ answer' = NoAnswer
     /\ UNCHANGED <<file, env, live, set, discovered, cache, saves>>

Spec == Init /\ [][Next]_vars

----------------------------------------------------------------------------
(***************************************************************************)
(* Properties.                                                             *)
(***************************************************************************)

Answered(kind) == answer # NoAnswer /\ answer.kind = kind

\* The type invariant: the live configuration is a resolved one, a set resolves
\* only names it has, and it offers no two sources under one identifier.
DeploymentTypeOK ==
  /\ DOMAIN live.val = Keys \ Toggles /\ live.disabled \subseteq Toggles
  /\ set.resolve # {} => set.pending # <<>>
  /\ Cardinality(IDs(set.order)) = Len(set.order)
  /\ saves \in 0..MaxSaves

\* A save of the screen as it was drawn changes nothing that matters and is not
\* refused, wherever the values came from and whatever was saved before:
\* settings.go:365-372 with settingsDraft.ts:66-109, the credentials included,
\* which the screen was never sent.  It is refused for one thing only: a TMDB
\* token of spaces, which is one for the screen and none for the save.
UntouchedSaveIsNeutral ==
  LET next == Resolve(ApplySettings(file, BuildUpdate(Draft(live), live)), env)
      token == live.val["streaming.tmdbReadToken"]
  IN ValidateSettings(live) = {} =>
       /\ Outcome(live, next) = "no_change"
       /\ \/ ValidateSettings(next) = {}
          \/ /\ ValidateSettings(next) = {"streaming.tmdbReadToken"}
             /\ token # Empty /\ IsBlank(token)

\* A save changes no value but those that were edited, neither in the process nor
\* for the next one: what a request leaves out survives in the file or in the
\* environment.  The switches are another matter.  Every save writes all three as
\* the screen shows them, so a service without values, which shows as off, is off
\* in the file from then on, also if the environment gives it values later; but a
\* service that shows as on is never switched off by a save that did not edit its
\* switch, and one that shows as off is never switched on by it
\* (settings.go:198-266, 438-440, config.go:209-280).
SaveChangesOnlyWhatWasEdited ==
  [][answer' # NoAnswer /\ answer'.kind = "save" =>
       /\ \A k \in (Keys \ Toggles) \ DOMAIN answer'.edit :
            live'.val[k] = live.val[k] /\ Resolve(file', env).val[k] = live.val[k]
       /\ \A k \in Toggles \ DOMAIN answer'.edit :
            /\ k \in live'.disabled => ~ShowsOn(live, k)
            /\ answer'.code = 200 =>
                 (k \in Resolve(file', env).disabled <=> ~ShowsOn(live, k))]_vars

\* A source queries with the values of a configuration.
QueriesWith(src, cfg) ==
  IF src.service = "tmdb" THEN src.key = cfg.val["streaming.tmdbReadToken"]
  ELSE LET now == Client(cfg, src.service, Library(src.scope, Empty))
       IN src.base = now.base /\ src.key = now.key /\ src.unwatched = now.unwatched

\* The values the process runs on are those a restart would find; every source
\* queries with them, and names are resolved with them: nothing is left over from
\* an older credential (sourceset.go:225-291, settings.go:180-195).
RunsWhatWasSaved ==
  /\ Resolve(file, env).val = live.val
  /\ \A src \in Range(set.order) : QueriesWith(src, live)
  /\ \A cfg \in set.resolve : ~SourcesDiffer(cfg, live)

\* A library's name gets into the identifier of a source, which is a segment of
\* the image proxy's path, in one way only: the settings screen saved it as its own
\* name, which the picker does to a name that stays chosen while another library
\* is (sourceset.go:25-31, Settings.tsx:462-466, 487-493).  Neither the environment,
\* nor resolution, nor any other save puts one there.
NamesAreNotIDs ==
  \A src \in Range(set.order) :
    src.service # "tmdb" /\ src.scope # Empty =>
      \/ IsIdentifier(src.service, src.scope)
      \/ Library(src.scope, src.scope) \in Range(Libraries(live, src.service))

\* Resolution drops no source, and every name it was for is now the source of
\* a movie library of that name, or still pending (libraryresolve.go:74-132).
ResolutionLosesNothing ==
  [][answer' # NoAnswer /\ answer'.kind \in {"preview", "filters"} =>
       /\ IDs(set.order) \subseteq IDs(set'.order)
       /\ \A p \in Range(set.pending) :
            \/ p \in Range(set'.pending)
            \/ \E src \in Range(set'.order), l \in Range(World[p.service].libs) :
                 /\ src.service = p.service /\ src.scope = l.id
                 /\ l.movies /\ Folded(l.name) = Folded(p.name)]_vars

\* Which library a name stands for does not depend on the order in which the
\* server lists them, though two may have the name (libraryresolve.go:177-180).
ResolutionIgnoresOrder ==
  CurrentSources(set, World) =
    CurrentSources(set, [World EXCEPT !.jellyfin.libs = Reverse(@), !.plex.libs = Reverse(@)])

\* What is to be fixed about a source that fails: what its upstream says now or,
\* for one that looked for its section, said when it looked.
Reasons(src, outage) ==
  LET Reason(o) == IF Status(Upstreams(o)[src.service], src.base, src.key) \in {401, 403}
                     THEN "unauthorized" ELSE "unreachable"
  IN {Reason(o) : o \in IF Discovers(src) THEN Outages \cup {outage} ELSE {outage}}

\* An answer of films is from every selected source, or reports it with what to
\* fix, and reports every library that is still only a name.  A streaming service
\* that has no more pages than are sampled contributes all that matches, so a
\* narrow filter does not come back empty.  Only if every selected source failed
\* is there no such answer: that request is refused with a line of text, which
\* names no source and no library (library.go:32-50, tmdb.go:250-256).
EverySourceAccountedFor ==
  Answered("preview") =>
    LET p == answer.got
        up == Upstreams(answer.outage)
    IN IF p.code = 502
       THEN p.srcs # <<>> /\ \A i \in DOMAIN p.srcs : p.results[i].status # 200
       ELSE
       /\ \A i \in DOMAIN p.srcs :
            LET src == p.srcs[i]
            IN /\ p.results[i].status # 200 =>
                    \E q \in Range(p.problems) :
                      q.source = src.id /\ q.reason \in Reasons(src, answer.outage)
               /\ src.service = "tmdb" /\ p.results[i].status = 200 =>
                    \A c \in Certs(answer.f) :
                      LET films == Discover(src, answer.f, c, up.tmdb)
                      IN TotalPages(films) <= PagesPerProvider /\ Cardinality(Certs(answer.f)) = 1 =>
                           \A m \in Range(films) : m.poster =>
                             \E card \in Range(p.movies) :
                               card.id = <<"tmdb", m.tmdb>> /\ src.id \in Range(card.badges)
       /\ Cardinality({i \in DOMAIN p.problems : p.problems[i].reason = "unresolved"}) = Len(set.pending)

\* A film is one card, whichever sources have it, and the badges of the card are
\* exactly the selected sources that came back with it (source.go:153-164).
BadgesExact ==
  Answered("preview") =>
    LET p == answer.got
        By(id) == {p.srcs[i].id : i \in {i \in DOMAIN p.srcs :
                     \E m \in Range(p.results[i].movies) : m.id = id}}
    IN /\ \A i, j \in DOMAIN p.movies : p.movies[i].id = p.movies[j].id => i = j
       /\ \A card \in Range(p.movies) : Range(card.badges) = By(card.id)
       /\ \A r \in Range(p.results) : \A m \in Range(r.movies) :
            \E card \in Range(p.movies) : card.id = m.id

\* A film is what the host asked for, in the source's own words for it.
Fits(m, f, src) ==
  /\ \/ f.genres = {}
     \/ /\ src.service = "tmdb"
        /\ \E g \in f.genres \cap DOMAIN GenreIDs : GenreIDs[g] \in m.genreIDs
     \/ src.service # "tmdb" /\ f.genres \cap m.genres # {}
  /\ f.ratings = {} \/ m.rating \in f.ratings
  /\ m.score >= f.ratingMin
  /\ f.yearMax = 0 \/ f.yearMin <= f.yearMax =>
       m.year >= f.yearMin /\ (f.yearMax > 0 => m.year <= f.yearMax)

\* No card is outside what the host asked for (tmdb.go:293-303, filters.go:67-95,
\* plex.go:279-291).  A year range that runs backwards is read by each source in
\* its own way.
FiltersNeverWiden ==
  Answered("preview") =>
    \A i \in DOMAIN answer.got.srcs :
      LET src == answer.got.srcs[i]
      IN \A card \in Range(answer.got.results[i].movies) :
           \E m \in Range(World[src.service].films) :
             card.poster = <<src.id, m.item>> /\ Fits(m, answer.f, src)

\* The picker offers each genre under one name, every genre that a source which
\* answered has, and none that no source has (sources.go:80-105).
OneNamePerGenre ==
  Answered("filters") =>
    LET offered == answer.got.genres
        ok == {r \in Range(answer.got.results) : r.status = 200}
        Same(a, b) == \/ a = b
                      \/ /\ {a, b} \subseteq DOMAIN GenreIDs
                         /\ GenreIDs[a] = GenreIDs[b]
    IN /\ \A i, j \in DOMAIN offered : Same(offered[i], offered[j]) => i = j
       /\ \A r \in ok : \A g \in Range(r.filters.genres) : \E h \in Range(offered) : Same(g, h)
       /\ answer.got.srcs # <<>> =>
            \A h \in Range(offered) : \E r \in ok : h \in Range(r.filters.genres)

\* What is picked from the list of services is what a configuration with that
\* pick resolves to, and neither depends on the order TMDB lists them in, unless
\* the identifier is a number, which is read as TMDB's, an identifier that the
\* table has for another, or another's name (providers.go:116-130, 283-329).
PickerAgreesWithResolution ==
  Answered("providers") =>
    LET options == answer.got.options
        Taken(o) ==
          \/ o.id \in DOMAIN NumberOf
          \/ \E p \in Range(KnownProviders) : p.tmdbID # o.tmdbID /\ o.id = p.slug
          \/ \E p \in Range(World.tmdb.providers) :
               p.tmdbID # o.tmdbID /\ o.id \in {p.name, Entry(p).provider.name}
        Picking(o) == [live EXCEPT !.val["streaming.providers"] = <<Plain(o.id)>>,
                                   !.val["streaming.tmdbReadToken"] = World.tmdb.key]
    IN /\ \A o \in Range(options) : ~Taken(o) =>
            ResolveStreamingProviders(Picking(o), World.tmdb) = <<o>>
       /\ answer.got.code = 200 =>
            options = NewProviderCatalog(Reverse(World.tmdb.providers)).options
       /\ \A i, j \in DOMAIN options : options[i].id = options[j].id => i = j

AnyFilm == [genres |-> {}, yearMin |-> 0, yearMax |-> 0, ratingMin |-> 0, ratings |-> {},
            unwatched |-> FALSE, libraryId |-> Empty, sources |-> {}]

\* A configuration with what was checked in the place of what is stored.
With(cfg, req, url, secret) ==
  [cfg EXCEPT !.val[url] = OrStored(req.url, @), !.val[secret] = OrStored(req.secret, @)]

Agrees(got, search, hasMovies, healthy) ==
  got.says \notin {"no_url", "no_key"} =>
    /\ got.valid <=> search.status = 200 /\ hasMovies
    /\ got.says = "rejected" => search.status \in {401, 403}
    /\ healthy /\ search.status \in {401, 403} => got.says = "rejected"

JellyfinVerdictHolds(req, cfg, server, got) ==
  LET src == Client(With(cfg, req, "jellyfin.url", "jellyfin.apiKey"), "jellyfin",
                    Library(Empty, Empty))
  IN Agrees(got, JellyfinMovies(src, AnyFilm, server), TRUE, server.status = 200)

PlexVerdictHolds(req, cfg, server, got) ==
  LET section == OrStored(req.section, cfg.val["plex.librarySection"])
      src == Client(With(cfg, req, "plex.url", "plex.token"), "plex", Library(section, Empty))
  IN Agrees(got, PlexMovies(src, AnyFilm, server, Absent),
            section = Empty \/ \E l \in Range(server.libs) : l.id = section /\ l.movies, TRUE)

TMDBVerdictHolds(req, cfg, tmdb, got) ==
  got.says # "no_key" => (got.valid <=> Status(tmdb, Empty, Token(req, cfg)) = 200)

\* A check says what a query with those values would meet: valid if and only if
\* a source built from them answers, and the credential is blamed exactly when
\* the query would blame it, unless the Jellyfin refuses everybody: there the
\* check blames the address.  A Plex section that holds no movies answers a
\* query too, with nothing, and the check refuses it.  TMDB is asked every time,
\* whatever the cache holds (sourceverify.go:26-38, tmdbverify.go:114-121).
VerdictHolds ==
  LET up == Upstreams(answer.outage)
  IN /\ Answered("jellyfin") => JellyfinVerdictHolds(answer.req, live, up.jellyfin, answer.got)
     /\ Answered("plex") => PlexVerdictHolds(answer.req, live, up.plex, answer.got)
     /\ Answered("tmdb") => TMDBVerdictHolds(answer.req, live, up.tmdb, answer.got)

\* sourceset.go:225-226 says sourcesDiffer "reports whether two configurations
\* would produce different sources": the local services a process offers are
\* those that the next one would.
OffersWhatARestartWould ==
  \A s \in Range(Services) :
    Configured(Resolve(file, env), s) <=>
      \/ \E src \in Range(set.order) : src.service = s
      \/ \E p \in Range(set.pending) : p.service = s

\* library.go:29-32 says that no source at all "is what a deployment whose
\* libraries are all configured by unresolvable names has": a source over
\* everything is for a service that names no libraries.
UnresolvedNamesOfferNothing ==
  \A src \in Range(set.order) :
    src.service # "tmdb" /\ src.scope = Empty => Libraries(live, src.service) = <<>>

\* libraryresolve.go:25-27 says that an entry of the file "always carries a real
\* identifier", and sourceset.go:25-31 that a name must not become the identifier
\* of a source, whatever the settings screen was used for.
NamesNeverInIDs ==
  \A src \in Range(set.order) :
    src.service # "tmdb" /\ src.scope # Empty => IsIdentifier(src.service, src.scope)

\* library.go:10-14 says that a preview "names the selected sources that failed
\* this query and why, so the host can correct the problem before creating a room":
\* each of them is named, also when it is all there is.
FailuresAreNamed ==
  Answered("preview") =>
    \A i \in DOMAIN answer.got.srcs :
      answer.got.results[i].status # 200 =>
        \E q \in Range(answer.got.problems) : q.source = answer.got.srcs[i].id

=============================================================================
