------------------------------ MODULE Sources ------------------------------
(***************************************************************************)
(* The set of movie sources a configuration calls for, how libraries that  *)
(* were configured by name are turned into sources, and which of them a    *)
(* host selects.                                                           *)
(*                                                                         *)
(* A source's identifier is <<service>>, <<service, library>> or           *)
(* <<provider>>.  A media server lists libraries as a sequence of records  *)
(* with an id, a name and whether they hold movies.                        *)
(***************************************************************************)
EXTENDS Catalog

CONSTANT HexIDs  \* the words with the shape of a Jellyfin library identifier

Services == <<"jellyfin", "plex">>

\* What an identifier of the service looks like.
IsIdentifier(service, id) ==
  IF service = "plex" THEN id.word \in DOMAIN NumberOf ELSE id.word \in HexIDs

\* isPendingName: a name in the place of an identifier.
IsPendingName(service, ref) ==
  ref.id # Empty /\ ref.name = Empty /\ ~IsIdentifier(service, ref.id)

LibraryScopedID(service, ref) ==
  IF ref.id = Empty THEN <<service>> ELSE <<service, ref.id>>

LibraryScopedName(service, ref) ==
  IF ref.id = Empty THEN <<service>>
  ELSE IF ref.name # Empty THEN <<service, ref.name>> ELSE <<service, ref.id>>

Configured(cfg, service) ==
  IF service = "jellyfin" THEN JellyfinConfigured(cfg) ELSE PlexConfigured(cfg)

LibrariesKey(service) ==
  IF service = "jellyfin" THEN "jellyfin.libraries" ELSE "plex.libraries"

Libraries(cfg, service) == cfg.val[LibrariesKey(service)]

\* NewJellyfinClient and NewPlexClient: one client is one library.
Client(cfg, service, ref) ==
  [service |-> service,
   id |-> LibraryScopedID(service, ref),
   name |-> LibraryScopedName(service, ref),
   base |-> cfg.val[IF service = "jellyfin" THEN "jellyfin.url" ELSE "plex.url"],
   key |-> cfg.val[IF service = "jellyfin" THEN "jellyfin.apiKey" ELSE "plex.token"],
   scope |-> ref.id,
   unwatched |-> service = "plex" \/ cfg.val["jellyfin.userId"] # Empty]

NewTMDBSource(cfg, p) ==
  [service |-> "tmdb", id |-> <<p.id>>, name |-> <<p.name>>,
   base |-> Empty, key |-> cfg.val["streaming.tmdbReadToken"],
   scope |-> p.tmdbID, unwatched |-> FALSE]

IDs(order) == {order[i].id : i \in DOMAIN order}

\* Mutant: a second entry for a library registers it again.
Add_Again(order, src) == Append(order, src)

\* A duplicate is refused, the first one stays.
Add(order, src) == IF src.id \in IDs(order) THEN order ELSE Append(order, src)

\* No list at all is one source over everything.
LibraryRefsOrAll(refs) == IF refs = <<>> THEN <<Library(Empty, Empty)>> ELSE refs

Pending(service, name) == [service |-> service, name |-> name]

\* resolve holds the configuration that the names are to be resolved with, if
\* they are.
NoSources == [order |-> <<>>, pending |-> <<>>, resolve |-> {}]

\* Mutant: every entry becomes a source.
AddLocal_Unresolved(set, cfg, service, ref) ==
  [set EXCEPT !.order = Add(@, Client(cfg, service, ref))]

AddLocal(set, cfg, service, ref) ==
  IF IsPendingName(service, ref)
    THEN [set EXCEPT !.pending = Append(@, Pending(service, ref.id))]
    ELSE [set EXCEPT !.order = Add(@, Client(cfg, service, ref))]

\* Libraries(service) gives the configured list of each service.
AddLocalSources(cfg, refs) ==
  FoldLeft(LAMBDA set, service :
             IF ~Configured(cfg, service) THEN set
             ELSE FoldLeft(LAMBDA s, ref : AddLocal(s, cfg, service, ref),
                           set, LibraryRefsOrAll(refs[service])),
           NoSources, Services)

AddStreamingSources(set, cfg, tmdb) ==
  [set EXCEPT !.order =
     FoldLeft(Add, @, LET ps == ResolveStreamingProviders(cfg, tmdb)
                      IN [i \in DOMAIN ps |-> NewTMDBSource(cfg, ps[i])])]

BuildSourceSet(cfg, tmdb) ==
  LET set == AddStreamingSources(
               AddLocalSources(cfg, [s \in Range(Services) |-> Libraries(cfg, s)]), cfg, tmdb)
  IN [set EXCEPT !.resolve = IF set.pending = <<>> THEN {} ELSE {cfg}]

----------------------------------------------------------------------------
(***************************************************************************)
(* Resolution of the names.                                                *)
(***************************************************************************)

\* The libraries that a server lists, of movies or not.
ListedLibraries == [id : Texts, name : Texts, movies : BOOLEAN]

\* JellyfinClient.Libraries and movieSections.
MovieLibraries(server) ==
  LET movies == Only(server.libs, {l \in Range(server.libs) : l.movies /\ l.id # Empty})
  IN [i \in DOMAIN movies |-> Library(movies[i].id, movies[i].name)]

\* Byte order: what has space first sorts before what has not, capitals before
\* the rest.
TextBefore(a, b) ==
  IF a.spaced # b.spaced THEN a.spaced
  ELSE IF a.upper # b.upper THEN a.upper ELSE Rank[a.word] < Rank[b.word]

LibraryBefore(k, l) ==
  IF k.name # l.name THEN TextBefore(k.name, l.name) ELSE TextBefore(k.id, l.id)

SortLibraries(libraries) == SortBy(libraries, LibraryBefore)

Folded(t) == ToLower(TrimSpace(t))

\* Mutant: of two libraries of one name, the one listed first has it.
ByName_AsListed(available) ==
  FoldLeft(LAMBDA index, l : IF IsBlank(l.name) THEN index ELSE Alias(index, Folded(l.name), l),
           <<>>, available)

\* The first of a name keeps it.
ByName(available) ==
  FoldLeft(LAMBDA index, l : IF IsBlank(l.name) THEN index ELSE Alias(index, Folded(l.name), l),
           <<>>, SortLibraries(available))

\* The entries of a list with the names replaced, and the names nobody has.
ResolveLibraryNames(service, refs, available) ==
  LET index == ByName(available)
      unmatched == {ref \in Range(refs) :
                      IsPendingName(service, ref) /\ Folded(ref.id) \notin DOMAIN index}
      matched == Only(refs, Range(refs) \ unmatched)
  IN [refs |-> [i \in DOMAIN matched |->
                  IF IsPendingName(service, matched[i]) THEN index[Folded(matched[i].id)]
                  ELSE matched[i]],
      unmatched |-> Only(refs, unmatched)]

PendingFor(service, refs) == [i \in DOMAIN refs |-> Pending(service, refs[i].id)]

\* A server is asked only if one of its libraries needs it.
Asked(cfg, service) ==
  \E i \in DOMAIN Libraries(cfg, service) : IsPendingName(service, Libraries(cfg, service)[i])

Reachable(cfg, service, server) ==
  LET c == Client(cfg, service, Library(Empty, Empty))
  IN Status(server, c.base, c.key) = 200

\* Mutant: only the local sources are carried over.
ResolvePendingLibraries_LocalOnly(cfg, set, world) ==
  LET found == [s \in Range(Services) |->
                  ResolveLibraryNames(s, Libraries(cfg, s), MovieLibraries(world[s]))]
      local == AddLocalSources(cfg, [s \in Range(Services) |-> found[s].refs])
  IN [local EXCEPT !.pending = FlattenSeq([i \in DOMAIN Services |->
        PendingFor(Services[i], found[Services[i]].unmatched)])]

\* The set with nothing left to resolve; what no library is called stays
\* pending for good.  If a server cannot be asked, there is no such set.
ResolvePendingLibraries(cfg, set, world) ==
  LET found == [s \in Range(Services) |->
                  ResolveLibraryNames(s, Libraries(cfg, s), MovieLibraries(world[s]))]
      local == AddLocalSources(cfg, [s \in Range(Services) |-> found[s].refs])
  IN [order |-> FoldLeft(Add, local.order, set.order),
      pending |-> FlattenSeq([i \in DOMAIN Services |->
                    PendingFor(Services[i], found[Services[i]].unmatched)]),
      resolve |-> {}]

AllReachable(cfg, world) ==
  \A s \in Range(Services) : Asked(cfg, s) => Reachable(cfg, s, world[s])

\* currentSources: the resolved set, or what works if it cannot be had.
CurrentSources(set, world) ==
  IF \E cfg \in set.resolve : AllReachable(cfg, world)
    THEN ResolvePendingLibraries(CHOOSE cfg \in set.resolve : TRUE, set, world)
    ELSE set

----------------------------------------------------------------------------
(***************************************************************************)
(* Selection and problems.                                                 *)
(***************************************************************************)

\* In canonical order; the first source if none of the requested ones is there.
SelectSources(order, requested) ==
  LET chosen == Only(order, {s \in Range(order) : s.id \in requested})
  IN IF chosen = <<>> /\ order # <<>> THEN <<Head(order)>> ELSE chosen

ConfiguredSources(order) ==
  [i \in DOMAIN order |->
     [id |-> order[i].id, label |-> order[i].name, unwatched |-> order[i].unwatched]]

SourceProblem(src, status) ==
  [source |-> src.id, label |-> src.name, reason |-> StatusFailure(status)]

PendingProblems(pending) ==
  [i \in DOMAIN pending |->
     [source |-> <<>>, reason |-> "unresolved",
      label |-> LibraryScopedName(pending[i].service, Library(pending[i].name, pending[i].name))]]

=============================================================================
