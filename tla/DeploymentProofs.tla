-------------------------- MODULE DeploymentProofs --------------------------
(***************************************************************************)
(* Proofs about Deployment, for any file, environment, edits, filters and  *)
(* candidates, and any world of the right shape.                           *)
(***************************************************************************)
EXTENDS Deployment, SourcesProofs

----------------------------------------------------------------------------
(***************************************************************************)
(* The world.                                                              *)
(***************************************************************************)

\* Trouble changes nothing of an upstream but its status.
LEMMA UpstreamIs ==
  ASSUME NEW outage, NEW u \in {"jellyfin", "plex", "tmdb"}
  PROVE  /\ Upstreams(outage)[u].url = World[u].url
         /\ Upstreams(outage)[u].key = World[u].key
         /\ Upstreams(outage)[u].status = outage[u]
         /\ Upstreams(outage)[u].films = World[u].films
         /\ u # "tmdb" => Upstreams(outage)[u].libs = World[u].libs
<1>1. u \in DOMAIN World /\ {"url", "key", "status", "films"} \subseteq DOMAIN World[u]
  BY WorldAssumption
<1>2. Upstreams(outage)[u] = [World[u] EXCEPT !.status = outage[u]]
  BY <1>1 DEF Upstreams
<1>3. QED
  BY <1>1, <1>2

LEMMA LibrariesOf ==
  ASSUME NEW outage, NEW s \in {"jellyfin", "plex"}
  PROVE  Upstreams(outage)[s].libs \in Seq(ListedLibraries)
<1>1. World[s].libs \in Seq(ListedLibraries)
  BY ServicesAre, WorldAssumption
<1>2. QED
  BY <1>1, UpstreamIs

----------------------------------------------------------------------------
(***************************************************************************)
(* Verdicts.                                                               *)
(***************************************************************************)

LEMMA WithIs ==
  ASSUME NEW cfg, NEW req, NEW url, NEW secret, url # secret,
         DOMAIN cfg.val = Keys \ Toggles, url \in Keys \ Toggles, secret \in Keys \ Toggles,
         "val" \in DOMAIN cfg
  PROVE  /\ With(cfg, req, url, secret).val[url] = OrStored(req.url, cfg.val[url])
         /\ With(cfg, req, url, secret).val[secret] = OrStored(req.secret, cfg.val[secret])
BY DEF With

LEMMA JellyfinVerdict ==
  ASSUME NEW req, NEW cfg, NEW server,
         "val" \in DOMAIN cfg, DOMAIN cfg.val = Keys \ Toggles
  PROVE  JellyfinVerdictHolds(req, cfg, server, VerifyJellyfin(req, cfg, server))
<1>1. PICK base : base = OrStored(req.url, cfg.val["jellyfin.url"])
  OBVIOUS
<1>2. PICK key : key = OrStored(req.secret, cfg.val["jellyfin.apiKey"])
  OBVIOUS
<1>3. PICK src : src = Client(With(cfg, req, "jellyfin.url", "jellyfin.apiKey"), "jellyfin",
                              Library(Empty, Empty))
  OBVIOUS
<1>4. src.base = base /\ src.key = key
  <2>1. "jellyfin.url" \in Keys \ Toggles /\ "jellyfin.apiKey" \in Keys \ Toggles
    BY KeyKinds DEF Scalars, Secrets
  <2>2. /\ With(cfg, req, "jellyfin.url", "jellyfin.apiKey").val["jellyfin.url"] = base
        /\ With(cfg, req, "jellyfin.url", "jellyfin.apiKey").val["jellyfin.apiKey"] = key
    BY <1>1, <1>2, <2>1, WithIs
  <2>3. QED
    BY <1>3, <2>2 DEF Client
<1>5. PICK status : status = Status(server, base, key)
  OBVIOUS
<1>6. JellyfinMovies(src, AnyFilm, server).status = status
  BY <1>4, <1>5 DEF JellyfinMovies, Failed, Found
<1>7. PICK got : got = VerifyJellyfin(req, cfg, server)
  OBVIOUS
<1>8. \/ got.says \in {"no_url", "no_key"}
      \/ PublicStatus(server, base) # 200 /\ got.says = "no_server" /\ ~got.valid
      \/ /\ PublicStatus(server, base) = 200 /\ status # 200 /\ ~got.valid
         /\ got.says = IF RejectedCredential(status) THEN "rejected" ELSE "query_failed"
      \/ status = 200 /\ got.valid /\ got.says \in {"no_movies", "connected"}
  BY <1>1, <1>2, <1>5, <1>7 DEF VerifyJellyfin, Verdict, Invalid
<1>9. PublicStatus(server, base) # 200 =>
        /\ status # 200
        /\ server.status = 200 => status = 0
  BY <1>5 DEF PublicStatus, Status
<1>10. RejectedCredential(status) <=> status \in {401, 403}
  BY DEF RejectedCredential, StatusFailure
<1>11. Agrees(got, JellyfinMovies(src, AnyFilm, server), TRUE, server.status = 200)
  BY <1>6, <1>8, <1>9, <1>10 DEF Agrees
<1>12. QED
  BY <1>3, <1>7, <1>11, Zenon DEF JellyfinVerdictHolds

LEMMA PlexVerdict ==
  ASSUME NEW req, NEW cfg, NEW server,
         "val" \in DOMAIN cfg, DOMAIN cfg.val = Keys \ Toggles,
         server.libs \in Seq(ListedLibraries)
  PROVE  PlexVerdictHolds(req, cfg, server, VerifyPlex(req, cfg, server))
<1>1. PICK base : base = OrStored(req.url, cfg.val["plex.url"])
  OBVIOUS
<1>2. PICK key : key = OrStored(req.secret, cfg.val["plex.token"])
  OBVIOUS
<1>3. PICK section : section = OrStored(req.section, cfg.val["plex.librarySection"])
  OBVIOUS
<1>4. PICK src : src = Client(With(cfg, req, "plex.url", "plex.token"), "plex",
                              Library(section, Empty))
  OBVIOUS
<1>5. src.base = base /\ src.key = key /\ src.scope = section
  <2>1. "plex.url" \in Keys \ Toggles /\ "plex.token" \in Keys \ Toggles
    BY KeyKinds DEF Scalars, Secrets
  <2>2. /\ With(cfg, req, "plex.url", "plex.token").val["plex.url"] = base
        /\ With(cfg, req, "plex.url", "plex.token").val["plex.token"] = key
    BY <1>1, <1>2, <2>1, WithIs
  <2>3. QED
    BY <1>4, <2>2 DEF Client, Library
<1>6. PICK status : status = Status(server, base, key)
  OBVIOUS
<1>7. PICK sections : sections = MovieLibraries(server)
  OBVIOUS
<1>8. /\ sections \in Seq(Refs) /\ Len(sections) \in Nat /\ DOMAIN sections = 1..Len(sections)
      /\ \A r \in Range(sections) : r.id # Empty /\ \E l \in Range(server.libs) : l.movies /\ l.id = r.id
      /\ \A l \in Range(server.libs) : l.movies /\ l.id # Empty => \E r \in Range(sections) : r.id = l.id
  <2>1. /\ sections \in Seq(Refs)
        /\ \A r \in Range(sections) :
             /\ r.id # Empty
             /\ \E l \in Range(server.libs) : l.movies /\ l.id = r.id /\ l.name = r.name
        /\ \A l \in Range(server.libs) : l.movies /\ l.id # Empty =>
             \E r \in Range(sections) : r.id = l.id /\ r.name = l.name
    BY <1>7, MovieLibrariesAre
  <2>2. Len(sections) \in Nat /\ DOMAIN sections = 1..Len(sections)
    BY <2>1, ElementsOf
  <2>3. QED
    BY <2>1, <2>2
<1>9. PICK own : own = MovieSection(src, server, Absent)
  OBVIOUS
<1>10. own = IF section # Empty THEN [status |-> 200, section |-> section]
             ELSE IF status # 200 THEN [status |-> status, section |-> Empty]
             ELSE IF sections = <<>> THEN [status |-> 0, section |-> Empty]
             ELSE [status |-> 200, section |-> sections[1].id]
  BY <1>5, <1>6, <1>7, <1>9 DEF MovieSection
<1>11. PICK found : found = PlexMovies(src, AnyFilm, server, Absent)
  OBVIOUS
<1>12. found.status = IF own.status # 200 THEN own.status
                      ELSE IF status # 200 THEN status
                      ELSE IF \E l \in Range(server.libs) : l.id = own.section THEN 200 ELSE 404
  <2>1. AnyFilm.libraryId = Empty
    BY DEF AnyFilm
  <2>2. QED
    BY <1>5, <1>6, <1>9, <1>11, <2>1 DEF PlexMovies, SectionStatus, Failed, Found
<1>13. sections # <<>> => sections[1] \in Range(sections)
  <2>1. sections # <<>> => 1 \in DOMAIN sections
    BY <1>8, EmptySeq
  <2>2. QED
    BY <2>1 DEF Range
<1>14. sections = <<>> => Range(sections) = {}
  <2>1. sections = <<>> => DOMAIN sections = {}
    OBVIOUS
  <2>2. QED
    BY <2>1 DEF Range
<1>15. status # 200 => found.status = status
  BY <1>10, <1>12
<1>16. status = 200 /\ section = Empty /\ sections = <<>> => found.status = 0
  BY <1>10, <1>12
<1>17. status = 200 /\ section = Empty /\ sections # <<>> => found.status = 200
  <2>1. ASSUME sections # <<>>
        PROVE  \E l \in Range(server.libs) : l.id = sections[1].id
    BY <1>8, <1>13, <2>1
  <2>2. QED
    BY <1>10, <1>12, <2>1
<1>18. status = 200 /\ section # Empty =>
         found.status = IF \E l \in Range(server.libs) : l.id = section THEN 200 ELSE 404
  BY <1>10, <1>12
<1>19. PICK got : got = VerifyPlex(req, cfg, server)
  OBVIOUS
<1>20. \/ got.says \in {"no_url", "no_key"}
       \/ /\ status # 200 /\ ~got.valid
          /\ got.says = IF RejectedCredential(status) THEN "rejected" ELSE "no_server"
       \/ status = 200 /\ sections = <<>> /\ ~got.valid /\ got.says = "no_movies"
       \/ /\ status = 200 /\ sections # <<>> /\ section = Empty
          /\ got.valid /\ got.says \in {"several", "connected"}
       \/ /\ status = 200 /\ sections # <<>> /\ section # Empty
          /\ \E l \in Range(sections) : l.id = section
          /\ got.valid /\ got.says = "connected"
       \/ /\ status = 200 /\ sections # <<>> /\ section # Empty
          /\ ~\E l \in Range(sections) : l.id = section
          /\ ~got.valid /\ got.says = "no_section"
  BY <1>1, <1>2, <1>3, <1>6, <1>7, <1>19 DEF VerifyPlex, Verdict, Invalid
<1>21. RejectedCredential(status) <=> status \in {401, 403}
  BY DEF RejectedCredential, StatusFailure
<1>22. PICK holds \in BOOLEAN :
         holds <=> (section = Empty \/ \E l \in Range(server.libs) : l.id = section /\ l.movies)
  BY Zenon
<1>23. section # Empty => (holds <=> \E l \in Range(sections) : l.id = section)
  BY <1>8, <1>22
<1>24. section # Empty /\ holds => \E l \in Range(server.libs) : l.id = section
  BY <1>22
<1>25. sections = <<>> /\ section # Empty => ~holds
  BY <1>14, <1>23
<1>26. Agrees(got, found, holds, TRUE)
  <2>1. CASE got.says \in {"no_url", "no_key"}
    BY <2>1 DEF Agrees
  <2>2. CASE /\ status # 200 /\ ~got.valid
             /\ got.says = IF RejectedCredential(status) THEN "rejected" ELSE "no_server"
    BY <1>15, <1>21, <2>2 DEF Agrees
  <2>3. CASE status = 200 /\ sections = <<>> /\ ~got.valid /\ got.says = "no_movies"
    BY <1>16, <1>18, <1>25, <2>3 DEF Agrees
  <2>4. CASE /\ status = 200 /\ sections # <<>> /\ section = Empty
             /\ got.valid /\ got.says \in {"several", "connected"}
    BY <1>17, <1>22, <2>4 DEF Agrees
  <2>5. CASE /\ status = 200 /\ sections # <<>> /\ section # Empty
             /\ \E l \in Range(sections) : l.id = section
             /\ got.valid /\ got.says = "connected"
    BY <1>18, <1>23, <1>24, <2>5 DEF Agrees
  <2>6. CASE /\ status = 200 /\ sections # <<>> /\ section # Empty
             /\ ~\E l \in Range(sections) : l.id = section
             /\ ~got.valid /\ got.says = "no_section"
    BY <1>18, <1>23, <2>6 DEF Agrees
  <2>7. QED
    BY <1>20, <2>1, <2>2, <2>3, <2>4, <2>5, <2>6, Zenon
<1>27. QED
  BY <1>3, <1>4, <1>11, <1>19, <1>22, <1>26, Zenon DEF PlexVerdictHolds

LEMMA TMDBVerdict ==
  ASSUME NEW req, NEW cfg, NEW cached, NEW tmdb, tmdb.url = Empty
  PROVE  TMDBVerdictHolds(req, cfg, tmdb, VerifyTMDB(req, cfg, cached, tmdb).verdict)
<1>1. PICK token : token = Token(req, cfg)
  OBVIOUS
<1>2. PICK region : region = RegionOrDefault(req.region, cfg)
  OBVIOUS
<1>3. PICK fetched : fetched = FetchProviderList(token, region, FALSE, cached, tmdb)
  BY Zenon
<1>4. fetched.ok <=> Status(tmdb, Empty, token) = 200
  BY <1>3 DEF FetchProviderList
<1>5. PICK got : got = VerifyTMDB(req, cfg, cached, tmdb).verdict
  OBVIOUS
<1>6. IF token = Empty THEN got.says = "no_key" ELSE got.valid = fetched.ok
  BY <1>1, <1>2, <1>3, <1>5, Zenon DEF VerifyTMDB, Verdict, Invalid
<1>7. got.says # "no_key" => (got.valid <=> Status(tmdb, Empty, token) = 200)
  BY <1>4, <1>6
<1>8. QED
  BY <1>1, <1>5, <1>7 DEF TMDBVerdictHolds

----------------------------------------------------------------------------
(***************************************************************************)
(* The settings, over every action.                                        *)
(***************************************************************************)

\* The inductive invariant of the settings: the live values are those that a
\* process starting now would find, of files and environments of any kind.
SettingsInv ==
  /\ IsFile(file) /\ IsEnv(env)
  /\ "val" \in DOMAIN live /\ live.disabled \subseteq Toggles
  /\ live.val = Resolve(file, env).val
  /\ saves \in 0..MaxSaves

\* What a save may do.
LEMMA SaveIs ==
  ASSUME NEW edit, NEW checked, NEW o, Save(edit, checked, o)
  PROVE  /\ answer = NoAnswer /\ saves < MaxSaves /\ saves' = saves + 1 /\ env' = env
         /\ cache' = cache /\ answer'.kind = "save" /\ answer'.edit = edit
         /\ \E merged, next :
              /\ merged = Merged(file, live, edit, FoundOn(checked)) /\ next = Resolve(merged, env)
              /\ \/ UNCHANGED <<file, live, set, discovered>> /\ answer'.code # 200
                 \/ /\ file' = merged
                    /\ \/ /\ Outcome(live, next) = "no_change"
                          /\ UNCHANGED <<live, set, discovered>>
                       \/ /\ Outcome(live, next) = "applied"
                          /\ live' = next /\ UNCHANGED <<set, discovered>>
                       \/ /\ Outcome(live, next) = "rebuilt"
                          /\ live' = next /\ set' = BuildSourceSet(next, Upstreams(o).tmdb)
                          /\ discovered' = Absent
<1>1. PICK merged : merged = Merged(file, live, edit, FoundOn(checked))
  OBVIOUS
<1>2. PICK next : next = Resolve(merged, env)
  OBVIOUS
<1>3. PICK outcome : outcome = Outcome(live, next)
  OBVIOUS
<1>4. /\ answer = NoAnswer /\ saves < MaxSaves /\ saves' = saves + 1 /\ env' = env
      /\ cache' = cache /\ answer'.kind = "save" /\ answer'.edit = edit
      /\ \/ UNCHANGED <<file, live, set, discovered>> /\ answer'.code # 200
         \/ /\ file' = merged
            /\ live' = IF outcome = "no_change" THEN live ELSE next
            /\ set' = IF outcome = "rebuilt" THEN BuildSourceSet(next, Upstreams(o).tmdb) ELSE set
            /\ discovered' = IF outcome = "rebuilt" THEN Absent ELSE discovered
  BY <1>1, <1>2, <1>3 DEF Save, Merged
<1>5. outcome \in {"no_change", "applied", "rebuilt"}
  BY <1>3 DEF Outcome
<1>6. QED
  BY <1>1, <1>2, <1>3, <1>4, <1>5

\* What the other actions leave alone.
LEMMA OthersAre ==
  ASSUME NEW o, NEW f, NEW req
  PROVE  /\ AskPreview(f, o) \/ AskWarm(f, o) \/ AskFilters(f, o) =>
              UNCHANGED <<file, env, live, cache, saves>> /\ UseSources(o)
         /\ AskVerify(req, o) \/ AskProviders(req, o) =>
              UNCHANGED <<file, env, live, set, discovered, saves>>
         /\ Restart(o) => UNCHANGED <<file, env, saves, answer>>
         /\ Expire => UNCHANGED <<file, env, live, set, discovered, saves, answer>>
         /\ RetryDue => UNCHANGED <<file, env, live, set, cache, saves, answer>> /\ discovered' = Absent
BY DEF AskPreview, AskWarm, AskFilters, AskVerify, AskProviders, Restart, Expire, RetryDue

\* The lists that were found are those of the servers.
LEMMA FoundOnIs ==
  ASSUME NEW checked
  PROVE  /\ FoundTypes(FoundOn(checked))
         /\ \A s \in {"jellyfin", "plex"} : \A l \in Range(FoundOn(checked)[LibrariesKey(s)]) :
              \E m \in Range(World[s].libs) : m.movies /\ m.id = l.id /\ l.id # Empty
<1>1. PICK found : found = FoundOn(checked)
  OBVIOUS
<1>2. PICK nothing : nothing = <<>>
  OBVIOUS
<1>3. nothing \in Seq(Refs) /\ Range(nothing) = {}
  BY <1>2 DEF Range
<1>4. ASSUME NEW s \in {"jellyfin", "plex"}
      PROVE  /\ found[LibrariesKey(s)] \in Seq(Refs)
             /\ \A l \in Range(found[LibrariesKey(s)]) :
                  \E m \in Range(World[s].libs) : m.movies /\ m.id = l.id /\ l.id # Empty
  <2>1. PICK server : server = World[s]
    OBVIOUS
  <2>2. server.libs \in Seq(ListedLibraries)
    BY <2>1, ServicesAre, WorldAssumption
  <2>3. /\ MovieLibraries(server) \in Seq(Refs)
        /\ \A r \in Range(MovieLibraries(server)) :
             r.id # Empty /\ \E l \in Range(server.libs) : l.movies /\ l.id = r.id
    BY <2>2, MovieLibrariesAre
  <2>4. found[LibrariesKey(s)] = MovieLibraries(server) \/ found[LibrariesKey(s)] = nothing
    BY <1>1, <1>2, <2>1 DEF FoundOn, LibrariesKey, LibraryLists
  <2>5. CASE found[LibrariesKey(s)] = nothing
    BY <1>3, <2>5
  <2>6. CASE found[LibrariesKey(s)] = MovieLibraries(server)
    BY <2>1, <2>3, <2>6
  <2>7. QED
    BY <2>4, <2>5, <2>6
<1>5. LibraryLists = {LibrariesKey("jellyfin"), LibrariesKey("plex")}
  BY DEF LibrariesKey, LibraryLists
<1>6. QED
  BY <1>1, <1>4, <1>5 DEF FoundTypes

\* What Resolve makes.
LEMMA ResolvedShape ==
  ASSUME NEW f, NEW e
  PROVE  /\ DOMAIN Resolve(f, e).val = Keys \ Toggles /\ "val" \in DOMAIN Resolve(f, e)
         /\ Resolve(f, e).disabled \subseteq Toggles
         /\ Resolve(f, e).val = [k \in Keys \ Toggles |-> Resolve(f, e).val[k]]
BY DEF Resolve

\* Two configurations between which nothing has changed have the same values.
LEMMA SameValues ==
  ASSUME NEW a, NEW b, a.val = [k \in Keys \ Toggles |-> a.val[k]],
         b.val = [k \in Keys \ Toggles |-> b.val[k]]
  PROVE  /\ Outcome(a, b) = "no_change" <=> a.val = b.val
         /\ Outcome(a, b) # "rebuilt" => ~SourcesDiffer(a, b)
<1>1. Outcome(a, b) # "rebuilt" <=> ~SourcesDiffer(a, b)
  BY DEF Outcome
<1>2. Outcome(a, b) = "no_change" <=> ~SourcesDiffer(a, b) /\ ~HarmlessDiffer(a, b)
  BY DEF Outcome
<1>3. HarmlessKeys \subseteq Keys \ Toggles
  BY DEF HarmlessKeys, Keys, Toggles, Scalars, Secrets, Lists, LibraryLists
<1>4. ~SourcesDiffer(a, b) /\ ~HarmlessDiffer(a, b) <=> \A k \in Keys \ Toggles : a.val[k] = b.val[k]
  BY <1>3 DEF SourcesDiffer, HarmlessDiffer
<1>5. (\A k \in Keys \ Toggles : a.val[k] = b.val[k]) <=> a.val = b.val
  OBVIOUS
<1>6. QED
  BY <1>1, <1>2, <1>4, <1>5

\* A configuration that was resolved.
WellTyped(cfg) ==
  /\ DOMAIN cfg.val = Keys \ Toggles
  /\ cfg.val = [k \in Keys \ Toggles |-> cfg.val[k]]
  /\ \A k \in Keys \ Toggles : Settled(k, cfg.val[k]) /\ cfg.val[k] \in ValuesOf(k)
  /\ \A s \in {"jellyfin", "plex"} : Libraries(cfg, s) \in Seq(Refs)
  /\ cfg.val["streaming.providers"] \in Seq(Texts)

LEMMA ResolvedTypes ==
  ASSUME NEW f, NEW e, IsFile(f), IsEnv(e), NEW cfg, cfg.val = Resolve(f, e).val
  PROVE  WellTyped(cfg)
<1>1. DOMAIN cfg.val = Keys \ Toggles /\ cfg.val = [k \in Keys \ Toggles |-> cfg.val[k]]
  BY ResolvedShape
<1>2. \A k \in Keys \ Toggles : Settled(k, cfg.val[k])
  BY ResolutionSettles
<1>3. \A k \in Keys \ Toggles : cfg.val[k] \in ValuesOf(k)
  BY <1>2 DEF Settled
<1>4. /\ "jellyfin.libraries" \in Keys \ Toggles /\ "plex.libraries" \in Keys \ Toggles
      /\ "streaming.providers" \in Keys \ Toggles
  BY DEF Keys, Toggles, Lists, LibraryLists
<1>5. /\ cfg.val["jellyfin.libraries"] \in Seq(Refs) /\ cfg.val["plex.libraries"] \in Seq(Refs)
      /\ cfg.val["streaming.providers"] \in Seq(Texts)
  BY <1>2, <1>4 DEF Settled, CleanRefs, CleanProviders, CleanTexts, LibraryLists
<1>6. \A s \in {"jellyfin", "plex"} : Libraries(cfg, s) \in Seq(Refs)
  BY <1>5 DEF Libraries, LibrariesKey
<1>7. QED
  BY <1>1, <1>2, <1>3, <1>5, <1>6 DEF WellTyped

LEMMA SettingsTypes ==
  ASSUME SettingsInv
  PROVE  WellTyped(live)
BY ResolvedTypes DEF SettingsInv

LEMMA SettingsHoldAtFirst == Init => SettingsInv
<1> SUFFICES ASSUME Init PROVE SettingsInv
  OBVIOUS
<1>1. IsFile(file) /\ IsEnv(env)
  BY FilesAssumption, EnvsAssumption DEF Init
<1>2. live = Resolve(file, env) /\ saves = 0
  BY DEF Init
<1>3. saves \in 0..MaxSaves
  BY <1>2, MaxSavesAssumption
<1>4. QED
  BY <1>1, <1>2, <1>3, ResolvedShape, Zenon DEF SettingsInv

LEMMA SettingsStep == SettingsInv /\ [Next]_vars => SettingsInv'
<1> SUFFICES ASSUME SettingsInv, [Next]_vars
             PROVE  SettingsInv'
  OBVIOUS
<1>1. ASSUME NEW edit \in Edits, NEW checked, NEW o \in Outages, Save(edit, checked, o)
      PROVE  SettingsInv'
  <2>1. PICK merged, next :
          /\ merged = Merged(file, live, edit, FoundOn(checked)) /\ next = Resolve(merged, env)
          /\ \/ UNCHANGED <<file, live, set>>
             \/ /\ file' = merged
                /\ \/ /\ Outcome(live, next) = "no_change"
                      /\ UNCHANGED <<live, set>>
                   \/ /\ Outcome(live, next) = "applied"
                      /\ live' = next /\ set' = set
                   \/ /\ Outcome(live, next) = "rebuilt"
                      /\ live' = next /\ set' = BuildSourceSet(next, Upstreams(o).tmdb)
    BY <1>1, SaveIs
  <2>2. saves < MaxSaves /\ saves' = saves + 1 /\ env' = env
    BY <1>1, SaveIs
  <2>3. saves' \in 0..MaxSaves
    BY <2>2, MaxSavesAssumption DEF SettingsInv
  <2>4. IsFile(merged)
    <3>1. EditTypes(edit) /\ FoundTypes(FoundOn(checked))
      BY EditsAssumption, FoundOnIs DEF EditTypes
    <3>2. \A k \in Keys \ Toggles : live.val[k] \in ValuesOf(k)
      BY SettingsTypes DEF WellTyped
    <3>3. IsFile(file)
      BY DEF SettingsInv
    <3>4. QED
      BY <2>1, <3>1, <3>2, <3>3, MergedIsAFile
  <2>5. CASE UNCHANGED <<file, live, set>>
    BY <2>2, <2>3, <2>5 DEF SettingsInv
  <2>6. CASE file' = merged /\ Outcome(live, next) = "no_change" /\ live' = live
    <3>1. live.val = next.val
      <4>1. next.val = [k \in Keys \ Toggles |-> next.val[k]]
        BY <2>1, ResolvedShape
      <4>2. live.val = [k \in Keys \ Toggles |-> live.val[k]]
        BY SettingsTypes DEF WellTyped
      <4>3. QED
        BY <2>6, <4>1, <4>2, SameValues
    <3>2. QED
      BY <2>1, <2>2, <2>3, <2>4, <2>6, <3>1 DEF SettingsInv
  <2>7. CASE file' = merged /\ live' = next
    BY <2>1, <2>2, <2>3, <2>4, <2>7, ResolvedShape, Zenon DEF SettingsInv
  <2>8. QED
    BY <2>1, <2>5, <2>6, <2>7
<1>2. ASSUME NEW o \in Outages, Restart(o)
      PROVE  SettingsInv'
  <2>1. UNCHANGED <<file, env, saves>> /\ live' = Resolve(file, env)
    BY <1>2 DEF Restart
  <2>2. QED
    BY <2>1, ResolvedShape, Zenon DEF SettingsInv
<1>3. CASE UNCHANGED <<file, env, live, saves>>
  BY <1>3 DEF SettingsInv
<1>4. QED
  <2>1. CASE Next
    BY <1>1, <1>2, <1>3, <2>1, OthersAre DEF Next
  <2>2. CASE UNCHANGED vars
    BY <1>3, <2>2 DEF vars
  <2>3. QED
    BY <2>1, <2>2

----------------------------------------------------------------------------
(***************************************************************************)
(* The set, over every action.                                             *)
(***************************************************************************)

AllRefs == {"jellyfin", "plex"} \X Refs

\* The libraries that the names of cfg may be found to be are in A.
FindsUsable(A, cfg) ==
  \A o \in Outages : \A s \in {"jellyfin", "plex"} : Usable(A, s, FoundFor(cfg, s, Upstreams(o)).refs)

\* The libraries of cfg are in A.
HasUsable(A, cfg) == \A s \in {"jellyfin", "plex"} : Usable(A, s, Libraries(cfg, s))

LEMMA FoundRefs ==
  ASSUME NEW cfg, NEW s \in {"jellyfin", "plex"}, Libraries(cfg, s) \in Seq(Refs), NEW o
  PROVE  /\ FoundFor(cfg, s, Upstreams(o)).refs \in Seq(Refs)
         /\ Replaced(s, Libraries(cfg, s), MovieLibraries(Upstreams(o)[s]),
                     FoundFor(cfg, s, Upstreams(o)))
<1>1. PICK server : server = Upstreams(o)[s]
  OBVIOUS
<1>2. server.libs \in Seq(ListedLibraries)
  BY <1>1, LibrariesOf
<1>3. PICK movies \in Seq(Refs) : movies = MovieLibraries(server)
  BY <1>2, MovieLibrariesAre
<1>4. PICK own \in Seq(Refs) : own = Libraries(cfg, s)
  OBVIOUS
<1>5. PICK found : found = FoundFor(cfg, s, Upstreams(o))
  OBVIOUS
<1>6. Replaced(s, own, movies, found)
  BY <1>1, <1>3, <1>4, <1>5, NamesAreReplaced DEF FoundFor
<1>7. found.refs \in Seq(Refs)
  BY <1>6 DEF Replaced
<1>8. QED
  BY <1>1, <1>3, <1>4, <1>5, <1>6, <1>7

LEMMA AllUsable ==
  ASSUME NEW cfg, \A s \in {"jellyfin", "plex"} : Libraries(cfg, s) \in Seq(Refs)
  PROVE  HasUsable(AllRefs, cfg) /\ FindsUsable(AllRefs, cfg)
<1>1. Library(Empty, Empty) \in Refs
  BY TextsAssumption, PlainFacts DEF Library, Refs, Empty
<1>2. ASSUME NEW s \in {"jellyfin", "plex"}, NEW refs \in Seq(Refs)
      PROVE  Usable(AllRefs, s, refs)
  <2>1. PICK all : all = <<Library(Empty, Empty)>>
    BY Zenon
  <2>2. all \in Seq(Refs)
    BY <1>1, <2>1
  <2>3. PICK list \in Seq(Refs) : list = LibraryRefsOrAll(refs)
    BY <2>1, <2>2, Zenon DEF LibraryRefsOrAll
  <2>4. Range(list) \subseteq Refs
    BY ElementsOf
  <2>5. QED
    BY <2>3, <2>4 DEF Usable, AllRefs
<1>3. HasUsable(AllRefs, cfg)
  BY <1>2 DEF HasUsable
<1>4. FindsUsable(AllRefs, cfg)
  <2> SUFFICES ASSUME NEW o \in Outages, NEW s \in {"jellyfin", "plex"}
               PROVE  Usable(AllRefs, s, FoundFor(cfg, s, Upstreams(o)).refs)
    BY DEF FindsUsable
  <2>1. PICK refs \in Seq(Refs) : refs = FoundFor(cfg, s, Upstreams(o)).refs
    BY FoundRefs
  <2>2. QED
    BY <1>2, <2>1
<1>5. QED
  BY <1>3, <1>4

LEMMA SetAtFirst ==
  ASSUME NEW A, Init, HasUsable(A, live)
  PROVE  GoodSet(A, live, set)
<1>1. live.val["streaming.providers"] \in Seq(Texts)
  BY SettingsHoldAtFirst, SettingsTypes DEF WellTyped
<1>2. PICK o \in Outages : set = BuildSourceSet(live, Upstreams(o).tmdb)
  BY DEF Init
<1>3. \E T : Built(live, A, T, BuildSourceSet(live, Upstreams(o).tmdb))
  BY <1>1, BuildSourceSetIs DEF HasUsable
<1>4. PICK T : Built(live, A, T, set)
  BY <1>2, <1>3
<1>5. QED
  BY <1>4, BuiltIsGood

\* A request leaves a good set, which is the old one or the old one resolved.
LEMMA UseIsGood ==
  ASSUME NEW A \in SUBSET AllRefs, SettingsInv, GoodSet(A, live, set), FindsUsable(A, live),
         NEW o \in Outages, UseSources(o)
  PROVE  /\ GoodSet(A, live, set')
         /\ \/ set' = set
            \/ \E c \in set.resolve : \E T : Resolved(c, A, T, set, Upstreams(o), set')
<1>1. PICK cfg : cfg = live
  OBVIOUS
<1>2. PICK now : now = set
  OBVIOUS
<1>3. PICK world : world = Upstreams(o)
  OBVIOUS
<1>4. \A s \in {"jellyfin", "plex"} :
        /\ Libraries(cfg, s) \in Seq(Refs) /\ world[s].libs \in Seq(ListedLibraries)
        /\ Usable(A, s, FoundFor(cfg, s, world).refs)
  BY <1>1, <1>3, SettingsTypes, LibrariesOf DEF FindsUsable, WellTyped
<1>5. GoodSet(A, cfg, now)
  BY <1>1, <1>2
<1>6. A \in SUBSET ({"jellyfin", "plex"} \X Refs)
  BY DEF AllRefs
<1>7. PICK then : then = CurrentSources(now, world)
  OBVIOUS
<1>8. /\ GoodSet(A, cfg, then)
      /\ then = now \/ \E c \in now.resolve : \E T : Resolved(c, A, T, now, world, then)
  BY <1>4, <1>5, <1>6, <1>7, CurrentIsGood, Zenon
<1>9. set' = then
  BY <1>2, <1>3, <1>7 DEF UseSources
<1>10. QED
  BY <1>1, <1>2, <1>3, <1>8, <1>9

LEMMA SetStep ==
  ASSUME NEW A \in SUBSET AllRefs, SettingsInv, GoodSet(A, live, set), [Next]_vars,
         FindsUsable(A, live), HasUsable(A, live')
  PROVE  GoodSet(A, live', set')
<1>1. SettingsInv'
  BY SettingsStep
<1>2. PICK after : after = live'
  OBVIOUS
<1>3. HasUsable(A, after) /\ after.val["streaming.providers"] \in Seq(Texts)
  <2>1. PICK f, e : IsFile(f) /\ IsEnv(e) /\ after.val = Resolve(f, e).val
    BY <1>1, <1>2 DEF SettingsInv
  <2>2. WellTyped(after)
    BY <2>1, ResolvedTypes
  <2>3. QED
    BY <1>2, <2>2 DEF WellTyped
<1>4. ASSUME NEW o, set' = BuildSourceSet(live', Upstreams(o).tmdb)
      PROVE  GoodSet(A, live', set')
  <2>1. \E T : Built(after, A, T, BuildSourceSet(after, Upstreams(o).tmdb))
    BY <1>3, BuildSourceSetIs DEF HasUsable
  <2>2. PICK T, built : built = BuildSourceSet(after, Upstreams(o).tmdb) /\ Built(after, A, T, built)
    BY <2>1
  <2>3. GoodSet(A, after, built)
    BY <2>2, BuiltIsGood
  <2>4. QED
    BY <1>2, <1>4, <2>2, <2>3
<1>5. ASSUME ~SourcesDiffer(live, live'), set' = set
      PROVE  GoodSet(A, live', set')
  <2>1. PICK before : before = live
    OBVIOUS
  <2>2. PICK now : now = set
    OBVIOUS
  <2>3. ~SourcesDiffer(before, after) /\ GoodSet(A, before, now)
    BY <1>2, <1>5, <2>1, <2>2
  <2>4. A \in SUBSET ({"jellyfin", "plex"} \X Refs)
    BY DEF AllRefs
  <2>5. GoodSet(A, after, now)
    BY <2>3, <2>4, GoodForBoth
  <2>6. QED
    BY <1>2, <1>5, <2>2, <2>5
<1>6. ~SourcesDiffer(live, live)
  BY DEF SourcesDiffer
<1>7. ASSUME NEW edit, NEW checked, NEW o, Save(edit, checked, o)
      PROVE  GoodSet(A, live', set')
  <2>1. PICK merged, next :
          /\ merged = Merged(file, live, edit, FoundOn(checked)) /\ next = Resolve(merged, env)
          /\ \/ UNCHANGED <<file, live, set>>
             \/ /\ file' = merged
                /\ \/ /\ Outcome(live, next) = "no_change"
                      /\ UNCHANGED <<live, set>>
                   \/ /\ Outcome(live, next) = "applied"
                      /\ live' = next /\ set' = set
                   \/ /\ Outcome(live, next) = "rebuilt"
                      /\ live' = next /\ set' = BuildSourceSet(next, Upstreams(o).tmdb)
    BY <1>7, SaveIs
  <2>2. CASE UNCHANGED <<live, set>>
    BY <1>5, <1>6, <2>2
  <2>3. CASE Outcome(live, next) = "applied" /\ live' = next /\ set' = set
    <3>1. next.val = [k \in Keys \ Toggles |-> next.val[k]]
      BY <2>1, ResolvedShape
    <3>2. live.val = [k \in Keys \ Toggles |-> live.val[k]]
      BY SettingsTypes DEF WellTyped
    <3>3. ~SourcesDiffer(live, next)
      BY <2>3, <3>1, <3>2, SameValues
    <3>4. QED
      BY <1>5, <2>3, <3>3
  <2>4. CASE live' = next /\ set' = BuildSourceSet(next, Upstreams(o).tmdb)
    BY <1>4, <2>4
  <2>5. QED
    BY <2>1, <2>2, <2>3, <2>4
<1>8. ASSUME NEW o, Restart(o)
      PROVE  GoodSet(A, live', set')
  BY <1>4, <1>8 DEF Restart
<1>9. ASSUME NEW o \in Outages, UseSources(o), live' = live
      PROVE  GoodSet(A, live', set')
  BY <1>9, UseIsGood
<1>10. CASE UNCHANGED <<live, set>>
  BY <1>5, <1>6, <1>10
<1>11. QED
  <2>1. CASE Next
    BY <1>7, <1>8, <1>9, <1>10, <2>1, OthersAre DEF Next
  <2>2. CASE UNCHANGED vars
    BY <1>10, <2>2 DEF vars
  <2>3. QED
    BY <2>1, <2>2

\* A set that is built is good, for the libraries of what it is built from.
LEMMA RebuiltIsGood ==
  ASSUME SettingsInv', NEW after, after = live', NEW A, HasUsable(A, after),
         NEW o, set' = BuildSourceSet(live', Upstreams(o).tmdb)
  PROVE  GoodSet(A, live', set')
<1>1. after.val["streaming.providers"] \in Seq(Texts)
  <2>1. PICK f, e : IsFile(f) /\ IsEnv(e) /\ after.val = Resolve(f, e).val
    BY DEF SettingsInv
  <2>2. WellTyped(after)
    BY <2>1, ResolvedTypes
  <2>3. QED
    BY <2>2 DEF WellTyped
<1>2. \E T : Built(after, A, T, BuildSourceSet(after, Upstreams(o).tmdb))
  BY <1>1, BuildSourceSetIs DEF HasUsable
<1>3. PICK T, built : built = BuildSourceSet(after, Upstreams(o).tmdb) /\ Built(after, A, T, built)
  BY <1>2
<1>4. GoodSet(A, after, built)
  BY <1>3, BuiltIsGood
<1>5. QED
  BY <1>3, <1>4

\* Where the sources would differ, they are built anew.
LEMMA ChangedIsRebuilt ==
  ASSUME SettingsInv, [Next]_vars, SourcesDiffer(live, live')
  PROVE  \E o : set' = BuildSourceSet(live', Upstreams(o).tmdb)
<1>1. ~SourcesDiffer(live, live)
  BY DEF SourcesDiffer
<1>2. live' # live
  BY <1>1
<1>3. ASSUME NEW edit, NEW checked, NEW o, Save(edit, checked, o)
      PROVE  set' = BuildSourceSet(live', Upstreams(o).tmdb)
  <2>0. PICK merged, next :
          /\ next = Resolve(merged, env)
          /\ \/ live' = live
             \/ Outcome(live, next) = "applied" /\ live' = next
             \/ live' = next /\ set' = BuildSourceSet(next, Upstreams(o).tmdb)
    BY <1>3, SaveIs
  <2>1. next.val = [k \in Keys \ Toggles |-> next.val[k]]
    BY <2>0, ResolvedShape
  <2>2. live.val = [k \in Keys \ Toggles |-> live.val[k]]
    BY SettingsTypes DEF WellTyped
  <2>3. Outcome(live, next) = "applied" => ~SourcesDiffer(live, next)
    BY <2>1, <2>2, SameValues
  <2>4. QED
    BY <1>2, <2>0, <2>3
<1>4. ASSUME NEW o, Restart(o)
      PROVE  set' = BuildSourceSet(live', Upstreams(o).tmdb)
  BY <1>4 DEF Restart
<1>5. CASE Next
  BY <1>2, <1>3, <1>4, <1>5, OthersAre DEF Next
<1>6. CASE UNCHANGED vars
  BY <1>2, <1>6 DEF vars
<1>7. QED
  BY <1>5, <1>6

----------------------------------------------------------------------------
(***************************************************************************)
(* The theorems.                                                           *)
(***************************************************************************)

\* The inductive invariant: the live values are what the file and the
\* environment resolve to, and the set is one that they call for.
DeploymentInv == SettingsInv /\ GoodSet(AllRefs, live, set)

LEMMA InvAtFirst == Init => DeploymentInv
<1> SUFFICES ASSUME Init PROVE DeploymentInv
  OBVIOUS
<1>1. SettingsInv
  BY SettingsHoldAtFirst
<1>2. HasUsable(AllRefs, live)
  BY <1>1, SettingsTypes, AllUsable DEF WellTyped
<1>3. QED
  BY <1>1, <1>2, SetAtFirst DEF DeploymentInv

LEMMA InvStep == DeploymentInv /\ [Next]_vars => DeploymentInv'
<1> SUFFICES ASSUME DeploymentInv, [Next]_vars
             PROVE  DeploymentInv'
  OBVIOUS
<1>1. SettingsInv /\ GoodSet(AllRefs, live, set)
  BY DEF DeploymentInv
<1>2. SettingsInv'
  BY <1>1, SettingsStep
<1>3. PICK after : after = live'
  OBVIOUS
<1>4. WellTyped(after)
  <2>1. PICK f, e : IsFile(f) /\ IsEnv(e) /\ after.val = Resolve(f, e).val
    BY <1>2, <1>3 DEF SettingsInv
  <2>2. QED
    BY <2>1, ResolvedTypes
<1>5. HasUsable(AllRefs, after)
  BY <1>4, AllUsable DEF WellTyped
<1>6. FindsUsable(AllRefs, live)
  BY <1>1, SettingsTypes, AllUsable DEF WellTyped
<1>7. GoodSet(AllRefs, live', set')
  BY <1>1, <1>3, <1>5, <1>6, SetStep
<1>8. QED
  BY <1>2, <1>7 DEF DeploymentInv

\* Whatever is saved, restarted and resolved in whatever order, the process runs
\* on what a restart would find, with a set that its configuration calls for.
THEOREM DeploymentInvariant == Spec => []DeploymentInv
BY InvAtFirst, InvStep, PTL DEF Spec

LEMMA GoodQueries ==
  ASSUME NEW cfg, NEW held, GoodSet(AllRefs, cfg, held)
  PROVE  /\ \A src \in Range(held.order) : QueriesWith(src, cfg)
         /\ \A c \in held.resolve : ~SourcesDiffer(c, cfg)
         /\ held.resolve # {} => held.pending # <<>>
         /\ Cardinality(IDs(held.order)) = Len(held.order)
<1>1. PICK T : SourceList(GoodSources(cfg, AllRefs, T), held.order)
  BY DEF GoodSet
<1>2. PICK order \in Seq(GoodSources(cfg, AllRefs, T)) : order = held.order
  BY <1>1 DEF SourceList
<1>3. ASSUME NEW src \in Range(order)
      PROVE  QueriesWith(src, cfg)
  <2>1. src \in GoodSources(cfg, AllRefs, T)
    BY <1>2, ElementsOf
  <2>2. CASE \E a \in AllRefs : src = Client(cfg, a[1], a[2])
    <3>1. PICK s \in {"jellyfin", "plex"}, ref \in Refs : src = Client(cfg, s, ref)
      BY <2>2 DEF AllRefs
    <3>2. src.service = s
      BY <3>1 DEF Client
    <3>3. s # "tmdb"
      OBVIOUS
    <3>4. PICK now : now = Client(cfg, s, Library(src.scope, Empty))
      OBVIOUS
    <3>5. src.base = now.base /\ src.key = now.key /\ src.unwatched = now.unwatched
      BY <3>1, <3>4 DEF Client
    <3>6. QED
      BY <3>2, <3>3, <3>4, <3>5 DEF QueriesWith
  <2>3. CASE \E p \in T : src = NewTMDBSource(cfg, p)
    BY <2>3 DEF NewTMDBSource, QueriesWith
  <2>4. QED
    BY <2>1, <2>2, <2>3 DEF GoodSources
<1>4. Cardinality(IDs(order)) = Len(order)
  <2>1. PICK n \in Nat : n = Len(order) /\ DOMAIN order = 1..n
    BY ElementsOf
  <2>2. PICK ids : ids = [i \in 1..n |-> order[i].id]
    BY Zenon
  <2>3. DOMAIN ids = 1..n /\ ids = [i \in 1..n |-> ids[i]]
    BY <2>2
  <2>4. \A i, j \in 1..n : ids[i] = ids[j] => i = j
    BY <1>1, <1>2, <2>1, <2>2 DEF SourceList
  <2>5. Cardinality(Range(ids)) = n
    BY <2>3, <2>4, AllDifferent
  <2>6. Range(ids) = IDs(order)
    BY <2>1, <2>2 DEF Range, IDs
  <2>7. QED
    BY <2>1, <2>5, <2>6
<1>5. \A c \in held.resolve : ~SourcesDiffer(c, cfg)
  BY DEF GoodSet
<1>6. held.resolve # {} => held.pending # <<>>
  BY DEF GoodSet
<1>7. QED
  BY <1>2, <1>3, <1>4, <1>5, <1>6

\* What a source queries with and what names are resolved with is what was
\* saved last, for every file, environment and edit (sourceset.go:225-291).
THEOREM EverythingIsCurrent == Spec => []RunsWhatWasSaved
<1>1. DeploymentInv => RunsWhatWasSaved
  <2> SUFFICES ASSUME DeploymentInv PROVE RunsWhatWasSaved
    OBVIOUS
  <2>1. GoodSet(AllRefs, live, set) /\ Resolve(file, env).val = live.val
    BY DEF DeploymentInv, SettingsInv
  <2>2. /\ \A src \in Range(set.order) : QueriesWith(src, live)
        /\ \A cfg \in set.resolve : ~SourcesDiffer(cfg, live)
    BY <2>1, GoodQueries
  <2>3. QED
    BY <2>1, <2>2 DEF RunsWhatWasSaved
<1>2. QED
  BY <1>1, DeploymentInvariant, PTL

\* The configuration is a resolved one, the set offers no source twice, and it
\* keeps a configuration to resolve names with only while it has names.
THEOREM DeploymentTypeCorrect == Spec => []DeploymentTypeOK
<1>1. DeploymentInv => DeploymentTypeOK
  <2> SUFFICES ASSUME DeploymentInv PROVE DeploymentTypeOK
    OBVIOUS
  <2>1. GoodSet(AllRefs, live, set) /\ live.disabled \subseteq Toggles /\ saves \in 0..MaxSaves
    BY DEF DeploymentInv, SettingsInv
  <2>2. DOMAIN live.val = Keys \ Toggles
    BY SettingsTypes DEF WellTyped, DeploymentInv
  <2>3. set.resolve # {} => set.pending # <<>>
    BY <2>1, GoodQueries
  <2>4. Cardinality(IDs(set.order)) = Len(set.order)
    BY <2>1, GoodQueries
  <2>5. QED
    BY <2>1, <2>2, <2>3, <2>4 DEF DeploymentTypeOK
<1>2. QED
  BY <1>1, DeploymentInvariant, PTL

\* Saving the screen as it was drawn changes nothing and is refused for nothing
\* but a token of spaces: for every file and every environment, whatever was
\* saved before, with the credentials the screen never had.
THEOREM UntouchedSavesAreNeutral == Spec => []UntouchedSaveIsNeutral
<1>1. DeploymentInv => UntouchedSaveIsNeutral
  <2> SUFFICES ASSUME DeploymentInv, ValidateSettings(live) = {}
               PROVE  LET next == Resolve(ApplySettings(file, BuildUpdate(Draft(live), live)), env)
                          token == live.val["streaming.tmdbReadToken"]
                      IN /\ Outcome(live, next) = "no_change"
                         /\ \/ ValidateSettings(next) = {}
                            \/ /\ ValidateSettings(next) = {"streaming.tmdbReadToken"}
                               /\ token # Empty /\ IsBlank(token)
    BY DEF UntouchedSaveIsNeutral
  <2>1. PICK merged : merged = Merged(file, live, <<>>, <<>>)
    OBVIOUS
  <2>2. ApplySettings(file, BuildUpdate(Draft(live), live)) = merged
    BY <2>1, NoEdits
  <2>3. PICK next : next = Resolve(merged, env)
    OBVIOUS
  <2>4. PICK token : token = live.val["streaming.tmdbReadToken"]
    OBVIOUS
  <2>5. SettingsInv
    BY DEF DeploymentInv
  <2>6. IsFile(file) /\ IsEnv(env) /\ live.val = Resolve(file, env).val
    BY <2>5 DEF SettingsInv
  <2>7. PICK none : none = <<>> /\ DOMAIN none = {}
    OBVIOUS
  <2>8. ASSUME NEW k \in Keys \ Toggles
        PROVE  next.val[k] = live.val[k]
    <3>1. k \notin DOMAIN none /\ live.val[k] = Resolve(file, env).val[k]
      BY <2>6, <2>7
    <3>2. Resolve(Merged(file, live, none, none), env).val[k] = live.val[k]
      BY <2>6, <3>1, NotEditedKeepsItsValue
    <3>3. QED
      BY <2>1, <2>3, <2>7, <3>2
  <2>9. next.disabled = {k \in Toggles : ~ShowsOn(live, k)}
    <3>1. ASSUME NEW k \in Toggles
          PROVE  merged.keys[k] = ShowsOn(live, k)
      <4>1. k \in Keys /\ k \notin Secrets /\ k \notin DOMAIN none
        BY <2>7, KeyKinds DEF Keys
      <4>2. Merged(file, live, none, none).keys[k] = ShowsOn(live, k)
        BY <4>1, NotEdited
      <4>3. QED
        BY <2>1, <2>7, <4>2
    <3>2. \A k \in Toggles : ShowsOn(live, k) \in BOOLEAN
      BY DEF ShowsOn
    <3>3. next.disabled = {k \in Toggles : merged.keys[k] = FALSE}
      BY <2>3 DEF Resolve
    <3>4. QED
      BY <3>1, <3>2, <3>3
  <2>10. Outcome(live, next) = "no_change"
    <3>1. next.val = [k \in Keys \ Toggles |-> next.val[k]]
      BY <2>3, ResolvedShape
    <3>2. live.val = [k \in Keys \ Toggles |-> live.val[k]]
      BY <2>5, SettingsTypes DEF WellTyped
    <3>3. next.val = live.val
      BY <2>8, <3>1, <3>2
    <3>4. QED
      BY <3>1, <3>2, <3>3, SameValues
  <2>11. PICK cfg : cfg = live
    OBVIOUS
  <2>12. \/ ValidateSettings(next) = {}
         \/ /\ ValidateSettings(next) = {"streaming.tmdbReadToken"}
            /\ token # Empty /\ IsBlank(token)
    <3>1. \A k \in Keys \ Toggles : next.val[k] = cfg.val[k]
      BY <2>8, <2>11
    <3>2. next.disabled = {k \in Toggles : ~ShowsOn(cfg, k)}
      BY <2>9, <2>11
    <3>3. ValidateSettings(cfg) = {} /\ token = cfg.val["streaming.tmdbReadToken"]
      BY <2>4, <2>11
    <3>4. QED
      BY <3>1, <3>2, <3>3, UntouchedIsValid
  <2>13. QED
    BY <2>2, <2>3, <2>4, <2>10, <2>12
<1>2. QED
  BY <1>1, DeploymentInvariant, PTL

\* A save changes no value but those that were edited, and writes the switches
\* that were not as the screen shows them, whatever the file and the environment
\* hold and whichever keys are edited to whatever values: no service that shows as
\* on is switched off by it (settings.go:198-266, 438-440).
THEOREM SavesChangeOnlyEdits == Spec => SaveChangesOnlyWhatWasEdited
<1>1. ASSUME DeploymentInv, [Next]_vars
      PROVE  [answer' # NoAnswer /\ answer'.kind = "save" =>
                /\ \A k \in (Keys \ Toggles) \ DOMAIN answer'.edit :
                     live'.val[k] = live.val[k] /\ Resolve(file', env).val[k] = live.val[k]
                /\ \A k \in Toggles \ DOMAIN answer'.edit :
                     /\ k \in live'.disabled => ~ShowsOn(live, k)
                     /\ answer'.code = 200 =>
                          (k \in Resolve(file', env).disabled <=> ~ShowsOn(live, k))]_vars
  <2>1. ASSUME NEW edit, NEW checked, NEW o, Save(edit, checked, o),
               NEW k \in (Keys \ Toggles) \ DOMAIN edit
        PROVE  live'.val[k] = live.val[k] /\ Resolve(file', env).val[k] = live.val[k]
    <3>1. PICK merged, next :
            /\ merged = Merged(file, live, edit, FoundOn(checked)) /\ next = Resolve(merged, env)
            /\ \/ UNCHANGED <<file, live, set>>
               \/ /\ file' = merged
                  /\ \/ /\ Outcome(live, next) = "no_change"
                        /\ UNCHANGED <<live, set>>
                     \/ /\ Outcome(live, next) = "applied"
                        /\ live' = next /\ set' = set
                     \/ /\ Outcome(live, next) = "rebuilt"
                        /\ live' = next /\ set' = BuildSourceSet(next, Upstreams(o).tmdb)
      BY <2>1, SaveIs
    <3>2. IsFile(file) /\ IsEnv(env) /\ live.val = Resolve(file, env).val
      BY <1>1 DEF DeploymentInv, SettingsInv
    <3>3. k \in Keys \ Toggles /\ k \notin DOMAIN edit /\ live.val[k] = Resolve(file, env).val[k]
      BY <2>1, <3>2
    <3>4. Resolve(Merged(file, live, edit, FoundOn(checked)), env).val[k] = live.val[k]
      BY <3>2, <3>3, NotEditedKeepsItsValue
    <3>5. next.val[k] = live.val[k]
      BY <3>1, <3>4
    <3>6. CASE UNCHANGED <<file, live, set>>
      BY <3>3, <3>6
    <3>7. CASE file' = merged /\ (live' = live \/ live' = next)
      BY <3>1, <3>5, <3>7
    <3>8. QED
      BY <3>1, <3>6, <3>7
  <2>2. ASSUME NEW edit, NEW checked, NEW o, Save(edit, checked, o),
               NEW k \in Toggles \ DOMAIN edit
        PROVE  /\ k \in live'.disabled => ~ShowsOn(live, k)
               /\ answer'.code = 200 =>
                    (k \in Resolve(file', env).disabled <=> ~ShowsOn(live, k))
    <3>1. PICK merged, next :
            /\ merged = Merged(file, live, edit, FoundOn(checked)) /\ next = Resolve(merged, env)
            /\ \/ UNCHANGED <<file, live>> /\ answer'.code # 200
               \/ file' = merged /\ (live' = live \/ live' = next)
      BY <2>2, SaveIs
    <3>2. k \in Keys /\ k \notin Secrets
      BY KeyKinds DEF Keys
    <3>3. merged.keys[k] = ShowsOn(live, k)
      BY <2>2, <3>1, <3>2, NotEdited
    <3>4. ShowsOn(live, k) \in BOOLEAN
      BY DEF ShowsOn
    <3>5. k \in next.disabled <=> ~ShowsOn(live, k)
      BY <2>2, <3>1, <3>3, <3>4 DEF Resolve
    <3>6. k \in live.disabled => ~ShowsOn(live, k)
      BY DEF ShowsOn
    <3>7. QED
      BY <3>1, <3>5, <3>6
  <2>3. ASSUME NEW edit, NEW checked, NEW o, Save(edit, checked, o)
        PROVE  answer'.edit = edit
    BY <2>3, SaveIs
  <2>4. CASE Next
    <3>1. \/ \E edit, checked, o : Save(edit, checked, o)
          \/ answer' = NoAnswer \/ answer'.kind # "save"
      BY <2>4 DEF Next, Restart, AskPreview, AskWarm, AskFilters, AskVerify, AskProviders, Check,
                  Expire, RetryDue
    <3>2. QED
      BY <2>1, <2>2, <2>3, <3>1
  <2>5. CASE UNCHANGED vars
    BY <2>5
  <2>6. QED
    BY <1>1, <2>4, <2>5
<1>2. QED
  BY <1>1, DeploymentInvariant, PTL DEF Spec, SaveChangesOnlyWhatWasEdited

LEMMA VerdictsStep == DeploymentInv /\ VerdictHolds /\ [Next]_vars => VerdictHolds'
<1> SUFFICES ASSUME DeploymentInv, VerdictHolds, [Next]_vars
             PROVE  VerdictHolds'
  OBVIOUS
<1>1. "val" \in DOMAIN live /\ DOMAIN live.val = Keys \ Toggles
  BY SettingsTypes DEF DeploymentInv, SettingsInv, WellTyped
<1>2. ASSUME NEW req, NEW o, AskVerify(req, o)
      PROVE  VerdictHolds'
  <2>1. PICK cfg : cfg = live
    OBVIOUS
  <2>2. PICK up : up = Upstreams(o)
    OBVIOUS
  <2>3. live' = cfg
    BY <1>2, <2>1 DEF AskVerify
  <2>4. PICK kind, got :
          /\ answer' = [kind |-> kind, req |-> req, outage |-> o, got |-> got]
          /\ \/ kind = "jellyfin" /\ got = VerifyJellyfin(req, cfg, up.jellyfin)
             \/ kind = "users"
             \/ kind = "plex" /\ got = VerifyPlex(req, cfg, up.plex)
             \/ kind = "tmdb" /\ got = VerifyTMDB(req, cfg, cache, up.tmdb).verdict
    BY <1>2, <2>1, <2>2 DEF AskVerify, Check
  <2>5. /\ answer'.kind = kind /\ answer'.req = req /\ answer'.outage = o /\ answer'.got = got
    BY <2>4
  <2>6. /\ JellyfinVerdictHolds(req, cfg, up.jellyfin, VerifyJellyfin(req, cfg, up.jellyfin))
        /\ PlexVerdictHolds(req, cfg, up.plex, VerifyPlex(req, cfg, up.plex))
        /\ TMDBVerdictHolds(req, cfg, up.tmdb, VerifyTMDB(req, cfg, cache, up.tmdb).verdict)
    <3>1. "val" \in DOMAIN cfg /\ DOMAIN cfg.val = Keys \ Toggles
      BY <1>1, <2>1
    <3>2. PICK server : server = up.plex /\ server.libs \in Seq(ListedLibraries)
      BY <2>2, LibrariesOf
    <3>3. PICK tmdb : tmdb = up.tmdb /\ tmdb.url = Empty
      BY <2>2, UpstreamIs, WorldAssumption
    <3>4. JellyfinVerdictHolds(req, cfg, up.jellyfin, VerifyJellyfin(req, cfg, up.jellyfin))
      BY <3>1, JellyfinVerdict
    <3>5. PlexVerdictHolds(req, cfg, server, VerifyPlex(req, cfg, server))
      BY <3>1, <3>2, PlexVerdict, Zenon
    <3>6. TMDBVerdictHolds(req, cfg, tmdb, VerifyTMDB(req, cfg, cache, tmdb).verdict)
      BY <3>3, TMDBVerdict
    <3>7. QED
      BY <3>2, <3>3, <3>4, <3>5, <3>6
  <2>7. QED
    BY <2>2, <2>3, <2>4, <2>5, <2>6 DEF VerdictHolds, Answered
<1>3. CASE answer' = NoAnswer \/ answer'.kind \in {"save", "preview", "warm", "filters", "providers"}
  BY <1>3 DEF VerdictHolds, Answered
<1>4. CASE UNCHANGED vars
  BY <1>4 DEF VerdictHolds, Answered, vars
<1>5. CASE Next
  <2>1. \/ \E req \in Candidates, o \in Outages : AskVerify(req, o)
        \/ answer' = NoAnswer
        \/ answer'.kind \in {"save", "preview", "warm", "filters", "providers"}
    BY <1>5, SaveIs DEF Next, Restart, AskPreview, AskWarm, AskFilters, AskProviders, Check, Expire, RetryDue
  <2>2. QED
    BY <1>2, <1>3, <2>1
<1>6. QED
  BY <1>4, <1>5

\* Whatever is checked, against whatever server in whatever trouble and with
\* whatever is saved, the verdict is what a source of those values would meet.
THEOREM VerdictsHold == Spec => []VerdictHolds
<1>1. Init => VerdictHolds
  BY DEF Init, VerdictHolds, Answered
<1>2. QED
  BY <1>1, VerdictsStep, DeploymentInvariant, PTL DEF Spec

\* An identifier with a library in it is of one service's library.
LEMMA OneLibraryPerID ==
  ASSUME NEW cfg, NEW A \in SUBSET AllRefs, NEW T, NEW src \in GoodSources(cfg, A, T),
         NEW service, NEW ref, ref.id # Empty, src.id = LibraryScopedID(service, ref)
  PROVE  src.service = service /\ src.scope = ref.id
<1>1. PICK id : id = <<service, ref.id>>
  BY Zenon
<1>2. src.id = id
  BY <1>1 DEF LibraryScopedID
<1>3. Len(id) = 2 /\ id[1] = service /\ id[2] = ref.id
  BY <1>1
<1>4. CASE \E p \in T : src = NewTMDBSource(cfg, p)
  <2>1. PICK p : src = NewTMDBSource(cfg, p)
    BY <1>4
  <2>2. PICK one : one = <<p.id>>
    BY Zenon
  <2>3. src.id = one /\ Len(one) = 1
    BY <2>1, <2>2 DEF NewTMDBSource
  <2>4. QED
    BY <1>2, <1>3, <2>3
<1>5. CASE \E a \in A : src = Client(cfg, a[1], a[2])
  <2>1. PICK a \in A : src = Client(cfg, a[1], a[2])
    BY <1>5
  <2>2. PICK s, r : s = a[1] /\ r = a[2]
    OBVIOUS
  <2>3. src.id = LibraryScopedID(s, r) /\ src.service = s /\ src.scope = r.id
    BY <2>1, <2>2 DEF Client
  <2>4. CASE r.id = Empty
    <3>1. PICK one : one = <<s>>
      BY Zenon
    <3>2. src.id = one /\ Len(one) = 1
      BY <2>3, <2>4, <3>1 DEF LibraryScopedID
    <3>3. QED
      BY <1>2, <1>3, <3>2
  <2>5. CASE r.id # Empty
    <3>1. PICK two : two = <<s, r.id>>
      BY Zenon
    <3>2. src.id = two /\ two[1] = s /\ two[2] = r.id
      BY <2>3, <2>5, <3>1 DEF LibraryScopedID
    <3>3. QED
      BY <1>2, <1>3, <2>3, <3>2
  <2>6. QED
    BY <2>4, <2>5
<1>6. QED
  BY <1>4, <1>5 DEF GoodSources

LEMMA NothingIsLost ==
  ASSUME DeploymentInv, NEW o \in Outages, UseSources(o)
  PROVE  /\ IDs(set.order) \subseteq IDs(set'.order)
         /\ \A p \in Range(set.pending) :
              \/ p \in Range(set'.pending)
              \/ \E src \in Range(set'.order), l \in Range(World[p.service].libs) :
                   /\ src.service = p.service /\ src.scope = l.id
                   /\ l.movies /\ Folded(l.name) = Folded(p.name)
<1>1. SettingsInv /\ GoodSet(AllRefs, live, set)
  BY DEF DeploymentInv
<1>2. FindsUsable(AllRefs, live) /\ AllRefs \in SUBSET AllRefs
  BY <1>1, SettingsTypes, AllUsable DEF WellTyped
<1>3. \/ set' = set
      \/ \E c \in set.resolve : \E T : Resolved(c, AllRefs, T, set, Upstreams(o), set')
  BY <1>1, <1>2, UseIsGood
<1>4. CASE set' = set
  BY <1>4
<1>5. CASE \E c \in set.resolve : \E T : Resolved(c, AllRefs, T, set, Upstreams(o), set')
  <2>1. PICK c \in set.resolve : \E T : Resolved(c, AllRefs, T, set, Upstreams(o), set')
    BY <1>5
  <2>2. PICK more : more = set'
    OBVIOUS
  <2>3. PICK now : now = set
    OBVIOUS
  <2>4. PICK world : world = Upstreams(o)
    OBVIOUS
  <2>5. PICK T : Resolved(c, AllRefs, T, now, world, more)
    BY <2>1, <2>2, <2>3, <2>4
  <2>6. ~SourcesDiffer(c, live) /\ now.pending \in Seq(NamesOf(c))
    BY <1>1, <2>3 DEF GoodSet
  <2>7. PICK cfg : cfg = live
    OBVIOUS
  <2>8. \A s \in {"jellyfin", "plex"} : Libraries(c, s) \in Seq(Refs)
    <3>1. \A s \in {"jellyfin", "plex"} : Libraries(c, s) = Libraries(cfg, s)
      BY <2>6, <2>7, SameClients
    <3>2. QED
      BY <1>1, <2>7, <3>1, SettingsTypes DEF WellTyped
  <2>9. IDs(now.order) \subseteq IDs(more.order)
    BY <2>5 DEF Resolved
  <2>10. ASSUME NEW p \in Range(now.pending), p \notin Range(more.pending)
         PROVE  \E src \in Range(more.order), l \in Range(World[p.service].libs) :
                   /\ src.service = p.service /\ src.scope = l.id
                   /\ l.movies /\ Folded(l.name) = Folded(p.name)
    <3>1. p \in NamesOf(c)
      <4>1. PICK names \in Seq(NamesOf(c)) : names = now.pending
        BY <2>6
      <4>2. QED
        BY <2>10, <4>1, ElementsOf
    <3>2. PICK s \in {"jellyfin", "plex"} : s = p.service
      BY <3>1 DEF NamesOf
    <3>3. p = Pending(s, p.name) /\ Configured(c, s)
      BY <3>1, <3>2 DEF NamesOf, Named, Pending
    <3>4. PICK ref \in Range(Libraries(c, s)) : ref.id = p.name /\ IsPendingName(s, ref)
      BY <3>1, <3>2 DEF NamesOf, Named
    <3>5. PICK found : found = FoundFor(c, s, world)
      OBVIOUS
    <3>6. PICK server : server = world[s]
      OBVIOUS
    <3>7. Replaced(s, Libraries(c, s), MovieLibraries(server), found)
      BY <2>4, <2>8, <3>5, <3>6, FoundRefs
    <3>8. ref \notin Range(found.unmatched)
      <4>1. \A r \in Range(found.unmatched) : Pending(s, r.id) \in Range(more.pending)
        BY <2>5, <3>5 DEF Resolved
      <4>2. QED
        BY <2>10, <3>3, <3>4, <4>1
    <3>9. PICK r \in Range(found.refs) : r \in Range(MovieLibraries(server)) /\ Folded(r.name) = Folded(ref.id)
      BY <3>4, <3>7, <3>8 DEF Replaced
    <3>10. LibraryScopedID(s, r) \in IDs(more.order)
      BY <2>5, <3>3, <3>5, <3>9 DEF Resolved
    <3>11. server.libs \in Seq(ListedLibraries) /\ server.libs = World[s].libs
      BY <2>4, <3>6, LibrariesOf, UpstreamIs
    <3>12. /\ r.id # Empty
           /\ \E l \in Range(server.libs) : l.movies /\ l.id = r.id /\ l.name = r.name
      BY <3>9, <3>11, MovieLibrariesAre
    <3>13. PICK l \in Range(World[s].libs) : l.movies /\ l.id = r.id /\ l.name = r.name
      BY <3>11, <3>12
    <3>14. PICK order \in Seq(GoodSources(c, AllRefs, T)) : order = more.order
      BY <2>5 DEF Resolved, SourceList
    <3>15. PICK src \in Range(order) : src.id = LibraryScopedID(s, r)
      BY <3>10, <3>14, IDsAre
    <3>16. src \in GoodSources(c, AllRefs, T)
      BY <3>14, <3>15, ElementsOf
    <3>17. src.service = s /\ src.scope = r.id
      BY <1>2, <3>12, <3>15, <3>16, OneLibraryPerID
    <3>18. QED
      BY <3>2, <3>4, <3>9, <3>13, <3>14, <3>15, <3>17
  <2>11. QED
    BY <2>2, <2>3, <2>9, <2>10
<1>6. QED
  BY <1>3, <1>4, <1>5

\* Whatever the libraries are called and however the server lists them,
\* resolving names loses no source and no name.
THEOREM ResolutionIsLossless == Spec => ResolutionLosesNothing
<1>1. ASSUME DeploymentInv, [Next]_vars
      PROVE  [answer' # NoAnswer /\ answer'.kind \in {"preview", "filters"} =>
                /\ IDs(set.order) \subseteq IDs(set'.order)
                /\ \A p \in Range(set.pending) :
                     \/ p \in Range(set'.pending)
                     \/ \E src \in Range(set'.order), l \in Range(World[p.service].libs) :
                          /\ src.service = p.service /\ src.scope = l.id
                          /\ l.movies /\ Folded(l.name) = Folded(p.name)]_vars
  <2>1. CASE Next
    <3>1. \/ \E o \in Outages : UseSources(o)
          \/ answer' = NoAnswer
          \/ answer'.kind \in {"save", "jellyfin", "users", "plex", "tmdb", "providers"}
      BY <2>1, SaveIs DEF Next, Restart, AskPreview, AskWarm, AskFilters, AskVerify, AskProviders,
                          Check, Expire, RetryDue
    <3>2. QED
      BY <1>1, <3>1, NothingIsLost
  <2>2. CASE UNCHANGED vars
    BY <2>2
  <2>3. QED
    BY <1>1, <2>1, <2>2
<1>2. QED
  BY <1>1, DeploymentInvariant, PTL DEF Spec, ResolutionLosesNothing

----------------------------------------------------------------------------
(***************************************************************************)
(* Identifiers and names.                                                  *)
(***************************************************************************)

\* What has a name has an identifier that the server gave it, or is a name that
\* the screen saved as its own.
RealRefs(service, refs) ==
  \A ref \in Range(refs) : ref.name # Empty => IsIdentifier(service, ref.id) \/ ref.id = ref.name

LEMMA TrimmedIdentifier ==
  ASSUME NEW t, t \in Texts, NEW service
  PROVE  IsIdentifier(service, TrimSpace(t)) <=> IsIdentifier(service, t)
BY DEF IsIdentifier, TrimSpace, Texts

\* A pair that is made of an entry is made of a pair.
LEMMA PairOfPair ==
  ASSUME NEW service, NEW l \in FileRefs, l.id # Absent,
         IsPair(l) => IsIdentifier(service, l.id) \/ TrimSpace(l.id) = TrimSpace(l.name),
         NEW r, r = Entered(l), ~IsBlank(r.id), ~IsBlank(r.name)
  PROVE  IsIdentifier(service, r.id) \/ r.id = r.name
<1>1. l.id \in Texts
  BY DEF FileRefs
<1>2. r.id = TrimSpace(l.id) /\ r.name = IF l.name = Absent THEN Empty ELSE TrimSpace(l.name)
  BY DEF Entered, Library
<1>3. IsBlank(Empty)
  BY PlainFacts, TextsAssumption DEF IsBlank, Empty
<1>4. l.name # Absent /\ l.name \in Texts
  BY <1>2, <1>3 DEF FileRefs
<1>5. ~IsBlank(l.id) /\ ~IsBlank(l.name)
  BY <1>1, <1>2, <1>4, TextFacts
<1>6. IsIdentifier(service, l.id) \/ TrimSpace(l.id) = TrimSpace(l.name)
  BY <1>4, <1>5 DEF IsPair
<1>7. QED
  BY <1>1, <1>2, <1>4, <1>6, TrimmedIdentifier

LEMMA PairsOfFile ==
  ASSUME NEW service, NEW entries \in Seq(FileRefs), RealPairs(service, entries)
  PROVE  RealRefs(service, FileLibraries(entries))
<1>1. PICK out : out = FileLibraries(entries)
  OBVIOUS
<1>2. CleanRefs(out) /\ \A r \in Range(out) : \E l \in Range(entries) : l.id # Absent /\ r = Entered(l)
  BY <1>1, FileLibrariesIs
<1>3. ASSUME NEW r \in Range(out), r.name # Empty
      PROVE  IsIdentifier(service, r.id) \/ r.id = r.name
  <2>1. PICK i \in DOMAIN out : r = out[i]
    BY <1>3 DEF Range
  <2>2. ~IsBlank(r.id) /\ TrimSpace(r.name) = r.name
    BY <1>2, <2>1 DEF CleanRefs
  <2>3. ~IsBlank(r.name)
    BY <1>3, <2>2 DEF IsBlank
  <2>4. PICK l \in Range(entries) : l.id # Absent /\ r = Entered(l)
    BY <1>2, <1>3
  <2>5. l \in FileRefs
    BY <2>4, ElementsOf
  <2>6. IsPair(l) => IsIdentifier(service, l.id) \/ TrimSpace(l.id) = TrimSpace(l.name)
    BY <2>4 DEF RealPairs
  <2>7. QED
    BY <2>2, <2>3, <2>4, <2>5, <2>6, PairOfPair, Zenon
<1>4. QED
  BY <1>1, <1>3 DEF RealRefs

LEMMA PairsOfList ==
  ASSUME NEW service, NEW k \in LibraryLists, NEW list \in Seq(Refs), RealPairs(service, list)
  PROVE  RealPairs(service, StoredList(k, list))
<1>1. PICK out : out = StoredList(k, list)
  OBVIOUS
<1>2. \A r \in Range(out) : \E l \in Range(list) : r = Entered(l)
  BY <1>1, StoredIs
<1>3. ASSUME NEW r \in Range(out), IsPair(r)
      PROVE  IsIdentifier(service, r.id) \/ r.id = r.name
  <2>1. PICK l \in Range(list) : r = Entered(l)
    BY <1>2, <1>3
  <2>2. l \in Refs
    BY <2>1, ElementsOf
  <2>3. l.id # Absent /\ l \in FileRefs
    BY <2>2, AbsentIsNothing DEF Refs, FileRefs
  <2>4. IsPair(l) => IsIdentifier(service, l.id) \/ TrimSpace(l.id) = TrimSpace(l.name)
    BY <2>1 DEF RealPairs
  <2>5. ~IsBlank(r.id) /\ ~IsBlank(r.name)
    BY <1>3 DEF IsPair
  <2>6. QED
    BY <2>1, <2>3, <2>4, <2>5, PairOfPair, Zenon
<1>4. QED
  BY <1>1, <1>3 DEF RealPairs

LEMMA RefsArePairs ==
  ASSUME NEW service, NEW refs, RealRefs(service, refs)
  PROVE  RealPairs(service, refs)
<1>1. IsBlank(Empty)
  BY PlainFacts, TextsAssumption DEF IsBlank, Empty
<1>2. QED
  BY <1>1 DEF RealRefs, RealPairs, IsPair

\* What a file and an environment resolve to.
LEMMA PairsResolve ==
  ASSUME NEW f, NEW e, IsFile(f), IsEnv(e), NEW cfg, cfg.val = Resolve(f, e).val,
         NEW s \in {"jellyfin", "plex"},
         f.keys[LibrariesKey(s)] # Absent => RealPairs(s, f.keys[LibrariesKey(s)])
  PROVE  RealRefs(s, Libraries(cfg, s))
<1>1. PICK k \in LibraryLists : k = LibrariesKey(s)
  BY DEF LibrariesKey, LibraryLists
<1>2. /\ k \in Keys \ Toggles /\ k \in Lists /\ k # "streaming.providers" /\ k # "streaming.watchRegion"
      /\ k # "publicUrl" /\ k # "sessionTtl"
  BY DEF Keys, Toggles, Lists, LibraryLists
<1>3. Libraries(cfg, s) = ValueOf(f, e, k)
  BY <1>1, <1>2 DEF Libraries, Resolve
<1>4. CASE f.keys[k] # Absent
  <2>1. f.keys[k] \in Seq(FileRefs)
    BY <1>2, <1>4 DEF IsFile
  <2>2. ValueOf(f, e, k) = FileLibraries(f.keys[k])
    BY <1>2, <1>4 DEF ValueOf, FileSets, FromFile
  <2>3. QED
    BY <1>1, <1>3, <1>4, <2>1, <2>2, PairsOfFile
<1>5. CASE f.keys[k] = Absent /\ EnvSets(e, k)
  <2>1. ValueOf(f, e, k) = ParseLibraryList(EnvList(e, k))
    BY <1>2, <1>5 DEF ValueOf, FileSets, FromEnv
  <2>2. EnvList(e, k) \in Seq(Texts)
    <3>1. e[k] \in Seq(Texts)
      BY <1>2 DEF IsEnv
    <3>2. e["plex.librarySection"] \in Texts
      <4>1. "plex.librarySection" \in Keys \ Toggles /\ "plex.librarySection" \notin Lists
        BY DEF Keys, Toggles, Scalars, Secrets, Lists, LibraryLists
      <4>2. QED
        BY <4>1 DEF IsEnv
    <3>3. PICK one : one = <<e["plex.librarySection"]>>
      BY Zenon
    <3>4. one \in Seq(Texts)
      BY <3>2, <3>3
    <3>5. EnvList(e, k) = one \/ EnvList(e, k) = e[k]
      BY <3>3 DEF EnvList
    <3>6. QED
      BY <3>1, <3>4, <3>5
  <2>3. PICK raw \in Seq(Texts) : raw = EnvList(e, k)
    BY <2>2
  <2>4. \A r \in Range(ParseLibraryList(raw)) : r.name = Empty
    BY ParsedIs
  <2>5. QED
    BY <1>3, <2>1, <2>3, <2>4 DEF RealRefs
<1>6. CASE f.keys[k] = Absent /\ ~EnvSets(e, k)
  <2>1. PICK nothing : nothing = <<>>
    OBVIOUS
  <2>2. ValueOf(f, e, k) = nothing
    BY <1>2, <1>6, <2>1 DEF ValueOf, FileSets, DefaultOf
  <2>3. Range(nothing) = {}
    BY <2>1 DEF Range
  <2>4. QED
    BY <1>3, <2>2, <2>3 DEF RealRefs
<1>7. QED
  BY <1>4, <1>5, <1>6

\* What the file has in the place of a library list is made of entries that are.
PairsInv ==
  \A s \in {"jellyfin", "plex"} :
    file.keys[LibrariesKey(s)] # Absent => RealPairs(s, file.keys[LibrariesKey(s)])

LEMMA LiveRefs ==
  ASSUME SettingsInv, PairsInv, NEW s \in {"jellyfin", "plex"}
  PROVE  RealRefs(s, Libraries(live, s))
<1>1. IsFile(file) /\ IsEnv(env) /\ live.val = Resolve(file, env).val
  BY DEF SettingsInv
<1>2. file.keys[LibrariesKey(s)] # Absent => RealPairs(s, file.keys[LibrariesKey(s)])
  BY DEF PairsInv
<1>3. QED
  BY <1>1, <1>2, PairsResolve

LEMMA PairsAtFirst == Init => PairsInv
<1> SUFFICES ASSUME Init, NEW s \in {"jellyfin", "plex"}, file.keys[LibrariesKey(s)] # Absent
             PROVE  RealPairs(s, file.keys[LibrariesKey(s)])
  BY DEF PairsInv
<1>1. file \in Files /\ s \in Range(Services)
  BY ServicesAre DEF Init
<1>2. QED
  BY <1>1, PairsAssumption

\* What is picked is what the server lists, or what was chosen already.
LEMMA PickedPairs ==
  ASSUME NEW s \in {"jellyfin", "plex"}, NEW found \in Seq(Refs), NEW chosen \in Seq(Refs),
         RealRefs(s, chosen), \A l \in Range(found) : IsIdentifier(s, l.id),
         NEW list \in Seq(PickerOptions(found, chosen))
  PROVE  list \in Seq(Refs) /\ RealPairs(s, list)
<1>1. PICK options : options = PickerOptions(found, chosen)
  OBVIOUS
<1>2. /\ options \subseteq Refs
      /\ \A l \in options : \/ l \in Range(found)
                            \/ l \in Range(chosen) /\ l.name # Empty
                            \/ l.name = l.id
  BY <1>1, OptionsAre
<1>3. list \in Seq(options)
  BY <1>1
<1>4. \A l \in options : IsIdentifier(s, l.id) \/ l.id = l.name
  BY <1>2 DEF RealRefs
<1>5. Range(list) \subseteq options
  BY <1>3, ElementsOf
<1>6. list \in Seq(Refs)
  BY <1>2, <1>3, SeqMonotonic
<1>7. QED
  BY <1>4, <1>5, <1>6 DEF RealPairs

\* A save stores what the file had, what was picked, or what the process runs on.
LEMMA SavedPairs ==
  ASSUME SettingsInv, PairsInv, NEW edit \in Edits, NEW checked, NEW s \in {"jellyfin", "plex"},
         NEW merged, merged = Merged(file, live, edit, FoundOn(checked)),
         merged.keys[LibrariesKey(s)] # Absent
  PROVE  RealPairs(s, merged.keys[LibrariesKey(s)])
<1>1. PICK k \in LibraryLists : k = LibrariesKey(s)
  BY DEF LibrariesKey, LibraryLists
<1>2. k \in Keys \ Toggles /\ k \in Lists /\ k \in Keys /\ k \notin Secrets
  BY KeyKinds DEF Keys, Toggles, Lists, LibraryLists, Secrets
<1>3. file.keys[k] # Absent => RealPairs(s, file.keys[k])
  BY <1>1 DEF PairsInv
<1>4. PICK own \in Seq(Refs) : own = live.val[k] /\ own = Libraries(live, s)
  BY <1>1, SettingsTypes DEF WellTyped, Libraries
<1>5. RealRefs(s, own)
  BY <1>4, LiveRefs
<1>6. CASE k \in DOMAIN edit
  <2>1. PICK screen : screen = Edited(Draft(live), edit, FoundOn(checked))
    OBVIOUS
  <2>2. PICK req : req = BuildUpdate(screen, live)
    OBVIOUS
  <2>3. PICK found \in Seq(Refs) : found = FoundOn(checked)[k]
    BY FoundOnIs DEF FoundTypes
  <2>4. \A l \in Range(found) : IsIdentifier(s, l.id)
    <3>1. \A l \in Range(found) : \E m \in Range(World[s].libs) : m.movies /\ m.id = l.id /\ l.id # Empty
      BY <1>1, <2>3, FoundOnIs
    <3>2. \A l \in Range(World[s].libs) : l.movies /\ l.id # Empty => IsIdentifier(s, l.id)
      BY ServicesAre, PairsAssumption
    <3>3. QED
      BY <3>1, <3>2
  <2>5. EditTypes(edit) /\ FoundTypes(FoundOn(checked))
    BY EditsAssumption, FoundOnIs DEF EditTypes
  <2>6. screen[k] \in Seq(PickerOptions(found, own))
    BY <1>2, <1>4, <1>6, <2>1, <2>3, <2>5, EditedTypes
  <2>7. PICK list \in Seq(Refs) : list = screen[k] /\ RealPairs(s, list)
    BY <1>5, <2>4, <2>6, PickedPairs
  <2>8. req.keys[k] = Absent \/ req.keys[k] = list
    BY <1>2, <2>2, <2>7 DEF BuildUpdate
  <2>9. merged.keys[k] = IF k \in req.clear THEN Absent
                         ELSE IF req.keys[k] = Absent THEN file.keys[k]
                         ELSE StoredList(k, req.keys[k])
    BY <1>2, <2>1, <2>2 DEF Merged, ApplySettings
  <2>10. merged.keys[k] = file.keys[k] \/ merged.keys[k] = StoredList(k, list)
    BY <1>1, <2>8, <2>9
  <2>11. RealPairs(s, StoredList(k, list))
    BY <2>7, PairsOfList
  <2>12. QED
    BY <1>1, <1>3, <2>10, <2>11
<1>7. CASE k \notin DOMAIN edit
  <2>1. merged.keys[k] = file.keys[k] \/ merged.keys[k] = StoredList(k, own)
    <3>1. PICK old, cfg, found : old = file /\ cfg = live /\ found = FoundOn(checked)
      OBVIOUS
    <3>2. merged.keys[k] = IF k \in Secrets THEN old.keys[k]
                           ELSE IF k \in Toggles THEN ShowsOn(cfg, k)
                           ELSE IF cfg.val[k] = Absent THEN old.keys[k]
                           ELSE IF k \in Lists THEN StoredList(k, cfg.val[k]) ELSE cfg.val[k]
      BY <1>2, <1>7, <3>1, NotEdited
    <3>3. QED
      BY <1>2, <1>4, <3>1, <3>2
  <2>2. RealPairs(s, own)
    BY <1>5, RefsArePairs
  <2>3. RealPairs(s, StoredList(k, own))
    BY <2>2, PairsOfList
  <2>4. QED
    BY <1>1, <1>3, <2>1, <2>3
<1>8. QED
  BY <1>6, <1>7

LEMMA PairsStep == SettingsInv /\ PairsInv /\ [Next]_vars => PairsInv'
<1> SUFFICES ASSUME SettingsInv, PairsInv, [Next]_vars
             PROVE  PairsInv'
  OBVIOUS
<1>1. CASE file' = file
  BY <1>1 DEF PairsInv
<1>2. ASSUME NEW edit \in Edits, NEW checked, NEW o, Save(edit, checked, o)
      PROVE  PairsInv'
  <2>1. PICK merged : /\ merged = Merged(file, live, edit, FoundOn(checked))
                      /\ file' = file \/ file' = merged
    BY <1>2, SaveIs
  <2>2. \A s \in {"jellyfin", "plex"} :
          merged.keys[LibrariesKey(s)] # Absent => RealPairs(s, merged.keys[LibrariesKey(s)])
    BY <2>1, SavedPairs
  <2>3. QED
    BY <1>1, <2>1, <2>2 DEF PairsInv
<1>3. QED
  <2>1. CASE Next
    BY <1>1, <1>2, <2>1, OthersAre DEF Next
  <2>2. CASE UNCHANGED vars
    BY <1>1, <2>2 DEF vars
  <2>3. QED
    BY <2>1, <2>2

\* Libraries under an identifier, or under a name that the configuration has for
\* its own name, and the one over everything.
RealLibraries(cfg) ==
  {a \in AllRefs : \/ a[2].id = Empty \/ IsIdentifier(a[1], a[2].id)
                   \/ a[2].id = a[2].name /\ a[2] \in Range(Libraries(cfg, a[1]))}

LEMMA RealAreUsable ==
  ASSUME NEW cfg, NEW s \in {"jellyfin", "plex"}, NEW refs \in Seq(Refs),
         \A r \in Range(refs) : \/ IsPendingName(s, r) \/ r.name = Empty
                                \/ IsIdentifier(s, r.id)
                                \/ r.id = r.name /\ r \in Range(Libraries(cfg, s))
  PROVE  Usable(RealLibraries(cfg), s, refs)
<1>1. ASSUME NEW ref \in Refs,
             \/ ref.id = Empty \/ IsIdentifier(s, ref.id)
             \/ ref.id = ref.name /\ ref \in Range(Libraries(cfg, s))
      PROVE  <<s, ref>> \in RealLibraries(cfg)
  <2>1. PICK a : a = <<s, ref>>
    BY Zenon
  <2>2. a \in AllRefs /\ a[1] = s /\ a[2] = ref
    BY <2>1 DEF AllRefs
  <2>3. QED
    BY <1>1, <2>1, <2>2 DEF RealLibraries
<1>2. ASSUME NEW ref \in Range(LibraryRefsOrAll(refs)), ~IsPendingName(s, ref)
      PROVE  <<s, ref>> \in RealLibraries(cfg)
  <2>1. CASE refs = <<>>
    <3>1. PICK all : all = <<Library(Empty, Empty)>>
      BY Zenon
    <3>2. Len(all) = 1 /\ all[1] = Library(Empty, Empty) /\ DOMAIN all = {1}
      BY <3>1
    <3>3. LibraryRefsOrAll(refs) = all
      BY <2>1, <3>1 DEF LibraryRefsOrAll
    <3>4. ref = Library(Empty, Empty)
      BY <1>2, <3>2, <3>3 DEF Range
    <3>5. ref \in Refs /\ ref.id = Empty
      BY <3>4, TextsAssumption, PlainFacts DEF Library, Refs, Empty
    <3>6. QED
      BY <1>1, <3>5
  <2>2. CASE refs # <<>>
    <3>1. ref \in Range(refs)
      BY <1>2, <2>2 DEF LibraryRefsOrAll
    <3>2. ref \in Refs
      BY <3>1, ElementsOf
    <3>3. \/ ref.id = Empty \/ IsIdentifier(s, ref.id)
          \/ ref.id = ref.name /\ ref \in Range(Libraries(cfg, s))
      BY <1>2, <3>1 DEF IsPendingName
    <3>4. QED
      BY <1>1, <3>2, <3>3
  <2>3. QED
    BY <2>1, <2>2
<1>3. QED
  BY <1>2 DEF Usable

\* In a library list, and in what its names are found to be, what is no name is
\* an identifier.
LEMMA RealRefsAreUsable ==
  ASSUME NEW cfg, \A s \in {"jellyfin", "plex"} :
           Libraries(cfg, s) \in Seq(Refs) /\ RealRefs(s, Libraries(cfg, s))
  PROVE  HasUsable(RealLibraries(cfg), cfg) /\ FindsUsable(RealLibraries(cfg), cfg)
<1>1. ASSUME NEW s \in {"jellyfin", "plex"}
      PROVE  Usable(RealLibraries(cfg), s, Libraries(cfg, s))
  <2>1. PICK refs \in Seq(Refs) : refs = Libraries(cfg, s) /\ RealRefs(s, refs)
    OBVIOUS
  <2>2. QED
    BY <2>1, RealAreUsable DEF RealRefs
<1>2. ASSUME NEW o \in Outages, NEW s \in {"jellyfin", "plex"}
      PROVE  Usable(RealLibraries(cfg), s, FoundFor(cfg, s, Upstreams(o)).refs)
  <2>1. PICK found : found = FoundFor(cfg, s, Upstreams(o))
    OBVIOUS
  <2>2. PICK server : server = Upstreams(o)[s]
    OBVIOUS
  <2>3. /\ found.refs \in Seq(Refs)
        /\ Replaced(s, Libraries(cfg, s), MovieLibraries(server), found)
    BY <2>1, <2>2, FoundRefs
  <2>4. server.libs \in Seq(ListedLibraries) /\ server.libs = World[s].libs
    BY <2>2, LibrariesOf, UpstreamIs
  <2>5. \A r \in Range(MovieLibraries(server)) : IsIdentifier(s, r.id)
    <3>1. \A l \in Range(World[s].libs) : l.movies /\ l.id # Empty => IsIdentifier(s, l.id)
      BY ServicesAre, PairsAssumption
    <3>2. QED
      BY <2>4, <3>1, MovieLibrariesAre
  <2>6. ASSUME NEW r \in Range(found.refs)
        PROVE  \/ IsPendingName(s, r) \/ r.name = Empty \/ IsIdentifier(s, r.id)
               \/ r.id = r.name /\ r \in Range(Libraries(cfg, s))
    BY <2>3, <2>5 DEF Replaced, RealRefs
  <2>7. PICK refs \in Seq(Refs) : refs = found.refs
    BY <2>3
  <2>8. Usable(RealLibraries(cfg), s, refs)
    BY <2>6, <2>7, RealAreUsable
  <2>9. QED
    BY <2>1, <2>7, <2>8
<1>3. QED
  BY <1>1, <1>2 DEF HasUsable, FindsUsable

\* The inductive invariant of the names: the entries of the file are pairs as the
\* servers or the screen made them, and the libraries of the sources are real, or
\* such names.
NamesInv == SettingsInv /\ PairsInv /\ GoodSet(RealLibraries(live), live, set)

LEMMA LiveIsUsable ==
  ASSUME SettingsInv, PairsInv
  PROVE  HasUsable(RealLibraries(live), live) /\ FindsUsable(RealLibraries(live), live)
<1>1. \A s \in {"jellyfin", "plex"} :
        Libraries(live, s) \in Seq(Refs) /\ RealRefs(s, Libraries(live, s))
  BY SettingsTypes, LiveRefs DEF WellTyped
<1>2. QED
  BY <1>1, RealRefsAreUsable

LEMMA NamesAtFirst == Init => NamesInv
BY SettingsHoldAtFirst, PairsAtFirst, LiveIsUsable, SetAtFirst DEF NamesInv

\* A set that is kept is kept with the libraries it was built from.
LEMMA SameRealLibraries ==
  ASSUME NEW a, NEW b, ~SourcesDiffer(a, b)
  PROVE  RealLibraries(a) = RealLibraries(b)
<1>1. \A s \in {"jellyfin", "plex"} : Libraries(a, s) = Libraries(b, s)
  BY SameClients
<1>2. QED
  BY <1>1 DEF RealLibraries, AllRefs

LEMMA NamesStep == NamesInv /\ [Next]_vars => NamesInv'
<1> SUFFICES ASSUME NamesInv, [Next]_vars
             PROVE  NamesInv'
  OBVIOUS
<1>1. SettingsInv /\ PairsInv /\ GoodSet(RealLibraries(live), live, set)
  BY DEF NamesInv
<1>2. SettingsInv' /\ PairsInv'
  BY <1>1, SettingsStep, PairsStep
<1>3. PICK before : before = live
  OBVIOUS
<1>4. PICK after : after = live'
  OBVIOUS
<1>5. PICK A, B : A = RealLibraries(before) /\ B = RealLibraries(after)
  OBVIOUS
<1>6. A \in SUBSET AllRefs /\ B \in SUBSET AllRefs
  BY <1>5 DEF RealLibraries
<1>7. GoodSet(A, live, set) /\ FindsUsable(A, live)
  BY <1>1, <1>3, <1>5, LiveIsUsable
<1>8. ASSUME NEW s \in {"jellyfin", "plex"}
      PROVE  Libraries(after, s) \in Seq(Refs) /\ RealRefs(s, Libraries(after, s))
  <2>1. PICK f, e : f = file' /\ e = env'
    OBVIOUS
  <2>2. IsFile(f) /\ IsEnv(e) /\ after.val = Resolve(f, e).val
    BY <1>2, <1>4, <2>1 DEF SettingsInv
  <2>3. f.keys[LibrariesKey(s)] # Absent => RealPairs(s, f.keys[LibrariesKey(s)])
    BY <1>2, <2>1 DEF PairsInv
  <2>4. WellTyped(after)
    BY <2>2, ResolvedTypes
  <2>5. QED
    BY <2>2, <2>3, <2>4, PairsResolve, Zenon DEF WellTyped
<1>9. HasUsable(B, after)
  BY <1>5, <1>8, RealRefsAreUsable
<1>10. GoodSet(B, live', set')
  <2>1. CASE ~SourcesDiffer(live, live')
    <3>1. ~SourcesDiffer(before, after)
      BY <1>3, <1>4, <2>1
    <3>2. A = B
      BY <1>5, <3>1, SameRealLibraries
    <3>3. QED
      BY <1>1, <1>4, <1>6, <1>7, <1>9, <3>2, SetStep
  <2>2. CASE SourcesDiffer(live, live')
    <3>1. PICK o : set' = BuildSourceSet(live', Upstreams(o).tmdb)
      BY <1>1, <2>2, ChangedIsRebuilt
    <3>2. QED
      BY <1>2, <1>4, <1>9, <3>1, RebuiltIsGood
  <2>3. QED
    BY <2>1, <2>2
<1>11. GoodSet(RealLibraries(after), after, set')
  BY <1>4, <1>5, <1>10
<1>12. QED
  BY <1>2, <1>4, <1>11 DEF NamesInv

LEMMA RealScopes ==
  ASSUME NEW cfg, NEW now, GoodSet(RealLibraries(cfg), cfg, now), NEW src \in Range(now.order),
         src.service # "tmdb", src.scope # Empty
  PROVE  \/ IsIdentifier(src.service, src.scope)
         \/ Library(src.scope, src.scope) \in Range(Libraries(cfg, src.service))
<1>1. PICK T : SourceList(GoodSources(cfg, RealLibraries(cfg), T), now.order)
  BY DEF GoodSet
<1>2. PICK order \in Seq(GoodSources(cfg, RealLibraries(cfg), T)) : order = now.order
  BY <1>1 DEF SourceList
<1>3. src \in GoodSources(cfg, RealLibraries(cfg), T)
  BY <1>2, ElementsOf
<1>4. CASE \E a \in RealLibraries(cfg) : src = Client(cfg, a[1], a[2])
  <2>1. PICK a \in RealLibraries(cfg) : src = Client(cfg, a[1], a[2])
    BY <1>4
  <2>2. src.service = a[1] /\ src.scope = a[2].id
    BY <2>1 DEF Client
  <2>3. CASE IsIdentifier(a[1], a[2].id)
    BY <2>2, <2>3
  <2>4. CASE a[2].id = a[2].name /\ a[2] \in Range(Libraries(cfg, a[1]))
    <3>1. a[2] \in Refs
      BY <2>1 DEF RealLibraries, AllRefs
    <3>2. a[2] = Library(src.scope, src.scope)
      BY <2>2, <2>4, <3>1 DEF Refs, Library
    <3>3. QED
      BY <2>2, <2>4, <3>2
  <2>5. QED
    BY <2>1, <2>2, <2>3, <2>4 DEF RealLibraries
<1>5. CASE \E p \in T : src = NewTMDBSource(cfg, p)
  BY <1>5 DEF NewTMDBSource
<1>6. QED
  BY <1>3, <1>4, <1>5 DEF GoodSources

\* However libraries are configured, picked and found, what a source is scoped
\* to is an identifier, or a name that the picker saved as its own name, which
\* is then in the list the process runs on (libraryresolve.go:24-37,
\* sourceset.go:25-31, Settings.tsx:462-466).
THEOREM NamesBecomeIDsOnlyByPicking == Spec => []NamesAreNotIDs
<1>1. NamesInv => NamesAreNotIDs
  BY RealScopes DEF NamesInv, NamesAreNotIDs
<1>2. QED
  BY <1>1, NamesAtFirst, NamesStep, PTL DEF Spec

----------------------------------------------------------------------------
(***************************************************************************)
(* What the sources answer.                                                *)
(***************************************************************************)

Cards(src, S) == {Film(src, m) : m \in S}

\* A source's answer has cards of the films in S only, and none if it failed.
ResultOf(src, S, result) ==
  /\ result = [status |-> result.status, movies |-> result.movies]
  /\ result.status # 200 => result.movies = <<>>
  /\ result.movies \in Seq(Cards(src, S))

Fitting(f, src, films) == {m \in Range(films) : Fits(m, f, src)}

Films(service) == World[service].films

LEMMA SelectedAre ==
  ASSUME NEW G, NEW order \in Seq(G), NEW requested
  PROVE  SelectSources(order, requested) \in Seq(G)
<1>1. PICK chosen : chosen = Only(order, {s \in Range(order) : s.id \in requested})
  BY Zenon
<1>2. chosen \in Seq(G)
  <2>1. PICK S : S = {s \in Range(order) : s.id \in requested}
    BY Zenon
  <2>2. chosen \in Seq(G \cap S)
    BY <1>1, <2>1, OnlyIs
  <2>3. G \cap S \subseteq G
    OBVIOUS
  <2>4. QED
    BY <2>2, <2>3, SeqMonotonic
<1>3. CASE chosen = <<>> /\ order # <<>>
  <2>1. Head(order) \in G
    BY <1>3, HeadTailProperties
  <2>2. PICK one : one = <<Head(order)>>
    BY Zenon
  <2>3. one \in Seq(G)
    BY <2>1, <2>2
  <2>4. QED
    BY <1>1, <1>3, <2>2, <2>3 DEF SelectSources
<1>4. CASE ~(chosen = <<>> /\ order # <<>>)
  BY <1>1, <1>2, <1>4 DEF SelectSources
<1>5. QED
  BY <1>3, <1>4

\* Films made into cards, one by one.
LEMMA CardsOf ==
  ASSUME NEW src, NEW S, NEW films \in Seq(S)
  PROVE  [i \in DOMAIN films |-> Film(src, films[i])] \in Seq(Cards(src, S))
<1>1. PICK n \in Nat : n = Len(films) /\ DOMAIN films = 1..n /\ \A i \in 1..n : films[i] \in S
  BY ElementsOf
<1>2. PICK out : out = [i \in 1..n |-> Film(src, films[i])]
  BY Zenon
<1>3. \A i \in 1..n : Film(src, films[i]) \in Cards(src, S)
  BY <1>1 DEF Cards
<1>4. out \in [1..n -> Cards(src, S)]
  BY <1>2, <1>3
<1>5. out \in Seq(Cards(src, S))
  BY <1>4, Mapped
<1>6. QED
  BY <1>1, <1>2, <1>5

LEMMA FailedIs ==
  ASSUME NEW src, NEW S, NEW status
  PROVE  ResultOf(src, S, Failed(status))
<1>1. PICK nothing : nothing = <<>>
  OBVIOUS
<1>2. nothing \in Seq(Cards(src, S))
  BY <1>1
<1>3. PICK result : result = [status |-> status, movies |-> nothing]
  BY Zenon
<1>4. Failed(status) = result
  BY <1>1, <1>3 DEF Failed
<1>5. result.status = status /\ result.movies = nothing
  BY <1>3
<1>6. ResultOf(src, S, result)
  BY <1>1, <1>2, <1>3, <1>5 DEF ResultOf
<1>7. QED
  BY <1>4, <1>6

LEMMA FoundIs ==
  ASSUME NEW src, NEW S, NEW movies \in Seq(Cards(src, S))
  PROVE  ResultOf(src, S, Found(movies))
BY DEF ResultOf, Found

\* The years of a query are those that were asked for.
LEMMA YearsAre ==
  ASSUME NEW f, f.yearMin \in Int, f.yearMax \in Int, NEW y \in Nat,
         \/ ~(f.yearMin > 0 \/ f.yearMax > 0)
         \/ YearsList(f.yearMin, f.yearMax) = {}
         \/ y \in YearsList(f.yearMin, f.yearMax),
         f.yearMax = 0 \/ f.yearMin <= f.yearMax
  PROVE  y >= f.yearMin /\ (f.yearMax > 0 => y <= f.yearMax)
<1>1. PICK a \in Int, b \in Int : a = f.yearMin /\ b = f.yearMax
  OBVIOUS
<1>2. CASE ~(a > 0 \/ b > 0)
  BY <1>1, <1>2
<1>3. CASE a > 0 \/ b > 0
  <2>1. PICK from \in Int : from = IF a = 0 THEN b ELSE a
    OBVIOUS
  <2>2. PICK to \in Int : to = IF b = 0 THEN a ELSE b
    OBVIOUS
  <2>3. from <= to
    BY <1>1, <1>3, <2>1, <2>2
  <2>4. YearsList(a, b) = from..to
    BY <2>1, <2>2, <2>3 DEF YearsList
  <2>5. from \in from..to
    BY <2>3
  <2>6. y \in from..to
    BY <1>1, <1>3, <2>4, <2>5
  <2>7. QED
    BY <1>1, <1>3, <2>1, <2>2, <2>6
<1>4. QED
  BY <1>2, <1>3

\* What a media server is asked for fits, for a floor of its own.
LEMMA MatchingIs ==
  ASSUME NEW server, NEW T, server.films \in Seq(T), NEW f, f.yearMin \in Int, f.yearMax \in Int,
         NEW scope, NEW floor, NEW unwatched, NEW src, src.service # "tmdb",
         \A m \in Range(server.films) : m.year \in Nat
  PROVE  /\ Matching(server, Query(f, scope, floor, unwatched)) \in Seq(T)
         /\ \A m \in Range(Matching(server, Query(f, scope, floor, unwatched))) :
              /\ m \in Range(server.films) /\ m.score >= floor
              /\ m.score >= f.ratingMin => Fits(m, f, src)
<1>1. PICK films \in Seq(T) : films = server.films
  OBVIOUS
<1>2. PICK q : q = Query(f, scope, floor, unwatched)
  OBVIOUS
<1>3. PICK years : years = IF f.yearMin > 0 \/ f.yearMax > 0 THEN YearsList(f.yearMin, f.yearMax) ELSE {}
  BY Zenon
<1>4. /\ q.genres = f.genres /\ q.years = years /\ q.floor = floor /\ q.ratings = f.ratings
  BY <1>2, <1>3 DEF Query
<1>5. PICK S : S = {m \in Range(films) :
                      /\ q.scope \in {Empty, m.library}
                      /\ q.genres = {} \/ m.genres \cap q.genres # {}
                      /\ q.years = {} \/ m.year \in q.years
                      /\ m.score >= q.floor
                      /\ q.ratings = {} \/ m.rating \in q.ratings
                      /\ q.unwatched => ~m.watched}
  BY Zenon
<1>6. PICK out : out = Only(films, S)
  OBVIOUS
<1>7. Matching(server, q) = out
  BY <1>1, <1>5, <1>6 DEF Matching
<1>8. out \in Seq(T \cap S) /\ Range(out) = Range(films) \cap S
  BY <1>6, OnlyIs
<1>9. out \in Seq(T)
  <2>1. T \cap S \subseteq T
    OBVIOUS
  <2>2. QED
    BY <1>8, <2>1, SeqMonotonic
<1>10. ASSUME NEW m \in Range(out)
       PROVE  /\ m \in Range(films) /\ m.score >= floor
              /\ m.score >= f.ratingMin => Fits(m, f, src)
  <2>1. /\ m \in Range(films) /\ m.year \in Nat /\ m.score >= floor
        /\ f.genres = {} \/ m.genres \cap f.genres # {}
        /\ years = {} \/ m.year \in years
        /\ f.ratings = {} \/ m.rating \in f.ratings
    BY <1>1, <1>4, <1>5, <1>8, <1>10
  <2>2. \/ ~(f.yearMin > 0 \/ f.yearMax > 0)
        \/ YearsList(f.yearMin, f.yearMax) = {}
        \/ m.year \in YearsList(f.yearMin, f.yearMax)
    BY <1>3, <2>1
  <2>3. f.yearMax = 0 \/ f.yearMin <= f.yearMax =>
          m.year >= f.yearMin /\ (f.yearMax > 0 => m.year <= f.yearMax)
    BY <2>1, <2>2, YearsAre
  <2>4. f.genres \cap m.genres = m.genres \cap f.genres
    OBVIOUS
  <2>5. QED
    BY <2>1, <2>3, <2>4 DEF Fits
<1>11. QED
  BY <1>1, <1>2, <1>7, <1>9, <1>10

\* A server, its films and what is asked of it.
Shelved(server, f) ==
  /\ server.films \in Seq(Range(server.films))
  /\ \A m \in Range(server.films) : m.year \in Nat
  /\ f.yearMin \in Int /\ f.yearMax \in Int

LEMMA JellyfinResult ==
  ASSUME NEW src, NEW f, NEW server, Shelved(server, f), src.service # "tmdb"
  PROVE  ResultOf(src, Fitting(f, src, server.films), JellyfinMovies(src, f, server))
<1>1. PICK S : S = Fitting(f, src, server.films)
  OBVIOUS
<1>2. PICK T : T = Range(server.films)
  OBVIOUS
<1>3. PICK q : q = Query(f, src.scope, f.ratingMin, f.unwatched /\ src.unwatched)
  OBVIOUS
<1>4. PICK films : films = Matching(server, q)
  OBVIOUS
<1>5. /\ films \in Seq(T)
      /\ \A m \in Range(films) : /\ m \in T /\ m.score >= f.ratingMin
                                 /\ m.score >= f.ratingMin => Fits(m, f, src)
  BY <1>2, <1>3, <1>4, MatchingIs DEF Shelved
<1>6. Range(films) \subseteq S
  BY <1>1, <1>2, <1>5 DEF Fitting
<1>7. films \in Seq(S)
  BY <1>5, <1>6, OwnRange, SeqMonotonic
<1>8. PICK movies \in Seq(Cards(src, S)) : movies = [i \in DOMAIN films |-> Film(src, films[i])]
  BY <1>7, CardsOf, Zenon
<1>9. \/ \E status : JellyfinMovies(src, f, server) = Failed(status)
      \/ JellyfinMovies(src, f, server) = Found(movies)
  BY <1>3, <1>4, <1>8 DEF JellyfinMovies, Apply
<1>10. QED
  BY <1>1, <1>9, FailedIs, FoundIs

LEMMA PlexResult ==
  ASSUME NEW src, NEW f, NEW server, NEW known, Shelved(server, f), src.service # "tmdb"
  PROVE  ResultOf(src, Fitting(f, src, server.films), PlexMovies(src, f, server, known))
<1>1. PICK S : S = Fitting(f, src, server.films)
  OBVIOUS
<1>2. PICK T : T = Range(server.films)
  OBVIOUS
<1>3. ASSUME NEW section, NEW films,
             films = Only(Matching(server, ApplyPlex(f, section)),
                          {m \in Range(server.films) : m.score >= f.ratingMin})
      PROVE  films \in Seq(S)
  <2>1. PICK q : q = Query(f, section, 0, f.unwatched)
    OBVIOUS
  <2>2. PICK all : all = Matching(server, q)
    OBVIOUS
  <2>3. /\ all \in Seq(T)
        /\ \A m \in Range(all) : m \in T /\ (m.score >= f.ratingMin => Fits(m, f, src))
    <3>1. PICK floor : floor = 0
      OBVIOUS
    <3>2. PICK unwatched : /\ unwatched = f.unwatched
                           /\ all = Matching(server, Query(f, section, floor, unwatched))
      BY <2>1, <2>2, <3>1
    <3>3. /\ server.films \in Seq(T) /\ f.yearMin \in Int /\ f.yearMax \in Int
          /\ \A m \in T : m.year \in Nat
      BY <1>2 DEF Shelved
    <3>4. /\ Matching(server, Query(f, section, floor, unwatched)) \in Seq(T)
          /\ \A m \in Range(Matching(server, Query(f, section, floor, unwatched))) :
               m \in Range(server.films) /\ (m.score >= f.ratingMin => Fits(m, f, src))
      BY ONLY <1>2, <3>3, src.service # "tmdb", MatchingIs, Zenon
    <3>5. QED
      BY <1>2, <3>2, <3>4
  <2>4. PICK enough : enough = {m \in Range(server.films) : m.score >= f.ratingMin}
    BY Zenon
  <2>5. films = Only(all, enough)
    BY <1>3, <2>1, <2>2, <2>4 DEF ApplyPlex
  <2>6. films \in Seq(T \cap enough) /\ Range(films) = Range(all) \cap enough
    BY <2>3, <2>5, OnlyIs
  <2>7. Range(films) \subseteq S
    BY <1>1, <1>2, <2>3, <2>4, <2>6 DEF Fitting
  <2>8. QED
    BY <2>6, <2>7, OwnRange, SeqMonotonic
<1>4. PICK own : own = IF f.libraryId # Empty THEN [status |-> 200, section |-> f.libraryId]
                       ELSE MovieSection(src, server, known)
  BY Zenon
<1>5. PICK films : films = Only(Matching(server, ApplyPlex(f, own.section)),
                                {m \in Range(server.films) : m.score >= f.ratingMin})
  OBVIOUS
<1>6. films \in Seq(S)
  BY <1>3, <1>5
<1>7. PICK movies \in Seq(Cards(src, S)) : movies = [i \in DOMAIN films |-> Film(src, films[i])]
  BY <1>6, CardsOf, Zenon
<1>8. \/ \E status : PlexMovies(src, f, server, known) = Failed(status)
      \/ PlexMovies(src, f, server, known) = Found(movies)
  BY <1>4, <1>5, <1>7 DEF PlexMovies
<1>9. QED
  BY <1>1, <1>8, FailedIs, FoundIs

\* What TMDB is asked for fits, if it is asked anything.
LEMMA DiscoverIs ==
  ASSUME NEW src, NEW f, NEW tmdb, Shelved(tmdb, f), src.service = "tmdb", NEW c \in Certs(f)
  PROVE  /\ Discover(src, f, c, tmdb) \in Seq(Range(tmdb.films))
         /\ Range(Discover(src, f, c, tmdb)) \subseteq Fitting(f, src, tmdb.films)
<1>1. PICK T : T = Range(tmdb.films)
  OBVIOUS
<1>2. PICK films \in Seq(T) : films = tmdb.films
  BY <1>1 DEF Shelved
<1>3. PICK S : S = {m \in Range(films) :
                      /\ src.scope \in m.providers
                      /\ MapGenres(f.genres) = {} \/ m.genreIDs \cap MapGenres(f.genres) # {}
                      /\ f.yearMin > 0 => m.year >= f.yearMin
                      /\ f.yearMax > 0 => m.year <= f.yearMax
                      /\ m.score >= f.ratingMin
                      /\ c = Absent \/ m.rating = c}
  BY Zenon
<1>4. PICK out : out = Only(films, S)
  OBVIOUS
<1>5. Discover(src, f, c, tmdb) = out
  BY <1>2, <1>3, <1>4 DEF Discover
<1>6. out \in Seq(T \cap S) /\ Range(out) = Range(films) \cap S
  BY <1>4, OnlyIs
<1>7. out \in Seq(T)
  <2>1. T \cap S \subseteq T
    OBVIOUS
  <2>2. QED
    BY <1>6, <2>1, SeqMonotonic
<1>8. /\ f.genres # {} => MapGenres(f.genres) # {}
      /\ f.ratings # {} => c \in f.ratings /\ c # Absent
  <2>1. f.ratings # {} => c \in MapCertifications(f.ratings)
    BY DEF Certs
  <2>2. QED
    BY <2>1, CertificationsAssumption DEF Certs, MapCertifications
<1>9. ASSUME NEW m \in Range(out)
      PROVE  m \in T /\ Fits(m, f, src)
  <2>1. /\ m \in T /\ m.year \in Nat /\ m.score >= f.ratingMin
        /\ f.yearMin > 0 => m.year >= f.yearMin
        /\ f.yearMax > 0 => m.year <= f.yearMax
        /\ c = Absent \/ m.rating = c
        /\ MapGenres(f.genres) = {} \/ m.genreIDs \cap MapGenres(f.genres) # {}
    BY <1>1, <1>2, <1>3, <1>6, <1>9 DEF Shelved
  <2>2. m.year >= f.yearMin
    BY <2>1 DEF Shelved
  <2>3. f.genres # {} => \E g \in f.genres \cap DOMAIN GenreIDs : GenreIDs[g] \in m.genreIDs
    BY <1>8, <2>1 DEF MapGenres
  <2>4. f.ratings # {} => m.rating \in f.ratings
    BY <1>8, <2>1
  <2>5. QED
    BY <2>1, <2>2, <2>3, <2>4 DEF Fits
<1>10. QED
  BY <1>1, <1>2, <1>5, <1>7, <1>9 DEF Fitting

LEMMA OnPagesAre ==
  ASSUME NEW T, NEW films \in Seq(T), NEW pages
  PROVE  OnPages(films, pages) \subseteq Range(films)
BY ElementsOf DEF OnPages

\* Finitely many films as the cards of an answer.
LEMMA HandAsCards ==
  ASSUME NEW src, NEW S, IsFiniteSet(S), NEW hand \in SUBSET S
  PROVE  /\ SetToSeq({Film(src, m) : m \in hand}) \in Seq(Cards(src, S))
         /\ Range(SetToSeq({Film(src, m) : m \in hand})) = {Film(src, m) : m \in hand}
<1>1. PICK cards : cards = {Film(src, m) : m \in hand}
  BY Zenon
<1>2. IsFiniteSet(cards)
  <2>1. PICK g : g = [m \in hand |-> Film(src, m)]
    BY Zenon
  <2>2. g \in Surjection(hand, cards)
    BY <1>1, <2>1 DEF Surjection
  <2>3. IsFiniteSet(hand)
    BY FS_Subset
  <2>4. QED
    BY <2>2, <2>3, FS_Surjection
<1>3. SetToSeq(cards) \in Seq(cards) /\ Range(SetToSeq(cards)) = cards
  BY <1>2, SetAsSequence
<1>4. cards \subseteq Cards(src, S)
  BY <1>1 DEF Cards
<1>5. SetToSeq(cards) \in Seq(Cards(src, S))
  BY <1>3, <1>4, SeqMonotonic
<1>6. QED
  BY <1>1, <1>3, <1>5

Streamed(src, f, tmdb, result) ==
  \E d \in Draws(src, f, tmdb) : \E hand \in Hands(Pool(src, f, tmdb, d)) :
    result = Found(SetToSeq({Film(src, m) : m \in hand}))

LEMMA SearchIs ==
  ASSUME NEW src, NEW f, NEW tmdb, NEW result \in TMDBSearch(src, f, tmdb)
  PROVE  \/ /\ result = Failed(Status(tmdb, src.base, src.key))
            /\ Status(tmdb, src.base, src.key) # 200
         \/ Streamed(src, f, tmdb, result)
BY Zenon DEF TMDBSearch, Streamed

LEMMA TMDBResult ==
  ASSUME NEW src, NEW f, NEW tmdb, Shelved(tmdb, f), src.service = "tmdb",
         NEW result \in TMDBSearch(src, f, tmdb)
  PROVE  ResultOf(src, Fitting(f, src, tmdb.films), result)
<1>1. PICK S : S = Fitting(f, src, tmdb.films)
  OBVIOUS
<1>2. IsFiniteSet(S)
  <2>1. IsFiniteSet(Range(tmdb.films))
    BY RangeIsFinite DEF Shelved
  <2>2. S \subseteq Range(tmdb.films)
    BY <1>1 DEF Fitting
  <2>3. QED
    BY <2>1, <2>2, FS_Subset
<1>3. ASSUME NEW d \in Draws(src, f, tmdb), NEW hand \in Hands(Pool(src, f, tmdb, d)),
             result = Found(SetToSeq({Film(src, m) : m \in hand}))
      PROVE  ResultOf(src, S, result)
  <2>1. \A c \in Certs(f) : OnPages(Discover(src, f, c, tmdb), d[c]) \subseteq S
    BY <1>1, DiscoverIs, OnPagesAre
  <2>2. hand \in SUBSET S
    BY <2>1 DEF Pool, Hands, kSubset
  <2>3. SetToSeq({Film(src, m) : m \in hand}) \in Seq(Cards(src, S))
    BY <1>2, <2>2, HandAsCards, Zenon
  <2>4. QED
    BY <1>3, <2>3, FoundIs
<1>4. CASE result = Failed(Status(tmdb, src.base, src.key))
  BY <1>1, <1>4, FailedIs
<1>5. CASE Streamed(src, f, tmdb, result)
  BY <1>1, <1>3, <1>5 DEF Streamed
<1>6. QED
  BY <1>4, <1>5, SearchIs

\* The sources a set may have are of three kinds.
LEMMA ThreeKinds ==
  ASSUME NEW cfg, NEW T, NEW src \in GoodSources(cfg, AllRefs, T)
  PROVE  src.service \in {"jellyfin", "plex", "tmdb"}
<1>1. CASE \E a \in AllRefs : src = Client(cfg, a[1], a[2])
  <2>1. PICK s \in {"jellyfin", "plex"}, ref \in Refs : src = Client(cfg, s, ref)
    BY <1>1 DEF AllRefs
  <2>2. src.service = s
    BY <2>1 DEF Client
  <2>3. QED
    BY <2>2
<1>2. CASE \E p \in T : src = NewTMDBSource(cfg, p)
  BY <1>2 DEF NewTMDBSource
<1>3. QED
  BY <1>1, <1>2 DEF GoodSources

\* Whoever the source is, it answers with cards of films that fit.
LEMMA SearchesFit ==
  ASSUME NEW src, src.service \in {"jellyfin", "plex", "tmdb"}, NEW f \in Filters, NEW o, NEW known,
         NEW result \in Searches(src, f, Upstreams(o), known)
  PROVE  ResultOf(src, Fitting(f, src, Films(src.service)), result)
<1>1. PICK s \in {"jellyfin", "plex", "tmdb"} : s = src.service
  OBVIOUS
<1>2. PICK server : server = Upstreams(o)[s]
  OBVIOUS
<1>3. server.films = Films(s)
  BY <1>2, UpstreamIs DEF Films
<1>4. Shelved(server, f)
  <2>1. s \in DOMAIN World
    BY WorldAssumption
  <2>2. Films(s) \in Seq(Range(Films(s))) /\ \A m \in Range(Films(s)) : m.year \in Nat
    BY <2>1, WorldAssumption DEF Films
  <2>3. QED
    BY <1>3, <2>2, FiltersAssumption DEF Shelved
<1>5. CASE s = "jellyfin"
  <2>1. result = JellyfinMovies(src, f, server)
    BY <1>1, <1>2, <1>5 DEF Searches
  <2>2. QED
    BY <1>1, <1>3, <1>4, <1>5, <2>1, JellyfinResult, Zenon
<1>6. CASE s = "plex"
  <2>1. result = PlexMovies(src, f, server, known)
    BY <1>1, <1>2, <1>6 DEF Searches
  <2>2. QED
    BY <1>1, <1>3, <1>4, <1>6, <2>1, PlexResult, Zenon
<1>7. CASE s = "tmdb"
  <2>1. result \in TMDBSearch(src, f, server)
    BY <1>1, <1>2, <1>7 DEF Searches
  <2>2. QED
    BY <1>1, <1>3, <1>4, <1>7, <2>1, TMDBResult, Zenon
<1>8. QED
  BY <1>5, <1>6, <1>7

----------------------------------------------------------------------------
(***************************************************************************)
(* What is remembered of Plex.                                             *)
(***************************************************************************)

\* What a source may remember: nothing, or what it found when it looked.
KnownTo(src, known) ==
  Discovers(src) =>
    known = Absent \/ \E o \in Outages : known = MovieSection(src, Upstreams(o).plex, Absent)

LEMMA NothingIsKnown ==
  ASSUME NEW src
  PROVE  KnownTo(src, Absent)
BY DEF KnownTo

\* Sources over all of one Plex remember alike.
LEMMA KnownAlike ==
  ASSUME NEW src, NEW other, Discovers(src), Discovers(other),
         src.base = other.base, src.key = other.key, NEW known, KnownTo(src, known)
  PROVE  KnownTo(other, known)
<1>1. \A server : MovieSection(src, server, Absent) = MovieSection(other, server, Absent)
  BY DEF MovieSection, Discovers
<1>2. QED
  BY <1>1 DEF KnownTo

\* The inductive invariant: what is remembered is known to every source.
DiscoveredInv == \A src \in Range(set.order) : KnownTo(src, discovered)

\* Sources over all of Plex that a set has query with the same values.
LEMMA OneDeployment ==
  ASSUME NEW cfg, NEW held, GoodSet(AllRefs, cfg, held),
         NEW src \in Range(held.order), NEW other \in Range(held.order),
         Discovers(src), Discovers(other)
  PROVE  src.base = other.base /\ src.key = other.key
<1>1. QueriesWith(src, cfg) /\ QueriesWith(other, cfg)
  BY GoodQueries
<1>2. QED
  BY <1>1 DEF QueriesWith, Discovers

\* What is remembered after some sources were queried is known to all.
LEMMA RememberedIsKnown ==
  ASSUME NEW cfg, NEW held, GoodSet(AllRefs, cfg, held), NEW srcs, Range(srcs) \subseteq Range(held.order),
         NEW o \in Outages, NEW known, \A src \in Range(held.order) : KnownTo(src, known)
  PROVE  \A src \in Range(held.order) : KnownTo(src, Remembered(srcs, Upstreams(o).plex, known))
<1>1. PICK looking : looking = {src \in Range(srcs) : Discovers(src)}
  BY Zenon
<1>2. CASE looking = {}
  BY <1>1, <1>2 DEF Remembered
<1>3. CASE looking # {}
  <2>1. PICK one : one = CHOOSE src \in looking : TRUE
    BY Zenon
  <2>2. one \in looking
    BY <1>3, <2>1
  <2>3. one \in Range(held.order) /\ Discovers(one)
    BY <1>1, <2>2
  <2>4. PICK after : after = MovieSection(one, Upstreams(o).plex, known)
    OBVIOUS
  <2>5. Remembered(srcs, Upstreams(o).plex, known) = after
    BY <1>1, <1>3, <2>1, <2>4 DEF Remembered
  <2>6. KnownTo(one, after)
    <3>1. CASE known = Absent
      BY <2>4, <3>1 DEF KnownTo
    <3>2. CASE known # Absent
      <4>1. after = known
        BY <2>3, <2>4, <3>2 DEF MovieSection, Discovers
      <4>2. QED
        BY <2>3, <4>1
    <3>3. QED
      BY <3>1, <3>2
  <2>7. ASSUME NEW src \in Range(held.order)
        PROVE  KnownTo(src, after)
    <3>1. CASE Discovers(src)
      <4>1. one.base = src.base /\ one.key = src.key
        BY <2>3, <3>1, OneDeployment
      <4>2. QED
        BY <2>3, <2>6, <3>1, <4>1, KnownAlike
    <3>2. CASE ~Discovers(src)
      BY <3>2 DEF KnownTo
    <3>3. QED
      BY <3>1, <3>2
  <2>8. QED
    BY <2>5, <2>7
<1>4. QED
  BY <1>2, <1>3

\* What the sources know when they are queried, which may be new ones.
LEMMA KnownIsKnown ==
  ASSUME DiscoveredInv
  PROVE  \A src \in Range(set'.order) : KnownTo(src, Known)
<1>1. CASE set' = set
  BY <1>1 DEF DiscoveredInv, Known
<1>2. CASE set' # set
  BY <1>2, NothingIsKnown DEF Known
<1>3. QED
  BY <1>1, <1>2

\* The sources of a set are of three kinds, and those that are selected are its.
LEMMA SelectedFrom ==
  ASSUME NEW cfg, NEW held, GoodSet(AllRefs, cfg, held), NEW requested
  PROVE  /\ held.order \in Seq(Range(held.order))
         /\ \A src \in Range(held.order) : src.service \in {"jellyfin", "plex", "tmdb"}
         /\ Range(SelectSources(held.order, requested)) \subseteq Range(held.order)
<1>1. PICK T : SourceList(GoodSources(cfg, AllRefs, T), held.order)
  BY DEF GoodSet
<1>2. PICK G : G = GoodSources(cfg, AllRefs, T)
  OBVIOUS
<1>3. held.order \in Seq(G) /\ \A src \in G : src.service \in {"jellyfin", "plex", "tmdb"}
  BY <1>1, <1>2, ThreeKinds DEF SourceList
<1>4. PICK own : own = Range(held.order)
  BY Zenon
<1>5. held.order \in Seq(own) /\ own \subseteq G
  BY <1>3, <1>4, OwnRange, ElementsOf
<1>6. SelectSources(held.order, requested) \in Seq(own)
  BY <1>5, SelectedAre
<1>7. Range(SelectSources(held.order, requested)) \subseteq own
  BY <1>6, ElementsOf
<1>8. QED
  BY <1>3, <1>4, <1>5, <1>7

\* A request leaves a good set.
LEMMA UsedIsGood ==
  ASSUME DeploymentInv, NEW o \in Outages, UseSources(o)
  PROVE  GoodSet(AllRefs, live, set')
<1>1. SettingsInv /\ GoodSet(AllRefs, live, set)
  BY DEF DeploymentInv
<1>2. FindsUsable(AllRefs, live) /\ AllRefs \in SUBSET AllRefs
  BY <1>1, SettingsTypes, AllUsable DEF WellTyped
<1>3. QED
  BY <1>1, <1>2, UseIsGood

LEMMA DiscoveredStep == DeploymentInv /\ DiscoveredInv /\ [Next]_vars => DiscoveredInv'
<1> SUFFICES ASSUME DeploymentInv, DiscoveredInv, [Next]_vars
             PROVE  DiscoveredInv'
  OBVIOUS
<1>1. CASE UNCHANGED <<set, discovered>>
  BY <1>1 DEF DiscoveredInv
<1>2. CASE discovered' = Absent
  BY <1>2, NothingIsKnown DEF DiscoveredInv
<1>3. ASSUME NEW f, NEW o \in Outages, AskPreview(f, o) \/ AskWarm(f, o) \/ AskFilters(f, o)
      PROVE  DiscoveredInv'
  <2>1. PICK held : held = set'
    OBVIOUS
  <2>2. PICK known : known = Known
    OBVIOUS
  <2>3. PICK cfg : cfg = live
    OBVIOUS
  <2>4. GoodSet(AllRefs, cfg, held)
    BY <1>3, <2>1, <2>3, OthersAre, UsedIsGood
  <2>5. \A src \in Range(held.order) : KnownTo(src, known)
    BY <2>1, <2>2, KnownIsKnown
  <2>6. PICK srcs : srcs = SelectSources(held.order, f.sources)
    OBVIOUS
  <2>7. Range(srcs) \subseteq Range(held.order)
    BY <2>4, <2>6, SelectedFrom
  <2>8. \A src \in Range(held.order) : KnownTo(src, Remembered(srcs, Upstreams(o).plex, known))
    BY <2>4, <2>5, <2>7, RememberedIsKnown
  <2>9. discovered' = known \/ discovered' = Remembered(srcs, Upstreams(o).plex, known)
    BY <1>3, <2>1, <2>2, <2>6 DEF AskPreview, AskWarm, AskFilters, Queried
  <2>10. PICK after : after = discovered'
    OBVIOUS
  <2>11. \A src \in Range(held.order) : KnownTo(src, after)
    BY <2>5, <2>8, <2>9, <2>10
  <2>12. QED
    BY <2>1, <2>10, <2>11 DEF DiscoveredInv
<1>4. ASSUME NEW edit, NEW checked, NEW o, Save(edit, checked, o)
      PROVE  UNCHANGED <<set, discovered>> \/ discovered' = Absent
  BY <1>4 DEF Save
<1>5. ASSUME NEW o, Restart(o)
      PROVE  discovered' = Absent
  BY <1>5 DEF Restart
<1>6. CASE Next
  BY <1>1, <1>2, <1>3, <1>4, <1>5, <1>6, OthersAre DEF Next
<1>7. QED
  BY <1>1, <1>6 DEF vars

----------------------------------------------------------------------------
(***************************************************************************)
(* Previews.                                                               *)
(***************************************************************************)

\* What is known of a preview.
PreviewOf(f, o, pending, p) ==
  /\ p.srcs \in Seq(Range(p.srcs))
  /\ \A src \in Range(p.srcs) : src.service \in {"jellyfin", "plex", "tmdb"}
  /\ DOMAIN p.results = DOMAIN p.srcs
  /\ \A i \in DOMAIN p.srcs : \E known :
       KnownTo(p.srcs[i], known) /\ p.results[i] \in Searches(p.srcs[i], f, Upstreams(o), known)
  /\ p.code = 502 <=> p.srcs # <<>> /\ AllFailed(p.results)
  /\ p.movies = IF p.code = 502 THEN <<>>
                ELSE MergeMovies([i \in DOMAIN p.results |-> p.results[i].movies])
  /\ p.code # 502 => p.problems = ProblemsOf(p.srcs, p.results) \o PendingProblems(pending)

AnswerOf(srcs, r, pending) ==
  [code |-> IF NothingAnswered(srcs, r) THEN 502 ELSE 200,
   srcs |-> srcs, results |-> r,
   movies |-> IF NothingAnswered(srcs, r) THEN <<>>
              ELSE MergeMovies([i \in DOMAIN r |-> r[i].movies]),
   problems |-> IF NothingAnswered(srcs, r) THEN <<>>
                ELSE ProblemsOf(srcs, r) \o PendingProblems(pending)]

LEMMA PreviewIs ==
  ASSUME NEW G, NEW now, now.order \in Seq(G), NEW f, NEW o, NEW known,
         \A src \in G : src.service \in {"jellyfin", "plex", "tmdb"} /\ KnownTo(src, known),
         NEW p \in Preview(now, f, Upstreams(o), known)
  PROVE  PreviewOf(f, o, now.pending, p)
<1>1. PICK order \in Seq(G) : order = now.order
  OBVIOUS
<1>2. PICK srcs : srcs = SelectSources(now.order, f.sources)
  OBVIOUS
<1>3. srcs \in Seq(G)
  BY <1>1, <1>2, SelectedAre
<1>4. srcs \in Seq(Range(srcs)) /\ Range(srcs) \subseteq G
  BY <1>3, OwnRange, ElementsOf
<1>5. PICK r \in Gathered(srcs, f, Upstreams(o), known) : p = AnswerOf(srcs, r, now.pending)
  <2>1. \E r \in Gathered(SelectSources(now.order, f.sources), f, Upstreams(o), known) :
          p = AnswerOf(SelectSources(now.order, f.sources), r, now.pending)
    BY Zenon DEF Preview, AnswerOf
  <2>2. QED
    BY <1>2, <2>1
<1>6. PICK movies, problems :
        /\ movies = MergeMovies([i \in DOMAIN r |-> r[i].movies])
        /\ problems = ProblemsOf(srcs, r) \o PendingProblems(now.pending)
  OBVIOUS
<1>7. /\ p.srcs = srcs /\ p.results = r
      /\ p.code = 502 <=> NothingAnswered(srcs, r)
      /\ p.movies = IF NothingAnswered(srcs, r) THEN <<>> ELSE movies
      /\ p.problems = IF NothingAnswered(srcs, r) THEN <<>> ELSE problems
  BY <1>5, <1>6 DEF AnswerOf
<1>8. DOMAIN r = DOMAIN srcs /\ \A i \in DOMAIN srcs : r[i] \in Searches(srcs[i], f, Upstreams(o), known)
  BY <1>5 DEF Gathered
<1>9. \A i \in DOMAIN srcs : KnownTo(srcs[i], known)
  BY <1>4 DEF Range
<1>10. \A i \in DOMAIN p.srcs : \E x :
         KnownTo(p.srcs[i], x) /\ p.results[i] \in Searches(p.srcs[i], f, Upstreams(o), x)
  BY <1>7, <1>8, <1>9
<1>11. /\ p.code = 502 <=> p.srcs # <<>> /\ AllFailed(p.results)
       /\ p.movies = IF p.code = 502 THEN <<>>
                     ELSE MergeMovies([i \in DOMAIN p.results |-> p.results[i].movies])
       /\ p.code # 502 => p.problems = ProblemsOf(p.srcs, p.results) \o PendingProblems(now.pending)
  BY <1>6, <1>7 DEF NothingAnswered
<1>12. QED
  BY <1>4, <1>7, <1>8, <1>10, <1>11 DEF PreviewOf

\* A preview is made of the set that the request leaves.
LEMMA AskedPreview ==
  ASSUME DeploymentInv, DiscoveredInv, NEW f \in Filters, NEW o \in Outages, AskPreview(f, o)
  PROVE  /\ answer' # NoAnswer => answer'.kind = "preview" /\ answer'.f = f /\ answer'.outage = o
         /\ answer' # NoAnswer => PreviewOf(f, o, set'.pending, answer'.got)
<1>1. PICK now : now = set'
  OBVIOUS
<1>2. PICK cfg : cfg = live
  OBVIOUS
<1>3. PICK known : known = Known
  OBVIOUS
<1>4. GoodSet(AllRefs, cfg, now)
  BY <1>1, <1>2, UsedIsGood DEF AskPreview
<1>5. PICK G : G = Range(now.order)
  BY Zenon
<1>6. /\ now.order \in Seq(G)
      /\ \A src \in G : src.service \in {"jellyfin", "plex", "tmdb"} /\ KnownTo(src, known)
  BY <1>1, <1>3, <1>4, <1>5, SelectedFrom, KnownIsKnown
<1>7. PICK p \in Preview(now, f, Upstreams(o), known) :
        answer' = [kind |-> "preview", f |-> f, outage |-> o, got |-> p]
  BY <1>1, <1>3 DEF AskPreview
<1>8. PreviewOf(f, o, now.pending, p)
  BY <1>6, PreviewIs
<1>9. answer'.kind = "preview" /\ answer'.f = f /\ answer'.outage = o /\ answer'.got = p
  BY <1>7
<1>10. QED
  BY <1>1, <1>8, <1>9

\* The inductive invariant of what was answered: a preview, as long as it is the
\* last answer, is one of the set there is.
PreviewInv ==
  Answered("preview") =>
    /\ answer.f \in Filters /\ answer.outage \in Outages
    /\ PreviewOf(answer.f, answer.outage, set.pending, answer.got)

LEMMA PreviewStep == DeploymentInv /\ DiscoveredInv /\ PreviewInv /\ [Next]_vars => PreviewInv'
<1> SUFFICES ASSUME DeploymentInv, DiscoveredInv, PreviewInv, [Next]_vars
             PROVE  PreviewInv'
  OBVIOUS
<1>1. CASE answer' = NoAnswer
  BY <1>1 DEF PreviewInv, Answered
<1>2. CASE answer'.kind # "preview"
  BY <1>2 DEF PreviewInv, Answered
<1>3. CASE UNCHANGED <<answer, set>>
  BY <1>3 DEF PreviewInv, Answered
<1>4. ASSUME NEW f \in Filters, NEW o \in Outages, AskPreview(f, o)
      PROVE  PreviewInv'
  BY <1>4, AskedPreview DEF PreviewInv, Answered
<1>5. CASE UNCHANGED answer /\ answer = NoAnswer
  BY <1>1, <1>5
<1>6. QED
  <2>1. CASE Next
    <3>1. \/ answer' = NoAnswer \/ answer'.kind # "preview"
          \/ \E f \in Filters, o \in Outages : AskPreview(f, o)
      BY <2>1, SaveIs DEF Next, Restart, AskWarm, AskFilters, AskVerify, AskProviders, Check, Expire, RetryDue
    <3>2. QED
      BY <1>1, <1>2, <1>4, <3>1
  <2>2. CASE UNCHANGED vars
    BY <1>3, <2>2 DEF vars
  <2>3. QED
    BY <2>1, <2>2

LEMMA PreviewsAre == Spec => []PreviewInv
<1>1. Init => DiscoveredInv /\ PreviewInv
  BY NothingIsKnown DEF Init, DiscoveredInv, PreviewInv, Answered
<1>2. QED
  BY <1>1, DiscoveredStep, PreviewStep, DeploymentInvariant, PTL DEF Spec

\* Whatever is asked for, of whatever films and with whatever pages drawn, no
\* source answers with a film that was not asked for.
THEOREM NothingElseIsDealt == Spec => []FiltersNeverWiden
<1>1. PreviewInv => FiltersNeverWiden
  <2> SUFFICES ASSUME PreviewInv, Answered("preview"), NEW i \in DOMAIN answer.got.srcs,
                      NEW card \in Range(answer.got.results[i].movies)
               PROVE  \E m \in Range(World[answer.got.srcs[i].service].films) :
                        card.poster = <<answer.got.srcs[i].id, m.item>>
                        /\ Fits(m, answer.f, answer.got.srcs[i])
    BY DEF FiltersNeverWiden
  <2>1. PICK p, f, o : p = answer.got /\ f = answer.f /\ o = answer.outage
    OBVIOUS
  <2>2. f \in Filters /\ PreviewOf(f, o, set.pending, p)
    BY <2>1 DEF PreviewInv
  <2>3. PICK src : src = p.srcs[i]
    OBVIOUS
  <2>4. src.service \in {"jellyfin", "plex", "tmdb"}
    <3>1. src \in Range(p.srcs)
      BY <2>1, <2>3 DEF Range
    <3>2. QED
      BY <2>2, <3>1 DEF PreviewOf
  <2>0. PICK known : p.results[i] \in Searches(src, f, Upstreams(o), known)
    BY <2>1, <2>2, <2>3 DEF PreviewOf
  <2>5. PICK S : S = Fitting(f, src, Films(src.service))
    OBVIOUS
  <2>6. PICK movies \in Seq(Cards(src, S)) : movies = p.results[i].movies
    BY <2>0, <2>2, <2>4, <2>5, SearchesFit DEF ResultOf
  <2>7. card \in Cards(src, S)
    BY <2>1, <2>6, ElementsOf
  <2>8. PICK m \in S : card = Film(src, m)
    BY <2>7 DEF Cards
  <2>9. card.poster = <<src.id, m.item>>
    BY <2>8 DEF Film
  <2>10. QED
    BY <2>1, <2>3, <2>5, <2>8, <2>9 DEF Fitting, Films
<1>2. QED
  BY <1>1, PreviewsAre, PTL

----------------------------------------------------------------------------
(***************************************************************************)
(* One card for a film.                                                    *)
(***************************************************************************)

\* The copies that a preview merges.
Copies(p) == UNION {Range(p.results[i].movies) : i \in DOMAIN p.srcs}

LEMMA PreviewMerges ==
  ASSUME NEW f \in Filters, NEW o, NEW pending, NEW p, PreviewOf(f, o, pending, p)
  PROVE  /\ \E X : OneCardEach(X, Copies(p), p.movies)
         /\ \A i \in DOMAIN p.srcs : \A m \in Range(p.results[i].movies) : m.badges = <<p.srcs[i].id>>
<1>1. PICK srcs, results : srcs = p.srcs /\ results = p.results
  OBVIOUS
<1>2. PICK n \in Nat : n = Len(srcs) /\ DOMAIN srcs = 1..n
  BY <1>1, ElementsOf DEF PreviewOf
<1>3. DOMAIN results = 1..n
  BY <1>1, <1>2 DEF PreviewOf
<1>4. PICK SetAt : SetAt = [i \in 1..n |-> Fitting(f, srcs[i], Films(srcs[i].service))]
  BY Zenon
<1>5. ASSUME NEW i \in 1..n
      PROVE  /\ results[i].movies \in Seq(Cards(srcs[i], SetAt[i]))
             /\ results[i].status # 200 => results[i].movies = <<>>
  <2>1. PICK src : src = srcs[i]
    OBVIOUS
  <2>2. src.service \in {"jellyfin", "plex", "tmdb"}
    <3>1. src \in Range(p.srcs)
      BY <1>1, <1>2, <2>1 DEF Range
    <3>2. QED
      BY <3>1 DEF PreviewOf
  <2>0. PICK known : results[i] \in Searches(src, f, Upstreams(o), known)
    BY <1>1, <1>2, <2>1 DEF PreviewOf
  <2>3. ResultOf(src, Fitting(f, src, Films(src.service)), results[i])
    BY <2>0, <2>2, SearchesFit
  <2>4. QED
    BY <1>4, <2>1, <2>3 DEF ResultOf
<1>6. PICK all : all = UNION {Cards(srcs[i], SetAt[i]) : i \in 1..n}
  BY Zenon
<1>7. PICK I, P, B : /\ I = {c.id : c \in all} /\ P = {c.poster : c \in all}
                     /\ B = {srcs[i].id : i \in 1..n}
  BY Zenon
<1>8. PICK X : X = CardType(I, P, B)
  OBVIOUS
<1>9. ASSUME NEW i \in 1..n
      PROVE  Cards(srcs[i], SetAt[i]) \subseteq X
  <2> SUFFICES ASSUME NEW c \in Cards(srcs[i], SetAt[i])
               PROVE  c \in X
    OBVIOUS
  <2>1. c.id \in I /\ c.poster \in P
    BY <1>6, <1>7
  <2>2. PICK one : one = <<srcs[i].id>>
    BY Zenon
  <2>3. srcs[i].id \in B
    BY <1>7
  <2>4. one \in Seq(B)
    BY <2>2, <2>3
  <2>5. PICK m \in SetAt[i] : c = Film(srcs[i], m)
    BY DEF Cards
  <2>6. c = [id |-> c.id, poster |-> c.poster, badges |-> one]
    BY <2>2, <2>5 DEF Film
  <2>7. QED
    BY <1>8, <2>1, <2>4, <2>6 DEF CardType
<1>10. PICK sets : sets = [i \in 1..n |-> results[i].movies]
  BY Zenon
<1>11. sets \in [1..n -> Seq(X)]
  <2>1. \A i \in 1..n : results[i].movies \in Seq(X)
    BY <1>5, <1>9, SeqMonotonic
  <2>2. QED
    BY <1>10, <2>1
<1>12. sets \in Seq(Seq(X)) /\ Len(sets) = n
  BY <1>11, Mapped
<1>13. OneCardEach(X, UNION {Range(sets[i]) : i \in 1..n}, MergeMovies(sets))
  BY <1>8, <1>12, MergeIs
<1>14. ASSUME NEW i \in 1..n, NEW m \in Range(results[i].movies)
       PROVE  m.badges = <<srcs[i].id>>
  <2>1. m \in Cards(srcs[i], SetAt[i])
    BY <1>5, <1>14, ElementsOf
  <2>2. QED
    BY <2>1 DEF Cards, Film
<1>15. CASE p.code # 502
  <2>1. MergeMovies(sets) = p.movies
    BY <1>1, <1>3, <1>10, <1>15 DEF PreviewOf
  <2>2. Copies(p) = UNION {Range(sets[i]) : i \in 1..n}
    BY <1>1, <1>2, <1>10 DEF Copies
  <2>3. QED
    BY <1>13, <2>1, <2>2, <1>14, <1>1, <1>2, Zenon
<1>16. CASE p.code = 502
  <2>1. \A i \in 1..n : results[i].movies = <<>>
    <3>1. AllFailed(results)
      BY <1>1, <1>16 DEF PreviewOf
    <3>2. QED
      BY <1>3, <1>5, <3>1 DEF AllFailed
  <2>2. p.movies = <<>>
    BY <1>16 DEF PreviewOf
  <2>3. PICK none : none = <<>>
    BY Zenon
  <2>0. Copies(p) = {}
    <3>1. Range(none) = {}
      BY <2>3 DEF Range
    <3>2. \A i \in DOMAIN p.srcs : Range(p.results[i].movies) = {}
      BY <1>1, <1>2, <2>1, <2>3, <3>1
    <3>3. QED
      BY <3>2 DEF Copies
  <2>4. OneCardEach(X, Copies(p), none)
    BY <2>0, <2>3 DEF OneCardEach, FilmsOf, IDs
  <2>5. QED
    BY <2>2, <2>3, <2>4, <1>14, <1>1, <1>2, Zenon
<1>17. QED
  BY <1>15, <1>16

LEMMA PreviewBadges ==
  ASSUME NEW f \in Filters, NEW o, NEW pending, NEW p, PreviewOf(f, o, pending, p), NEW id
  PROVE  BadgesOf(Copies(p), id) =
           {p.srcs[i].id : i \in {i \in DOMAIN p.srcs : \E m \in Range(p.results[i].movies) : m.id = id}}
<1>1. PICK By : By = {p.srcs[i].id : i \in {i \in DOMAIN p.srcs :
                        \E m \in Range(p.results[i].movies) : m.id = id}}
  BY Zenon
<1>2. ASSUME NEW i \in DOMAIN p.srcs, NEW m \in Range(p.results[i].movies)
      PROVE  Range(m.badges) = {p.srcs[i].id}
  <2>1. PICK one : one = <<p.srcs[i].id>>
    BY Zenon
  <2>2. m.badges = one
    BY <1>2, <2>1, PreviewMerges
  <2>3. Range(one) = {p.srcs[i].id}
    BY <2>1 DEF Range
  <2>4. QED
    BY <2>2, <2>3
<1>3. ASSUME NEW b \in BadgesOf(Copies(p), id)
      PROVE  b \in By
  <2>1. PICK c \in Copies(p) : c.id = id /\ b \in Range(c.badges)
    BY <1>3 DEF BadgesOf
  <2>2. PICK i \in DOMAIN p.srcs : c \in Range(p.results[i].movies)
    BY <2>1 DEF Copies
  <2>3. b = p.srcs[i].id
    BY <1>2, <2>1, <2>2
  <2>4. QED
    BY <1>1, <2>1, <2>2, <2>3
<1>4. ASSUME NEW b \in By
      PROVE  b \in BadgesOf(Copies(p), id)
  <2>1. PICK i \in DOMAIN p.srcs : b = p.srcs[i].id /\ \E m \in Range(p.results[i].movies) : m.id = id
    BY <1>1, <1>4
  <2>2. PICK m \in Range(p.results[i].movies) : m.id = id
    BY <2>1
  <2>3. m \in Copies(p) /\ b \in Range(m.badges)
    BY <1>2, <2>1, <2>2 DEF Copies
  <2>4. QED
    BY <2>2, <2>3 DEF BadgesOf
<1>5. QED
  BY <1>1, <1>3, <1>4

\* However many sources have a film, under one identifier or several, it is one
\* card that says exactly who has it.
THEOREM OneCardPerFilm == Spec => []BadgesExact
<1>1. PreviewInv => BadgesExact
  <2> SUFFICES ASSUME PreviewInv, Answered("preview")
               PROVE  BadgesExact
    BY DEF BadgesExact
  <2>1. PICK p, f, o : p = answer.got /\ f = answer.f /\ o = answer.outage
    OBVIOUS
  <2>2. f \in Filters /\ PreviewOf(f, o, set.pending, p)
    BY <2>1 DEF PreviewInv
  <2>3. PICK X : OneCardEach(X, Copies(p), p.movies)
    BY <2>2, PreviewMerges
  <2>4. PICK movies \in Seq(X) : movies = p.movies
    BY <2>3 DEF OneCardEach
  <2>5. PICK n \in Nat : n = Len(movies) /\ DOMAIN movies = 1..n /\ Range(movies) = {movies[i] : i \in 1..n}
    BY ElementsOf
  <2>6. /\ \A i, j \in 1..n : movies[i].id = movies[j].id => i = j
        /\ \A i \in 1..n : Range(movies[i].badges) = BadgesOf(Copies(p), movies[i].id)
        /\ IDs(movies) = FilmsOf(Copies(p))
    BY <2>3, <2>4, <2>5 DEF OneCardEach
  <2>7. ASSUME NEW card \in Range(movies)
        PROVE  Range(card.badges) =
                 {p.srcs[i].id : i \in {i \in DOMAIN p.srcs :
                    \E m \in Range(p.results[i].movies) : m.id = card.id}}
    <3>1. PICK id : id = card.id
      OBVIOUS
    <3>2. Range(card.badges) = BadgesOf(Copies(p), id)
      BY <2>5, <2>6, <3>1
    <3>3. BadgesOf(Copies(p), id) =
            {p.srcs[i].id : i \in {i \in DOMAIN p.srcs :
               \E m \in Range(p.results[i].movies) : m.id = id}}
      BY <2>2, PreviewBadges
    <3>4. QED
      BY <3>1, <3>2, <3>3
  <2>8. ASSUME NEW r \in Range(p.results), NEW m \in Range(r.movies)
        PROVE  \E card \in Range(movies) : card.id = m.id
    <3>1. PICK i \in DOMAIN p.srcs : r = p.results[i]
      BY <2>2, <2>8 DEF Range, PreviewOf
    <3>2. m \in Copies(p)
      BY <2>8, <3>1 DEF Copies
    <3>3. m.id \in IDs(movies)
      BY <2>6, <3>2 DEF FilmsOf
    <3>4. QED
      BY <2>5, <3>3 DEF IDs
  <2>9. \A i, j \in DOMAIN p.movies : p.movies[i].id = p.movies[j].id => i = j
    BY <2>4, <2>5, <2>6
  <2>10. QED
    BY <2>1, <2>4, <2>7, <2>8, <2>9 DEF BadgesExact
<1>2. QED
  BY <1>1, PreviewsAre, PTL

----------------------------------------------------------------------------
(***************************************************************************)
(* Every source accounted for.                                             *)
(***************************************************************************)

\* What is to be fixed when an upstream answers as in an outage.
ReasonOf(src, o) ==
  IF Status(Upstreams(o)[src.service], src.base, src.key) \in {401, 403}
    THEN "unauthorized" ELSE "unreachable"

LEMMA ReasonsAre ==
  ASSUME NEW src, NEW o
  PROVE  /\ ReasonOf(src, o) \in Reasons(src, o)
         /\ Discovers(src) => \A x \in Outages : ReasonOf(src, x) \in Reasons(src, o)
<1>1. PICK S : S = IF Discovers(src) THEN Outages \cup {o} ELSE {o}
  BY Zenon
<1>2. Reasons(src, o) = {ReasonOf(src, x) : x \in S}
  BY <1>1, Zenon DEF Reasons, ReasonOf
<1>3. QED
  BY <1>1, <1>2

\* A source over all of Plex that finds no section, and why.
LEMMA SectionFails ==
  ASSUME NEW src, Discovers(src), NEW o,
         NEW own, own = MovieSection(src, Upstreams(o).plex, Absent), own.status # 200
  PROVE  StatusFailure(own.status) = ReasonOf(src, o)
<1>1. PICK status : status = Status(Upstreams(o).plex, src.base, src.key)
  OBVIOUS
<1>2. src.service = "plex" /\ src.scope = Empty
  BY DEF Discovers
<1>3. own.status = status \/ (own.status = 0 /\ status = 200)
  BY <1>1, <1>2 DEF MovieSection
<1>4. QED
  BY <1>1, <1>2, <1>3 DEF StatusFailure, ReasonOf

\* What a source that failed has to do with what its upstream says to its values.
LEMMA FailsAsAsked ==
  ASSUME NEW src, src.service \in {"jellyfin", "plex", "tmdb"}, NEW f, NEW o, NEW known,
         KnownTo(src, known),
         NEW result \in Searches(src, f, Upstreams(o), known), result.status # 200
  PROVE  StatusFailure(result.status) \in Reasons(src, o)
<1>1. PICK s \in {"jellyfin", "plex", "tmdb"} : s = src.service
  OBVIOUS
<1>2. PICK server : server = Upstreams(o)[s]
  OBVIOUS
<1>3. PICK status : status = Status(server, src.base, src.key)
  OBVIOUS
<1>4. \A n, movies : Failed(n).status = n /\ Found(movies).status = 200
  BY DEF Failed, Found
<1>0. ASSUME result.status = status \/ (result.status \in {0, 404} /\ status = 200)
      PROVE  StatusFailure(result.status) \in Reasons(src, o)
  <2>1. StatusFailure(result.status) = ReasonOf(src, o)
    BY <1>0, <1>1, <1>2, <1>3 DEF StatusFailure, ReasonOf
  <2>2. QED
    BY <2>1, ReasonsAre
<1>5. CASE s = "jellyfin"
  <2>1. result = JellyfinMovies(src, f, server)
    BY <1>1, <1>2, <1>5 DEF Searches
  <2>2. result.status = status
    BY <1>3, <1>4, <2>1 DEF JellyfinMovies
  <2>3. QED
    BY <1>0, <2>2
<1>6. CASE s = "plex"
  <2>1. result = PlexMovies(src, f, server, known)
    BY <1>1, <1>2, <1>6 DEF Searches
  <2>2. PICK own : own = IF f.libraryId # Empty THEN [status |-> 200, section |-> f.libraryId]
                         ELSE MovieSection(src, server, known)
    BY Zenon
  <2>3. result.status = IF own.status # 200 THEN own.status
                        ELSE SectionStatus(src, own.section, server)
    BY <1>4, <2>1, <2>2 DEF PlexMovies
  <2>4. SectionStatus(src, own.section, server) \in {200, status} \/
          (SectionStatus(src, own.section, server) = 404 /\ status = 200)
    BY <1>3 DEF SectionStatus
  <2>5. CASE own.status = 200
    BY <1>0, <2>3, <2>4, <2>5
  <2>6. CASE own.status # 200
    <3>1. Discovers(src) /\ own = MovieSection(src, server, known)
      BY <1>1, <1>6, <2>2, <2>6 DEF Discovers, MovieSection
    <3>2. CASE known = Absent
      <4>1. StatusFailure(own.status) = ReasonOf(src, o)
        BY <1>2, <1>6, <2>6, <3>1, <3>2, SectionFails
      <4>2. QED
        BY <2>3, <2>6, <4>1, ReasonsAre
    <3>3. CASE known # Absent
      <4>1. own = known
        BY <3>1, <3>3 DEF Discovers, MovieSection
      <4>2. PICK x \in Outages : own = MovieSection(src, Upstreams(x).plex, Absent)
        BY <3>1, <3>3, <4>1 DEF KnownTo
      <4>3. StatusFailure(own.status) = ReasonOf(src, x)
        BY <2>6, <3>1, <4>2, SectionFails
      <4>4. QED
        BY <2>3, <2>6, <3>1, <4>3, ReasonsAre
    <3>4. QED
      BY <3>2, <3>3
  <2>7. QED
    BY <2>5, <2>6
<1>7. CASE s = "tmdb"
  <2>1. result \in TMDBSearch(src, f, server)
    BY <1>1, <1>2, <1>7 DEF Searches
  <2>2. ~Streamed(src, f, server, result)
    <3>1. Streamed(src, f, server, result) => \E movies : result = Found(movies)
      BY Zenon DEF Streamed
    <3>2. QED
      BY <1>4, <3>1
  <2>3. result.status = status
    BY <1>3, <1>4, <2>1, <2>2, SearchIs
  <2>4. QED
    BY <1>0, <2>3
<1>8. QED
  BY <1>5, <1>6, <1>7

\* All of a service that has few pages is dealt, when it is asked once.
LEMMA AllIsDealt ==
  ASSUME NEW src, src.service = "tmdb", NEW f, NEW tmdb, Shelved(tmdb, f),
         NEW result \in TMDBSearch(src, f, tmdb), result.status = 200,
         NEW c \in Certs(f), Cardinality(Certs(f)) = 1,
         NEW films, films = Discover(src, f, c, tmdb), TotalPages(films) <= PagesPerProvider,
         NEW m \in Range(films), m.poster
  PROVE  Film(src, m) \in Range(result.movies)
<1>0. PICK d \in Draws(src, f, tmdb) : \E hand \in Hands(Pool(src, f, tmdb, d)) :
        result = Found(SetToSeq({Film(src, x) : x \in hand}))
  <2>1. \A n : Failed(n).status = n
    BY DEF Failed
  <2>2. Streamed(src, f, tmdb, result)
    BY <2>1, SearchIs
  <2>3. QED
    BY <2>2, Zenon DEF Streamed
<1>1. PICK hand \in Hands(Pool(src, f, tmdb, d)) :
        result = Found(SetToSeq({Film(src, x) : x \in hand}))
  BY <1>0, Zenon
<1>2. Certs(f) = {c}
  <2>1. IsFiniteSet(Certs(f))
    <3>1. IsFiniteSet(Range(Certifications)) /\ IsFiniteSet({Absent})
      BY CertificationsAssumption, RangeIsFinite, FS_Singleton, Zenon
    <3>2. Certs(f) \subseteq Range(Certifications) \/ Certs(f) \subseteq {Absent}
      BY DEF Certs, MapCertifications
    <3>3. QED
      BY <3>1, <3>2, FS_Subset
  <2>2. PICK x : Certs(f) = {x}
    BY <2>1, FS_Singleton
  <2>3. QED
    BY <2>2
<1>3. PICK T : T = Range(tmdb.films)
  OBVIOUS
<1>4. films \in Seq(T)
  BY <1>3, DiscoverIs
<1>5. PICK pool : pool = {x \in Range(films) : x.poster}
  BY Zenon
<1>6. Pool(src, f, tmdb, d) = pool
  <2>1. d[c] \in SamplePages(TotalPages(films))
    BY <1>0 DEF Draws
  <2>2. OnPages(films, d[c]) = pool
    BY <1>4, <1>5, <2>1, FewPages
  <2>3. Pool(src, f, tmdb, d) = OnPages(films, d[c])
    BY <1>2 DEF Pool
  <2>4. QED
    BY <2>2, <2>3
<1>7. IsFiniteSet(Range(films)) /\ IsFiniteSet(pool)
  BY <1>4, <1>5, RangeIsFinite, FS_Subset
<1>8. Cardinality(pool) \in Nat /\ Cardinality(pool) <= PagesPerProvider * PageSize
  <2>1. Cardinality(pool) <= Cardinality(Range(films)) /\ Cardinality(pool) \in Nat
    BY <1>5, <1>7, FS_Subset, FS_CardinalityType
  <2>2. Cardinality(Range(films)) <= Len(films) /\ Cardinality(Range(films)) \in Nat
    BY <1>4, <1>7, RangeIsFinite, FS_CardinalityType
  <2>3. PagesPerProvider \in Nat /\ PageSize \in Nat
    BY PagesAssumption
  <2>4. Len(films) <= PagesPerProvider * PageSize /\ Len(films) \in Nat
    BY <1>4, <2>3, PagesAre, ElementsOf
  <2>5. PICK all \in Nat : all = PagesPerProvider * PageSize
    BY <2>3
  <2>6. Len(films) <= all
    BY <2>4, <2>5
  <2>7. Cardinality(pool) <= all
    BY <2>1, <2>2, <2>4, <2>6
  <2>8. QED
    BY <2>1, <2>5, <2>7
<1>9. hand = pool
  <2>1. PICK all : all = PagesPerProvider * PageSize
    OBVIOUS
  <2>2. all \in Nat
    BY <2>1, PagesAssumption
  <2>3. Least(all, Cardinality(pool)) = Cardinality(pool)
    BY <1>8, <2>1, <2>2 DEF Least
  <2>4. hand \in kSubset(Cardinality(pool), pool)
    BY <1>1, <1>6, <2>1, <2>3 DEF Hands
  <2>5. QED
    BY <1>7, <2>4, AllOfThem
<1>10. Range(result.movies) = {Film(src, x) : x \in pool}
  <2>1. result.movies = SetToSeq({Film(src, x) : x \in pool})
    BY <1>1, <1>9 DEF Found
  <2>2. Range(SetToSeq({Film(src, x) : x \in pool})) = {Film(src, x) : x \in pool}
    BY <1>7, HandAsCards, Zenon
  <2>3. QED
    BY <2>1, <2>2
<1>11. QED
  BY <1>5, <1>10

\* What failed is reported as its upstream's answer calls for.
LEMMA FailuresReported ==
  ASSUME NEW f, NEW o, NEW pending \in Seq(PendingNames), NEW p, PreviewOf(f, o, pending, p),
         p.code # 502, NEW i \in DOMAIN p.srcs, p.results[i].status # 200
  PROVE  \E q \in Range(p.problems) :
           q.source = p.srcs[i].id /\ q.reason \in Reasons(p.srcs[i], o)
<1>1. PICK srcs, results : srcs = p.srcs /\ results = p.results
  OBVIOUS
<1>2. srcs \in Seq(Range(srcs)) /\ DOMAIN results = DOMAIN srcs
  BY <1>1 DEF PreviewOf
<1>3. PICK src \in Range(srcs) : src = srcs[i]
  BY <1>1 DEF Range
<1>4. PICK s : s = ProblemsOf(srcs, results)
  OBVIOUS
<1>5. PICK q : q = SourceProblem(src, results[i].status)
  OBVIOUS
<1>6. PICK V : s \in Seq(V) /\ q \in Range(s)
  BY <1>1, <1>2, <1>3, <1>4, <1>5, ProblemsAre, Zenon
<1>7. PICK U, t : t = PendingProblems(pending) /\ t \in Seq(U)
  BY PendingProblemsAre
<1>8. q \in Range(s \o t)
  <2>1. V \subseteq V \cup U /\ U \subseteq V \cup U
    OBVIOUS
  <2>2. s \in Seq(V \cup U) /\ t \in Seq(V \cup U)
    BY <1>6, <1>7, <2>1, SeqMonotonic
  <2>3. Range(s \o t) = Range(s) \cup Range(t)
    BY <2>2, Joined
  <2>4. QED
    BY <1>6, <2>3
<1>9. p.problems = s \o t
  BY <1>1, <1>4, <1>7 DEF PreviewOf
<1>10. q.source = src.id /\ q.reason = StatusFailure(results[i].status)
  BY <1>5 DEF SourceProblem
<1>11. StatusFailure(results[i].status) \in Reasons(src, o)
  <2>1. src.service \in {"jellyfin", "plex", "tmdb"} /\ results[i].status # 200
    BY <1>1, <1>3 DEF PreviewOf
  <2>2. PICK known : KnownTo(src, known) /\ results[i] \in Searches(src, f, Upstreams(o), known)
    BY <1>1, <1>3 DEF PreviewOf
  <2>3. QED
    BY <2>1, <2>2, FailsAsAsked
<1>12. QED
  BY <1>1, <1>3, <1>8, <1>9, <1>10, <1>11

\* A name that is pending is a problem, and no source's failure looks like one.
LEMMA NamesReported ==
  ASSUME NEW f, NEW o, NEW pending \in Seq(PendingNames), NEW p, PreviewOf(f, o, pending, p),
         p.code # 502
  PROVE  Among(p.problems, "unresolved") = Len(pending)
<1>1. PICK srcs, results : srcs = p.srcs /\ results = p.results
  OBVIOUS
<1>2. srcs \in Seq(Range(srcs)) /\ DOMAIN results = DOMAIN srcs
  BY <1>1 DEF PreviewOf
<1>3. PICK V : V = [source : {src.id : src \in Range(srcs)}, label : {src.name : src \in Range(srcs)},
                    reason : {"unauthorized", "unreachable"}]
  BY Zenon
<1>4. PICK s : s = ProblemsOf(srcs, results)
  OBVIOUS
<1>5. s \in Seq(V)
  BY <1>2, <1>3, <1>4, ProblemsAre
<1>0. PICK reason : reason = "unresolved"
  OBVIOUS
<1>6. \A q \in V : q.reason # reason
  BY <1>0, <1>3
<1>7. PICK t : t = PendingProblems(pending)
  OBVIOUS
<1>8. PICK U : t \in Seq(U) /\ \A q \in U : q.reason = reason
  BY <1>0, <1>7, PendingProblemsAre
<1>9. Len(t) = Len(pending)
  BY <1>7, PendingProblemsAre
<1>10. Among(s \o t, reason) = Len(t)
  BY <1>5, <1>6, <1>8, NamesAreCounted
<1>11. Among(s \o t, "unresolved") = Len(t)
  BY <1>0, <1>10
<1>12. p.problems = s \o t
  BY <1>1, <1>4, <1>7 DEF PreviewOf
<1>13. QED
  BY <1>9, <1>11, <1>12

\* A film that a source answers with has a card with that source's badge.
LEMMA DealtIsShown ==
  ASSUME NEW f \in Filters, NEW o, NEW pending, NEW p, PreviewOf(f, o, pending, p),
         NEW i \in DOMAIN p.srcs, NEW m \in Range(p.results[i].movies)
  PROVE  \E card \in Range(p.movies) : card.id = m.id /\ p.srcs[i].id \in Range(card.badges)
<1>1. PICK movies : movies = p.movies
  OBVIOUS
<1>2. PICK X : OneCardEach(X, Copies(p), movies)
  BY <1>1, PreviewMerges
<1>3. PICK n \in Nat : n = Len(movies) /\ DOMAIN movies = 1..n /\ Range(movies) = {movies[j] : j \in 1..n}
  BY <1>2, ElementsOf DEF OneCardEach
<1>4. m \in Copies(p)
  BY DEF Copies
<1>5. m.id \in IDs(movies)
  BY <1>2, <1>4 DEF OneCardEach, FilmsOf
<1>6. PICK j \in 1..n : movies[j].id = m.id
  BY <1>3, <1>5 DEF IDs
<1>7. PICK card : card = movies[j]
  OBVIOUS
<1>8. Range(card.badges) = BadgesOf(Copies(p), m.id)
  BY <1>2, <1>3, <1>6, <1>7 DEF OneCardEach
<1>9. p.srcs[i].id \in BadgesOf(Copies(p), m.id)
  <2>1. PICK id : id = m.id
    OBVIOUS
  <2>2. BadgesOf(Copies(p), id) =
          {p.srcs[k].id : k \in {k \in DOMAIN p.srcs : \E x \in Range(p.results[k].movies) : x.id = id}}
    BY PreviewBadges
  <2>3. QED
    BY <2>1, <2>2
<1>10. QED
  BY <1>1, <1>3, <1>6, <1>7, <1>8, <1>9

\* The parts of it, of a preview p of filters f in an outage o.
FailureReported(p, o, i) ==
  LET src == p.srcs[i]
  IN \E q \in Range(p.problems) : q.source = src.id /\ q.reason \in Reasons(src, o)

FilmShown(p, i, m) ==
  \E card \in Range(p.movies) : card.id = <<"tmdb", m.tmdb>> /\ p.srcs[i].id \in Range(card.badges)

SourceAccounted(p, f, o, up, i) ==
  /\ p.results[i].status # 200 => FailureReported(p, o, i)
  /\ p.srcs[i].service = "tmdb" /\ p.results[i].status = 200 =>
       \A c \in Certs(f) :
         LET films == Discover(p.srcs[i], f, c, up.tmdb)
         IN TotalPages(films) <= PagesPerProvider /\ Cardinality(Certs(f)) = 1 =>
              \A m \in Range(films) : m.poster => FilmShown(p, i, m)

\* An answer of films reports whatever failed, with what its upstream says now or,
\* for a source over all of Plex, said when it looked for its section; a service
\* with few pages is dealt whole; every name still pending is reported, once.  And
\* only a request that every source failed is answered with no more than a line.
THEOREM EverySourceAnswersOrIsReported == Spec => []EverySourceAccountedFor
<1>1. DeploymentInv /\ PreviewInv => EverySourceAccountedFor
  <2> SUFFICES ASSUME DeploymentInv, PreviewInv, Answered("preview")
               PROVE  EverySourceAccountedFor
    BY Zenon DEF EverySourceAccountedFor
  <2>1. PICK p, f, o, pending : p = answer.got /\ f = answer.f /\ o = answer.outage /\ pending = set.pending
    OBVIOUS
  <2>2. f \in Filters /\ PreviewOf(f, o, pending, p)
    BY <2>1 DEF PreviewInv
  <2>3. pending \in Seq(PendingNames)
    BY <2>1 DEF DeploymentInv, GoodSet
  <2>4. PICK up : up = Upstreams(o)
    OBVIOUS
  <2>5. ASSUME p.code # 502, NEW i \in DOMAIN p.srcs, p.results[i].status # 200
        PROVE  FailureReported(p, o, i)
    <3>1. \E q \in Range(p.problems) :
            q.source = p.srcs[i].id /\ q.reason \in Reasons(p.srcs[i], o)
      BY <2>2, <2>3, <2>5, FailuresReported
    <3>2. QED
      BY <3>1 DEF FailureReported
  <2>6. ASSUME NEW i \in DOMAIN p.srcs, p.srcs[i].service = "tmdb", p.results[i].status = 200,
               NEW c \in Certs(f),
               TotalPages(Discover(p.srcs[i], f, c, up.tmdb)) <= PagesPerProvider,
               Cardinality(Certs(f)) = 1,
               NEW m \in Range(Discover(p.srcs[i], f, c, up.tmdb)), m.poster
        PROVE  FilmShown(p, i, m)
    <3>1. PICK src, result : src = p.srcs[i] /\ result = p.results[i]
      OBVIOUS
    <3>2. \E known : result \in Searches(src, f, up, known)
      BY <2>2, <2>4, <3>1 DEF PreviewOf
    <3>3. PICK tmdb : tmdb = up.tmdb
      OBVIOUS
    <3>4. result \in TMDBSearch(src, f, tmdb) /\ src.service = "tmdb" /\ result.status = 200
      BY <2>6, <3>1, <3>2, <3>3 DEF Searches
    <3>5. tmdb.films = Films("tmdb")
      BY <2>4, <3>3, UpstreamIs DEF Films
    <3>6. Shelved(tmdb, f)
      <4>1. "tmdb" \in DOMAIN World
        BY WorldAssumption
      <4>2. Films("tmdb") \in Seq(Range(Films("tmdb"))) /\ \A x \in Range(Films("tmdb")) : x.year \in Nat
        BY <4>1, WorldAssumption DEF Films
      <4>3. QED
        BY <2>2, <3>5, <4>2, FiltersAssumption DEF Shelved
    <3>7. PICK films : films = Discover(src, f, c, tmdb)
      OBVIOUS
    <3>8. /\ TotalPages(films) <= PagesPerProvider /\ m \in Range(films)
      BY <2>6, <3>1, <3>3, <3>7
    <3>9. Film(src, m) \in Range(result.movies)
      BY <2>6, <3>4, <3>6, <3>7, <3>8, AllIsDealt
    <3>10. Film(src, m).id = <<"tmdb", m.tmdb>>
      <4>1. Range(films) \subseteq Range(tmdb.films)
        <5>1. films \in Seq(Range(tmdb.films))
          BY <3>4, <3>6, <3>7, DiscoverIs
        <5>2. QED
          BY <5>1, ElementsOf
      <4>2. m.tmdb # Absent
        BY <3>5, <3>8, <4>1, WorldAssumption DEF Films
      <4>3. QED
        BY <4>2 DEF Film
    <3>11. QED
      BY <2>2, <3>1, <3>9, <3>10, DealtIsShown DEF FilmShown
  <2>7. CASE p.code = 502
    <3>1. p.srcs # <<>> /\ \A i \in DOMAIN p.srcs : p.results[i].status # 200
      BY <2>2, <2>7 DEF PreviewOf, AllFailed
    <3>2. /\ answer.got.code = 502 /\ answer.got.srcs # <<>>
          /\ \A i \in DOMAIN answer.got.srcs : answer.got.results[i].status # 200
      BY <2>1, <2>7, <3>1
    <3>3. QED
      BY <3>2, Zenon DEF EverySourceAccountedFor
  <2>8. CASE p.code # 502
    <3>1. Among(p.problems, "unresolved") = Len(pending)
      BY <2>2, <2>3, <2>8, NamesReported
    <3>2. \A i \in DOMAIN p.srcs : SourceAccounted(p, f, o, up, i)
      BY <2>5, <2>6, <2>8 DEF SourceAccounted
    <3>3. /\ answer.got.code # 502
          /\ \A i \in DOMAIN answer.got.srcs :
               SourceAccounted(answer.got, answer.f, answer.outage, Upstreams(answer.outage), i)
          /\ Among(answer.got.problems, "unresolved") = Len(set.pending)
      BY <2>1, <2>4, <2>8, <3>1, <3>2
    <3>4. QED
      BY <3>3, Zenon DEF EverySourceAccountedFor, SourceAccounted, FailureReported, FilmShown, Among
  <2>9. QED
    BY <2>7, <2>8
<1>2. QED
  BY <1>1, DeploymentInvariant, PreviewsAre, PTL

----------------------------------------------------------------------------
(***************************************************************************)
(* What a name stands for, in whatever order a server lists its libraries. *)
(***************************************************************************)

\* The world in which both media servers list their libraries backwards.
LEMMA WorldBackwards ==
  ASSUME NEW s \in {"jellyfin", "plex"},
         NEW other, other = [World EXCEPT !.jellyfin.libs = Reverse(@), !.plex.libs = Reverse(@)]
  PROVE  /\ World[s].url = other[s].url /\ World[s].key = other[s].key
         /\ World[s].status = other[s].status
         /\ World[s].libs \in Seq(ListedLibraries) /\ other[s].libs \in Seq(ListedLibraries)
         /\ Range(World[s].libs) = Range(other[s].libs)
<1>1. PICK server : server = World[s]
  OBVIOUS
<1>2. {"url", "key", "status", "libs"} \subseteq DOMAIN server /\ server.libs \in Seq(ListedLibraries)
  BY <1>1, WorldAssumption, ServicesAre
<1>3. PICK libs : libs = Reverse(server.libs)
  OBVIOUS
<1>4. other[s] = [server EXCEPT !.libs = libs]
  BY <1>1, <1>3, WorldAssumption, Zenon
<1>5. other[s].url = server.url /\ other[s].key = server.key /\ other[s].status = server.status
  BY <1>2, <1>4
<1>6. other[s].libs = libs
  BY <1>2, <1>4
<1>7. libs \in Seq(ListedLibraries) /\ Range(libs) = Range(server.libs)
  BY <1>2, <1>3, Backwards
<1>8. QED
  BY <1>1, <1>2, <1>5, <1>6, <1>7

\* Whatever the set is, its names come to stand for the same libraries in
\* whichever order a server lists them.
THEOREM ResolutionIgnoresListing == Spec => []ResolutionIgnoresOrder
<1>1. ResolutionIgnoresOrder
  <2>1. PICK other : other = [World EXCEPT !.jellyfin.libs = Reverse(@), !.plex.libs = Reverse(@)]
    OBVIOUS
  <2>2. PICK held : held = set
    OBVIOUS
  <2>3. \A s \in {"jellyfin", "plex"} :
          /\ World[s].url = other[s].url /\ World[s].key = other[s].key
          /\ World[s].status = other[s].status
          /\ World[s].libs \in Seq(ListedLibraries) /\ other[s].libs \in Seq(ListedLibraries)
          /\ Range(World[s].libs) = Range(other[s].libs)
    BY <2>1, WorldBackwards, Zenon
  <2>4. CurrentSources(held, World) = CurrentSources(held, other)
    BY <2>3, CurrentIgnoresOrder
  <2>5. QED
    BY <2>1, <2>2, <2>4 DEF ResolutionIgnoresOrder
<1>2. QED
  BY <1>1, PTL

----------------------------------------------------------------------------
(***************************************************************************)
(* The genres that the host is offered.                                    *)
(***************************************************************************)

LibraryGenres ==
  UNION {m.genres : m \in Range(World.jellyfin.films) \cup Range(World.plex.films)}

\* The names a genre may come under.
GenreWords == DOMAIN GenreIDs \cup LibraryGenres

SameGenre(a, b) == a = b \/ ({a, b} \subseteq DOMAIN GenreIDs /\ GenreIDs[a] = GenreIDs[b])

\* Two names have one key if and only if they are names of one genre, as no
\* library has a genre by the name of a number.
LEMMA OneKeyPerGenre ==
  ASSUME NEW a \in GenreWords, NEW b \in GenreWords
  PROVE  SameGenre(a, b) <=> CanonicalGenreKey(a) = CanonicalGenreKey(b)
<1>1. \A g \in GenreWords : g \notin DOMAIN GenreIDs => g \notin Range(GenreIDs)
  <2> SUFFICES ASSUME NEW g \in LibraryGenres
               PROVE  g \notin Range(GenreIDs)
    BY DEF GenreWords
  <2>1. PICK s \in {"jellyfin", "plex"} : \E m \in Range(World[s].films) : g \in m.genres
    <3>1. PICK m \in Range(World.jellyfin.films) \cup Range(World.plex.films) : g \in m.genres
      BY DEF LibraryGenres
    <3>2. QED
      BY <3>1
  <2>2. \A m \in Range(World[s].films) : m.genres \cap Range(GenreIDs) = {}
    BY WorldAssumption, ServicesAre
  <2>3. QED
    BY <2>1, <2>2
<1>2. \A g \in DOMAIN GenreIDs : GenreIDs[g] \in Range(GenreIDs)
  BY DEF Range
<1>3. QED
  BY <1>1, <1>2 DEF SameGenre, CanonicalGenreKey

\* The genres that a library has.
LEMMA ShelfIs ==
  ASSUME NEW s \in {"jellyfin", "plex"}, NEW server, server.films = World[s].films, NEW scope
  PROVE  Shelf(server, scope).genres \in Seq(GenreWords)
<1>1. PICK all : all = World[s].films
  OBVIOUS
<1>2. all \in Seq(Range(all)) /\ \A m \in Range(all) : IsFiniteSet(m.genres)
  BY <1>1, WorldAssumption, ServicesAre
<1>3. PICK q : q = [scope |-> scope, genres |-> {}, years |-> {}, floor |-> 0,
                    ratings |-> {}, unwatched |-> FALSE]
  BY Zenon
<1>4. PICK films : films = Matching(server, q)
  OBVIOUS
<1>5. PICK S : films = Only(all, S)
  BY <1>1, <1>4 DEF Matching
<1>6. films \in Seq(Range(all) \cap S) /\ Range(films) \subseteq Range(all)
  BY <1>2, <1>5, OnlyIs
<1>7. IsFiniteSet(Range(films))
  BY <1>6, RangeIsFinite
<1>8. PICK M : M = Range(films)
  OBVIOUS
<1>9. PICK shelves : shelves = {m.genres : m \in M}
  BY Zenon
<1>10. IsFiniteSet(shelves)
  <2>1. PICK genresOf : genresOf = [m \in M |-> m.genres]
    BY Zenon
  <2>2. genresOf \in Surjection(M, shelves)
    BY <1>9, <2>1 DEF Surjection
  <2>3. QED
    BY <1>7, <1>8, <2>2, FS_Surjection
<1>11. \A shelf \in shelves : IsFiniteSet(shelf)
  BY <1>2, <1>6, <1>8, <1>9
<1>12. PICK genres : genres = UNION shelves
  BY Zenon
<1>13. IsFiniteSet(genres)
  BY <1>10, <1>11, <1>12, FS_UNION
<1>14. genres \subseteq GenreWords
  <2>1. M \subseteq Range(World.jellyfin.films) \cup Range(World.plex.films)
    BY <1>1, <1>6, <1>8
  <2>2. QED
    BY <1>9, <1>12, <2>1 DEF GenreWords, LibraryGenres
<1>15. SetToSeq(genres) \in Seq(genres)
  BY <1>13, SetAsSequence
<1>16. SetToSeq(genres) \in Seq(GenreWords)
  BY <1>14, <1>15, SeqMonotonic
<1>17. Shelf(server, scope).genres = SetToSeq(UNION {m.genres : m \in Range(films)})
  BY <1>3, <1>4 DEF Shelf
<1>18. UNION {m.genres : m \in Range(films)} = genres
  BY <1>8, <1>9, <1>12
<1>19. QED
  BY <1>16, <1>17, <1>18, Zenon

LEMMA VocabularyIs ==
  ASSUME NEW src, src.service \in {"jellyfin", "plex", "tmdb"}, NEW o, NEW known
  PROVE  VocabularyOf(src, Upstreams(o), known).filters.genres \in Seq(GenreWords)
<1>1. PICK server : server = Upstreams(o)[src.service]
  OBVIOUS
<1>2. server.films = World[src.service].films
  BY <1>1, UpstreamIs
<1>3. CASE src.service = "tmdb"
  <2>1. PICK genres : genres = DefaultAvailableFilters.genres
    OBVIOUS
  <2>2. genres \in Seq(DOMAIN GenreIDs)
    BY <2>1, DefaultGenres
  <2>3. DOMAIN GenreIDs \subseteq GenreWords
    BY DEF GenreWords
  <2>4. genres \in Seq(GenreWords)
    BY <2>2, <2>3, SeqMonotonic
  <2>5. VocabularyOf(src, Upstreams(o), known) = [status |-> 200, filters |-> DefaultAvailableFilters]
    BY <1>3 DEF VocabularyOf
  <2>6. QED
    BY <2>1, <2>4, <2>5
<1>4. CASE src.service \in {"jellyfin", "plex"}
  <2>1. PICK scope : scope = IF src.service = "plex" THEN MovieSection(src, server, known).section
                             ELSE src.scope
    OBVIOUS
  <2>2. VocabularyOf(src, Upstreams(o), known).filters = Shelf(server, scope)
    BY <1>1, <1>4, <2>1 DEF VocabularyOf
  <2>3. Shelf(server, scope).genres \in Seq(GenreWords)
    BY <1>2, <1>4, ShelfIs
  <2>4. QED
    BY <2>2, <2>3
<1>5. QED
  BY <1>3, <1>4

\* What is offered, of what the sources answered.
OffersGenres(srcs, results, offered) ==
  LET ok == {r \in Range(results) : r.status = 200}
  IN /\ \A i, j \in DOMAIN offered : SameGenre(offered[i], offered[j]) => i = j
     /\ \A r \in ok : \A g \in Range(r.filters.genres) :
          \E h \in Range(offered) : SameGenre(g, h)
     /\ srcs # <<>> =>
          \A h \in Range(offered) : \E r \in ok : h \in Range(r.filters.genres)

\* Without a source it is TMDB's genres, each of which has an identifier.
LEMMA OffersDefaults ==
  ASSUME NEW srcs, srcs = <<>>, NEW results, DOMAIN results = DOMAIN srcs
  PROVE  OffersGenres(srcs, results, DefaultAvailableFilters.genres)
<1>1. PICK offered : offered = DefaultAvailableFilters.genres
  OBVIOUS
<1>2. /\ offered \in Seq(DOMAIN GenreIDs) /\ NoRepeats(offered)
      /\ Range(offered) = Range(GenreNames)
  BY <1>1, DefaultGenres
<1>3. ASSUME NEW i \in DOMAIN offered, NEW j \in DOMAIN offered, SameGenre(offered[i], offered[j])
      PROVE  i = j
  <2>1. PICK n \in DOMAIN GenreNames : offered[i] = GenreNames[n]
    BY <1>2, Zenon DEF Range
  <2>2. PICK m \in DOMAIN GenreNames : offered[j] = GenreNames[m]
    BY <1>2, Zenon DEF Range
  <2>3. GenreIDs[offered[i]] = n /\ GenreIDs[offered[j]] = m
    BY <2>1, <2>2, GenresAssumption
  <2>4. offered[i] = offered[j]
    BY <1>3, <2>1, <2>2, <2>3 DEF SameGenre
  <2>5. QED
    BY <1>2, <2>4 DEF NoRepeats
<1>4. Range(results) = {}
  BY DEF Range
<1>5. QED
  BY <1>1, <1>3, <1>4 DEF OffersGenres

\* With sources it is the genres of those that answered.
GenresOf(ok) ==
  FoldLeft(MergeGenre, <<>>, FlattenSeq([i \in DOMAIN ok |-> ok[i].filters.genres]))

NamesGenresOf(answered, offered) ==
  /\ \A i, j \in DOMAIN offered : SameGenre(offered[i], offered[j]) => i = j
  /\ \A r \in answered : \A g \in Range(r.filters.genres) : \E h \in Range(offered) : SameGenre(g, h)
  /\ \A h \in Range(offered) : \E r \in answered : h \in Range(r.filters.genres)

LEMMA MergedGenres ==
  ASSUME NEW W, NEW ok \in Seq(W), \A r \in W : r.filters.genres \in Seq(GenreWords)
  PROVE  NamesGenresOf(Range(ok), GenresOf(ok))
<1>1. PICK k \in Nat : /\ k = Len(ok) /\ DOMAIN ok = 1..k /\ Range(ok) = {ok[i] : i \in 1..k}
                       /\ \A i \in 1..k : ok[i] \in W
  BY ElementsOf
<1>2. PICK seqs : seqs = [i \in 1..k |-> ok[i].filters.genres]
  BY Zenon
<1>3. PICK G : G = Seq(GenreWords)
  OBVIOUS
<1>4. seqs \in [1..k -> G]
  BY <1>1, <1>2, <1>3
<1>5. seqs \in Seq(G) /\ Len(seqs) = k
  BY <1>4, Mapped
<1>6. PICK list : list = FlattenSeq(seqs)
  OBVIOUS
<1>7. list \in Seq(GenreWords) /\ Range(list) = UNION {Range(seqs[i]) : i \in 1..k}
  BY <1>3, <1>5, <1>6, Flattened, Zenon
<1>8. list \in Seq(GenreWords)
  BY <1>7
<1>9. PICK offered : offered = FoldLeft(MergeGenre, <<>>, list)
  OBVIOUS
<1>10. /\ offered \in Seq(GenreWords) /\ Range(offered) \subseteq Range(list)
       /\ \A i, j \in DOMAIN offered :
            CanonicalGenreKey(offered[i]) = CanonicalGenreKey(offered[j]) => i = j
       /\ \A g \in Range(list) : \E h \in Range(offered) :
            CanonicalGenreKey(h) = CanonicalGenreKey(g)
  BY <1>8, <1>9, GenresMerge
<1>11. Range(list) \subseteq GenreWords /\ Range(offered) \subseteq GenreWords
  BY <1>8, <1>10, ElementsOf
<1>12. ASSUME NEW i \in DOMAIN offered, NEW j \in DOMAIN offered, SameGenre(offered[i], offered[j])
       PROVE  i = j
  <2>1. PICK a, b : a = offered[i] /\ b = offered[j]
    OBVIOUS
  <2>2. a \in GenreWords /\ b \in GenreWords
    BY <1>11, <2>1 DEF Range
  <2>3. CanonicalGenreKey(a) = CanonicalGenreKey(b)
    BY <1>12, <2>1, <2>2, OneKeyPerGenre
  <2>4. QED
    BY <1>10, <2>1, <2>3
<1>13. \A g : g \in Range(list) <=> \E r \in Range(ok) : g \in Range(r.filters.genres)
  BY <1>1, <1>2, <1>7
<1>14. ASSUME NEW r \in Range(ok), NEW g \in Range(r.filters.genres)
       PROVE  \E h \in Range(offered) : SameGenre(g, h)
  <2>1. g \in Range(list)
    BY <1>13
  <2>2. PICK h \in Range(offered) : CanonicalGenreKey(h) = CanonicalGenreKey(g)
    BY <1>10, <2>1
  <2>3. g \in GenreWords /\ h \in GenreWords
    BY <1>11, <2>1
  <2>4. SameGenre(g, h)
    BY <2>2, <2>3, OneKeyPerGenre
  <2>5. QED
    BY <2>4
<1>15. \A h \in Range(offered) : \E r \in Range(ok) : h \in Range(r.filters.genres)
  BY <1>10, <1>13
<1>16. offered = GenresOf(ok)
  BY <1>1, <1>2, <1>6, <1>9 DEF GenresOf
<1>17. QED
  BY <1>12, <1>14, <1>15, <1>16 DEF NamesGenresOf

LEMMA OffersMerged ==
  ASSUME NEW n \in Nat, NEW srcs, NEW results, DOMAIN results = 1..n,
         \A i \in 1..n : results[i].filters.genres \in Seq(GenreWords),
         results = [i \in 1..n |-> results[i]],
         NEW ok, ok = Only(results, {r \in Range(results) : r.status = 200})
  PROVE  OffersGenres(srcs, results, GenresOf(ok))
<1>1. PICK U : U = Range(results)
  BY Zenon
<1>2. results \in [1..n -> U]
  BY <1>1 DEF Range
<1>3. results \in Seq(U)
  BY <1>2, Mapped
<1>4. PICK good : good = {r \in U : r.status = 200}
  BY Zenon
<1>5. PICK W : W = U \cap good
  BY Zenon
<1>6. PICK chosen : chosen = Only(results, good)
  BY Zenon
<1>7. chosen \in Seq(U \cap good) /\ Range(chosen) = Range(results) \cap good
  BY <1>3, <1>6, OnlyIs, Zenon
<1>8. ok = chosen /\ Range(ok) = good
  BY <1>1, <1>4, <1>6, <1>7
<1>9. ok \in Seq(W) /\ \A r \in W : r.filters.genres \in Seq(GenreWords)
  BY <1>1, <1>4, <1>5, <1>7, <1>8 DEF Range
<1>10. PICK answered, offered : answered = Range(ok) /\ offered = GenresOf(ok)
  BY Zenon
<1>11. NamesGenresOf(answered, offered)
  BY <1>9, <1>10, MergedGenres
<1>12. answered = {r \in Range(results) : r.status = 200}
  BY <1>1, <1>4, <1>8, <1>10
<1>13. OffersGenres(srcs, results, offered)
  BY <1>11, <1>12, Zenon DEF OffersGenres, NamesGenresOf
<1>14. QED
  BY <1>10, <1>13

LEMMA FiltersOffer ==
  ASSUME NEW G, NEW now, now.order \in Seq(G), NEW requested, NEW o, NEW known,
         \A src \in G : src.service \in {"jellyfin", "plex", "tmdb"},
         NEW got, got = LibraryFilters(now, requested, Upstreams(o), known)
  PROVE  OffersGenres(got.srcs, got.results, got.genres)
<1>1. PICK srcs : srcs = SelectSources(now.order, requested)
  OBVIOUS
<1>2. srcs \in Seq(G)
  BY <1>1, SelectedAre
<1>3. PICK n \in Nat : n = Len(srcs) /\ DOMAIN srcs = 1..n /\ \A i \in 1..n : srcs[i] \in G
  BY <1>2, ElementsOf
<1>4. PICK results : results = [i \in 1..n |-> VocabularyOf(srcs[i], Upstreams(o), known)]
  BY Zenon
<1>5. PICK ok : ok = Only(results, {r \in Range(results) : r.status = 200})
  BY Zenon
<1>6. PICK merged : merged = GenresOf(ok)
  OBVIOUS
<1>7. /\ got.srcs = srcs
      /\ got.results = [i \in DOMAIN srcs |-> VocabularyOf(srcs[i], Upstreams(o), known)]
  BY <1>1 DEF LibraryFilters
<1>8. got.results = results
  BY <1>3, <1>4, <1>7
<1>9. got.genres = IF srcs = <<>> THEN DefaultAvailableFilters.genres ELSE merged
  BY <1>1, <1>3, <1>4, <1>5, <1>6, Zenon DEF LibraryFilters, GenresOf
<1>10. CASE srcs = <<>>
  <2>1. DOMAIN results = DOMAIN srcs
    BY <1>3, <1>4
  <2>2. OffersGenres(srcs, results, DefaultAvailableFilters.genres)
    BY <1>10, <2>1, OffersDefaults
  <2>3. QED
    BY <1>7, <1>8, <1>9, <1>10, <2>2
<1>11. CASE srcs # <<>>
  <2>1. DOMAIN results = 1..n /\ results = [i \in 1..n |-> results[i]]
    BY <1>4
  <2>2. \A i \in 1..n : results[i].filters.genres \in Seq(GenreWords)
    BY <1>3, <1>4, VocabularyIs
  <2>3. OffersGenres(srcs, results, merged)
    BY <1>5, <1>6, <2>1, <2>2, OffersMerged
  <2>4. QED
    BY <1>7, <1>8, <1>9, <1>11, <2>3
<1>12. QED
  BY <1>10, <1>11

\* The filters are those of the set that the request leaves.
LEMMA AskedFilters ==
  ASSUME DeploymentInv, NEW f, NEW o \in Outages, AskFilters(f, o)
  PROVE  OffersGenres(answer'.got.srcs, answer'.got.results, answer'.got.genres)
<1>1. PICK now : now = set'
  OBVIOUS
<1>2. PICK cfg : cfg = live
  OBVIOUS
<1>3. PICK known : known = Known
  OBVIOUS
<1>4. GoodSet(AllRefs, cfg, now)
  BY <1>1, <1>2, UsedIsGood DEF AskFilters
<1>5. PICK G : G = Range(now.order)
  BY Zenon
<1>6. now.order \in Seq(G) /\ \A src \in G : src.service \in {"jellyfin", "plex", "tmdb"}
  BY <1>4, <1>5, SelectedFrom
<1>7. PICK got : got = LibraryFilters(now, f.sources, Upstreams(o), known)
  OBVIOUS
<1>8. OffersGenres(got.srcs, got.results, got.genres)
  BY <1>6, <1>7, FiltersOffer
<1>9. answer'.got = got
  BY <1>1, <1>3, <1>7 DEF AskFilters
<1>10. QED
  BY <1>8, <1>9

LEMMA GenresStep == DeploymentInv /\ OneNamePerGenre /\ [Next]_vars => OneNamePerGenre'
<1> SUFFICES ASSUME DeploymentInv, OneNamePerGenre, [Next]_vars
             PROVE  OneNamePerGenre'
  OBVIOUS
<1>1. CASE answer' = NoAnswer \/ answer'.kind # "filters"
  BY <1>1 DEF OneNamePerGenre, Answered
<1>2. CASE UNCHANGED answer
  BY <1>2 DEF OneNamePerGenre, Answered
<1>3. ASSUME NEW f, NEW o \in Outages, AskFilters(f, o)
      PROVE  OneNamePerGenre'
  BY <1>3, AskedFilters DEF OneNamePerGenre, OffersGenres, SameGenre
<1>4. CASE Next
  <2>1. \/ UNCHANGED answer \/ answer' = NoAnswer \/ answer'.kind # "filters"
        \/ \E f \in Filters, o \in Outages : AskFilters(f, o)
    BY <1>4, SaveIs DEF Next, Restart, AskPreview, AskWarm, AskVerify, AskProviders, Check, Expire, RetryDue
  <2>2. QED
    BY <1>1, <1>2, <1>3, <2>1
<1>5. QED
  BY <1>2, <1>4 DEF vars

\* Whichever sources are asked for their genres and whichever of them answer,
\* the host is offered each genre once, and exactly the genres there are.
THEOREM GenresAreNamedOnce == Spec => []OneNamePerGenre
<1>1. Init => OneNamePerGenre
  BY DEF Init, OneNamePerGenre, Answered
<1>2. QED
  BY <1>1, GenresStep, DeploymentInvariant, PTL DEF Spec

----------------------------------------------------------------------------
(***************************************************************************)
(* The services that the picker offers.                                    *)
(***************************************************************************)

\* What the picker offers for the services that TMDB lists.
Offered == NewProviderCatalog(World.tmdb.providers).options

\* A list that is kept was fetched with TMDB's own token.
GoodCache(kept) ==
  /\ \A region \in DOMAIN kept : kept[region] = Offered
  /\ DOMAIN kept # {} => World.tmdb.key # Empty

\* A list that is answered is what TMDB lists, or none.
GoodList(ok, options) ==
  \/ ok /\ options = Offered /\ World.tmdb.key # Empty
  \/ ~ok /\ options = <<>>

\* The inductive invariant of the lists.
PickerInv ==
  /\ GoodCache(cache)
  /\ Answered("providers") => GoodList(answer.got.code = 200, answer.got.options)

LEMMA FetchIs ==
  ASSUME NEW token, token # Empty, NEW region, NEW allow \in BOOLEAN, NEW kept, GoodCache(kept),
         NEW tmdb, tmdb.key = World.tmdb.key, tmdb.providers = World.tmdb.providers,
         NEW got, got = FetchProviderList(token, region, allow, kept, tmdb)
  PROVE  GoodCache(got.cache) /\ GoodList(got.ok, got.options)
<1>1. PICK status : status = Status(tmdb, tmdb.url, token)
  OBVIOUS
<1>2. status = 200 => token = World.tmdb.key
  BY <1>1 DEF Status
<1>3. PICK options : options = Offered /\ options = NewProviderCatalog(tmdb.providers).options
  BY DEF Offered
<1>4. CASE allow /\ region \in DOMAIN kept
  <2>1. got = [ok |-> TRUE, options |-> kept[region], cache |-> kept]
    BY <1>4 DEF FetchProviderList
  <2>2. kept[region] = Offered /\ World.tmdb.key # Empty
    BY <1>4 DEF GoodCache
  <2>3. QED
    BY <2>1, <2>2 DEF GoodList
<1>5. CASE ~(allow /\ region \in DOMAIN kept) /\ status # 200
  <2>1. got = [ok |-> FALSE, options |-> <<>>, cache |-> kept]
    BY <1>1, <1>5 DEF FetchProviderList
  <2>2. QED
    BY <2>1 DEF GoodList
<1>6. CASE ~(allow /\ region \in DOMAIN kept) /\ status = 200
  <2>1. got = [ok |-> TRUE, options |-> options, cache |-> Assign(kept, region, options)]
    BY <1>1, <1>3, <1>6 DEF FetchProviderList
  <2>2. World.tmdb.key # Empty
    BY <1>2, <1>6
  <2>3. PICK more : more = Assign(kept, region, options)
    OBVIOUS
  <2>4. GoodCache(more)
    BY <1>3, <2>2, <2>3 DEF GoodCache, Assign
  <2>5. got.ok = TRUE /\ got.options = options /\ got.cache = more
    BY <2>1, <2>3
  <2>6. QED
    BY <1>3, <2>2, <2>4, <2>5 DEF GoodList
<1>7. QED
  BY <1>4, <1>5, <1>6

\* A verification asks, whatever is kept, and keeps what it is told.
LEMMA VerificationKeeps ==
  ASSUME NEW req, NEW cfg, NEW kept, GoodCache(kept),
         NEW tmdb, tmdb.key = World.tmdb.key, tmdb.providers = World.tmdb.providers
  PROVE  GoodCache(VerifyTMDB(req, cfg, kept, tmdb).cache)
<1>1. PICK token, region : token = Token(req, cfg) /\ region = RegionOrDefault(req.region, cfg)
  OBVIOUS
<1>2. PICK got : got = FetchProviderList(token, region, FALSE, kept, tmdb)
  BY Zenon
<1>3. PICK checked : checked = VerifyTMDB(req, cfg, kept, tmdb)
  OBVIOUS
<1>4. CASE token = Empty
  <2>1. checked.cache = kept
    BY <1>1, <1>3, <1>4 DEF VerifyTMDB
  <2>2. QED
    BY <1>3, <2>1
<1>5. CASE token # Empty
  <2>1. checked.cache = got.cache
    BY <1>1, <1>2, <1>3, <1>5 DEF VerifyTMDB
  <2>2. GoodCache(got.cache)
    BY <1>2, <1>5, FetchIs, Zenon
  <2>3. QED
    BY <1>3, <2>1, <2>2
<1>6. QED
  BY <1>4, <1>5

\* A list is what is kept, or what TMDB answers the token that is asked with.
LEMMA ListIs ==
  ASSUME NEW req, NEW cfg, NEW kept, GoodCache(kept),
         NEW tmdb, tmdb.key = World.tmdb.key, tmdb.providers = World.tmdb.providers,
         NEW list, list = ProviderList(req, cfg, kept, tmdb)
  PROVE  GoodCache(list.cache) /\ GoodList(list.code = 200, list.options)
<1>1. PICK token, region : token = Token(req, cfg) /\ region = RegionOrDefault(req.region, cfg)
  OBVIOUS
<1>2. PICK got : got = FetchProviderList(token, region, TRUE, kept, tmdb)
  BY Zenon
<1>3. CASE token = Empty
  <2>1. list = [code |-> 400, options |-> <<>>, cache |-> kept]
    BY <1>1, <1>3 DEF ProviderList
  <2>2. QED
    BY <2>1 DEF GoodList
<1>4. CASE token # Empty
  <2>1. list = [code |-> IF got.ok THEN 200 ELSE 502, options |-> got.options, cache |-> got.cache]
    BY <1>1, <1>2, <1>4 DEF ProviderList
  <2>2. GoodCache(got.cache) /\ GoodList(got.ok, got.options)
    BY <1>2, <1>4, FetchIs, Zenon
  <2>3. QED
    BY <2>1, <2>2 DEF GoodList
<1>5. QED
  BY <1>3, <1>4

\* Trouble changes nothing of what TMDB lists.
LEMMA ListedByTMDB ==
  ASSUME NEW o
  PROVE  /\ Upstreams(o).tmdb.key = World.tmdb.key
         /\ Upstreams(o).tmdb.providers = World.tmdb.providers
<1>1. "tmdb" \in DOMAIN World /\ {"key", "providers"} \subseteq DOMAIN World.tmdb
  BY WorldAssumption
<1>2. Upstreams(o).tmdb = [World.tmdb EXCEPT !.status = o["tmdb"]]
  BY <1>1 DEF Upstreams
<1>3. QED
  BY <1>1, <1>2

LEMMA PickerStep == PickerInv /\ [Next]_vars => PickerInv'
<1> SUFFICES ASSUME PickerInv, [Next]_vars
             PROVE  PickerInv'
  OBVIOUS
<1>1. GoodCache(cache)
  BY DEF PickerInv
<1>2. GoodCache(<<>>)
  BY DEF GoodCache
<1>3. ASSUME NEW req, NEW o, AskVerify(req, o)
      PROVE  PickerInv'
  <2>1. PICK cfg, kept, tmdb : cfg = live /\ kept = cache /\ tmdb = Upstreams(o).tmdb
    OBVIOUS
  <2>2. GoodCache(VerifyTMDB(req, cfg, kept, tmdb).cache)
    BY <1>1, <2>1, ListedByTMDB, VerificationKeeps
  <2>3. cache' = cache \/ cache' = VerifyTMDB(req, cfg, kept, tmdb).cache
    BY <1>3, <2>1 DEF AskVerify
  <2>4. GoodCache(cache')
    BY <1>1, <2>2, <2>3
  <2>5. answer'.kind \in {"jellyfin", "users", "plex", "tmdb"}
    BY <1>3 DEF AskVerify, Check
  <2>6. QED
    BY <2>4, <2>5 DEF PickerInv, GoodCache, Offered, Answered
<1>4. ASSUME NEW req, NEW o, AskProviders(req, o)
      PROVE  PickerInv'
  <2>1. PICK cfg, kept, tmdb : cfg = live /\ kept = cache /\ tmdb = Upstreams(o).tmdb
    OBVIOUS
  <2>2. PICK list : list = ProviderList(req, cfg, kept, tmdb)
    OBVIOUS
  <2>3. GoodCache(list.cache) /\ GoodList(list.code = 200, list.options)
    BY <1>1, <2>1, <2>2, ListedByTMDB, ListIs
  <2>4. cache' = list.cache /\ answer'.got = [code |-> list.code, options |-> list.options]
    BY <1>4, <2>1, <2>2 DEF AskProviders, Check
  <2>5. answer'.got.code = list.code /\ answer'.got.options = list.options
    BY <2>4
  <2>6. QED
    BY <2>3, <2>4, <2>5 DEF PickerInv, GoodCache, GoodList, Offered
<1>5. CASE UNCHANGED cache /\ (answer' = NoAnswer \/ answer'.kind \in {"save", "preview", "warm", "filters"})
  BY <1>1, <1>5 DEF PickerInv, GoodCache, Offered, Answered
<1>6. CASE (UNCHANGED cache \/ cache' = <<>>) /\ UNCHANGED answer
  BY <1>1, <1>2, <1>6 DEF PickerInv, GoodCache, GoodList, Offered, Answered
<1>7. CASE Next
  <2>1. \/ \E req \in Candidates, o \in Outages : AskVerify(req, o) \/ AskProviders(req, o)
        \/ UNCHANGED cache /\ (answer' = NoAnswer \/ answer'.kind \in {"save", "preview", "warm", "filters"})
        \/ (UNCHANGED cache \/ cache' = <<>>) /\ UNCHANGED answer
    BY <1>7, SaveIs DEF Next, Restart, AskPreview, AskWarm, AskFilters, Expire, RetryDue
  <2>2. QED
    BY <1>3, <1>4, <1>5, <1>6, <2>1
<1>8. QED
  BY <1>6, <1>7 DEF vars

\* A configuration that picks o resolves to o, of what the picker offers.
LEMMA PickedIs ==
  ASSUME NEW cfg, "val" \in DOMAIN cfg, DOMAIN cfg.val = Keys \ Toggles, World.tmdb.key # Empty,
         NEW o \in Range(Offered), o.id \notin DOMAIN NumberOf,
         \A k \in Range(KnownProviders) : k.tmdbID # o.tmdbID => o.id # k.slug,
         \A p \in Range(World.tmdb.providers) : p.tmdbID # o.tmdbID =>
           o.id \notin {p.name, Entry(p).provider.name}
  PROVE  ResolveStreamingProviders(
           [cfg EXCEPT !.val["streaming.providers"] = <<Plain(o.id)>>,
                       !.val["streaming.tmdbReadToken"] = World.tmdb.key], World.tmdb) = <<o>>
<1>1. PICK picking : picking = [cfg EXCEPT !.val["streaming.providers"] = <<Plain(o.id)>>,
                                           !.val["streaming.tmdbReadToken"] = World.tmdb.key]
  OBVIOUS
<1>2. {"streaming.providers", "streaming.tmdbReadToken"} \subseteq Keys \ Toggles
  BY DEF Keys, Toggles, Lists, LibraryLists, Scalars, Secrets
<1>3. /\ picking.val["streaming.providers"] = <<Plain(o.id)>>
      /\ picking.val["streaming.tmdbReadToken"] = World.tmdb.key
  BY <1>1, <1>2
<1>4. PICK tmdb : tmdb = World.tmdb
  OBVIOUS
<1>5. Listed(tmdb.providers) /\ tmdb.status = 200
  BY <1>4, WorldAssumption DEF Listed
<1>6. PICK cat : cat = NewProviderCatalog(tmdb.providers)
  OBVIOUS
<1>7. o \in Range(cat.options)
  BY <1>4, <1>6 DEF Offered
<1>8. ResolveStreamingProviders(picking, tmdb) = <<o>>
  BY <1>3, <1>4, <1>5, <1>6, <1>7, PickResolves
<1>9. QED
  BY <1>1, <1>4, <1>8

\* Every list that is answered is of the services TMDB has, in whichever order it
\* lists them and whether it was kept or not, and what is picked of it is what
\* a configuration resolves it to, for a token that TMDB takes.
THEOREM PickerAndResolutionAgree == Spec => []PickerAgreesWithResolution
<1>1. Init => PickerInv
  BY DEF Init, PickerInv, GoodCache, Answered
<1>2. DeploymentInv /\ PickerInv => PickerAgreesWithResolution
  <2> SUFFICES ASSUME DeploymentInv, PickerInv, Answered("providers")
               PROVE  PickerAgreesWithResolution
    BY Zenon DEF PickerAgreesWithResolution
  <2>1. PICK got : got = answer.got /\ GoodList(got.code = 200, got.options)
    BY DEF PickerInv
  <2>2. CASE got.code # 200 /\ got.options = <<>>
    <3>1. Range(got.options) = {} /\ DOMAIN got.options = {}
      BY <2>2 DEF Range
    <3>2. QED
      BY <2>1, <2>2, <3>1, Zenon DEF PickerAgreesWithResolution
  <2>3. CASE got.options = Offered /\ World.tmdb.key # Empty
    <3>1. PICK list : list = World.tmdb.providers /\ Listed(list)
      BY WorldAssumption DEF Listed
    <3>2. Listed(Reverse(list)) /\ Range(Reverse(list)) = Range(list)
      BY <3>1, ListedBackwards
    <3>3. NewProviderCatalog(list) = NewProviderCatalog(Reverse(list))
      BY <3>1, <3>2, CatalogIgnoresOrder
    <3>4. got.options = NewProviderCatalog(Reverse(World.tmdb.providers)).options
      BY <2>3, <3>1, <3>3 DEF Offered
    <3>5. PICK cat : cat = NewProviderCatalog(list)
      OBVIOUS
    <3>6. \A i, j \in DOMAIN cat.options : cat.options[i].id = cat.options[j].id => i = j
      BY <3>1, <3>5, PickerIs
    <3>7. got.options = cat.options
      BY <2>3, <3>1, <3>5 DEF Offered
    <3>8. "val" \in DOMAIN live /\ DOMAIN live.val = Keys \ Toggles
      BY SettingsTypes DEF DeploymentInv, SettingsInv, WellTyped
    <3>9. ASSUME NEW o \in Range(got.options), o.id \notin DOMAIN NumberOf,
                 \A k \in Range(KnownProviders) : k.tmdbID # o.tmdbID => o.id # k.slug,
                 \A p \in Range(World.tmdb.providers) : p.tmdbID # o.tmdbID =>
                   o.id \notin {p.name, Entry(p).provider.name}
          PROVE  ResolveStreamingProviders(
                   [live EXCEPT !.val["streaming.providers"] = <<Plain(o.id)>>,
                                !.val["streaming.tmdbReadToken"] = World.tmdb.key], World.tmdb) = <<o>>
      <4>1. PICK cfg : cfg = live
        OBVIOUS
      <4>2. o \in Range(Offered)
        BY <2>3
      <4>3. QED
        BY <2>3, <3>8, <3>9, <4>1, <4>2, PickedIs, Zenon
    <3>10. QED
      BY <2>1, <3>4, <3>6, <3>7, <3>9, Zenon DEF PickerAgreesWithResolution
  <2>4. QED
    BY <2>1, <2>2, <2>3 DEF GoodList
<1>3. QED
  BY <1>1, <1>2, PickerStep, DeploymentInvariant, PTL DEF Spec

============================================================================
