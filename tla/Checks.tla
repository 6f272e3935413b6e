------------------------------- MODULE Checks -------------------------------
(***************************************************************************)
(* The settings screen's checks of candidate credentials, and the lists it *)
(* offers to choose from.  A candidate that is not given is the stored     *)
(* value, since the screen never sees a stored credential.  A verdict is   *)
(* told apart by what it sends the operator to fix.                        *)
(***************************************************************************)
EXTENDS Shoe

OrStored(candidate, stored) ==
  IF TrimSpace(candidate) # Empty THEN TrimSpace(candidate) ELSE stored

Verdict(valid, says, libraries) == [valid |-> valid, says |-> says, libraries |-> libraries]
Invalid(says) == Verdict(FALSE, says, <<>>)

\* getJSON without a credential.
PublicStatus(server, base) == IF base # server.url THEN 0 ELSE server.status

RejectedCredential(status) == StatusFailure(status) = "unauthorized"

\* handleVerifyJellyfin: is it a Jellyfin, and does it take the key?
VerifyJellyfin(req, cfg, server) ==
  LET base == OrStored(req.url, cfg.val["jellyfin.url"])
      key == OrStored(req.secret, cfg.val["jellyfin.apiKey"])
      status == Status(server, base, key)
  IN IF base = Empty THEN Invalid("no_url")
     ELSE IF key = Empty THEN Invalid("no_key")
     ELSE IF PublicStatus(server, base) # 200 THEN Invalid("no_server")
     ELSE IF status # 200
       THEN Invalid(IF RejectedCredential(status) THEN "rejected" ELSE "query_failed")
     ELSE Verdict(TRUE, IF server.films = <<>> THEN "no_movies" ELSE "connected",
                  MovieLibraries(server))

\* handleJellyfinUsers.
JellyfinUsers(req, cfg, server) ==
  LET base == OrStored(req.url, cfg.val["jellyfin.url"])
      key == OrStored(req.secret, cfg.val["jellyfin.apiKey"])
  IN IF base = Empty \/ key = Empty THEN [code |-> 400, users |-> <<>>]
     ELSE IF Status(server, base, key) # 200 THEN [code |-> 502, users |-> <<>>]
     ELSE [code |-> 200,
           users |-> SortLibraries(Only(server.users, {u \in Range(server.users) : u.id # Empty}))]

\* handleVerifyPlex: a section that is not there is found out here, and every
\* answer that reached the libraries lists them.
VerifyPlex(req, cfg, server) ==
  LET base == OrStored(req.url, cfg.val["plex.url"])
      token == OrStored(req.secret, cfg.val["plex.token"])
      section == OrStored(req.section, cfg.val["plex.librarySection"])
      status == Status(server, base, token)
      sections == MovieLibraries(server)
  IN IF base = Empty THEN Invalid("no_url")
     ELSE IF token = Empty THEN Invalid("no_key")
     ELSE IF status # 200
       THEN Invalid(IF RejectedCredential(status) THEN "rejected" ELSE "no_server")
     ELSE IF sections = <<>> THEN Invalid("no_movies")
     ELSE IF section = Empty
       THEN Verdict(TRUE, IF Len(sections) > 1 THEN "several" ELSE "connected", sections)
     ELSE IF \E l \in Range(sections) : l.id = section
       THEN Verdict(TRUE, "connected", sections)
     ELSE Verdict(FALSE, "no_section", sections)

----------------------------------------------------------------------------
(***************************************************************************)
(* The list of streaming services, kept for a while by region.             *)
(***************************************************************************)

RegionOrDefault(region, cfg) ==
  IF region # Empty THEN ToUpper(TrimSpace(region))
  ELSE IF cfg.val["streaming.watchRegion"] # Empty THEN cfg.val["streaming.watchRegion"]
  ELSE DefaultOf("streaming.watchRegion")

Token(req, cfg) ==
  IF req.secret # Empty THEN req.secret ELSE cfg.val["streaming.tmdbReadToken"]

\* Mutant: a fresh entry answers a verification too.
FetchProviderList_Cached(token, region, allowCache, cache, tmdb) ==
  IF region \in DOMAIN cache THEN [ok |-> TRUE, options |-> cache[region], cache |-> cache]
  ELSE IF Status(tmdb, tmdb.url, token) # 200 THEN [ok |-> FALSE, options |-> <<>>, cache |-> cache]
  ELSE LET options == NewProviderCatalog(tmdb.providers).options
       IN [ok |-> TRUE, options |-> options, cache |-> Assign(cache, region, options)]

\* fetchProviderList: the cache is keyed by region alone.
FetchProviderList(token, region, allowCache, cache, tmdb) ==
  IF allowCache /\ region \in DOMAIN cache
    THEN [ok |-> TRUE, options |-> cache[region], cache |-> cache]
  ELSE IF Status(tmdb, tmdb.url, token) # 200
    THEN [ok |-> FALSE, options |-> <<>>, cache |-> cache]
  ELSE LET options == NewProviderCatalog(tmdb.providers).options
       IN [ok |-> TRUE, options |-> options, cache |-> Assign(cache, region, options)]

\* handleVerifyTMDB.
VerifyTMDB(req, cfg, cache, tmdb) ==
  LET got == FetchProviderList(Token(req, cfg), RegionOrDefault(req.region, cfg),
                               FALSE, cache, tmdb)
  IN IF Token(req, cfg) = Empty THEN [verdict |-> Invalid("no_key"), cache |-> cache]
     ELSE [verdict |-> Verdict(got.ok, IF got.ok THEN "connected" ELSE "failed", <<>>),
           cache |-> got.cache]

\* handleProviderList.
ProviderList(req, cfg, cache, tmdb) ==
  LET got == FetchProviderList(Token(req, cfg), RegionOrDefault(req.region, cfg),
                               TRUE, cache, tmdb)
  IN IF Token(req, cfg) = Empty THEN [code |-> 400, options |-> <<>>, cache |-> cache]
     ELSE [code |-> IF got.ok THEN 200 ELSE 502, options |-> got.options, cache |-> got.cache]

=============================================================================
