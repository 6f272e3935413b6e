# Movie Night Showdown in TLA+

Specifications of Movie Night Showdown, a self-hosted app in which a group swipes
through movie posters until one movie has collected enough yeses.  A Go server
keeps the sessions in memory and talks to browsers over WebSockets; the movies
come from Jellyfin, Plex and TMDB.

Everything is read off the source, named by file and line in `PROJECT.json`
("map").  The modules are plain TLA+, model-checked with TLC; the theorems are
checked with TLAPS.

## The system

| Part | Code | State | Operations |
| --- | --- | --- | --- |
| Session and match rules | `server/session.go`, `match.go`, `hub.go` | `Session` (status, lock, gate, threshold, deck, roster, votes, last swipes, winner) and its attached clients, under `Session.mu` | join, disconnect, host:options, ready, host:start, swipe, undo, host:pick, host:end, EndAll |
| Hub | `hub.go`, `messages.go` | send buffers, one reader and one writer goroutine per connection | broadcasts and replies, after the lock is released |
| Store | `session.go` | sessions by code, under `Store.mu` | Create, Get, sweeper, EndAll, SetTTL |
| Source set, reload | `sourceset.go`, `settings.go`, `libraryresolve.go` | an atomic pointer to the source set, the running configuration, the file | build, resolve pending libraries and publish by compare-and-swap (currentSources), save settings, applyConfig |
| Cached discovery | `lazy.go` | value, error and time of the last failure, under a lock | get |
| Poster cache | `imagecache.go`, `images.go` | files, single flights | get, ensure, store, prune, warm |
| Configuration | `config.go`, `configfile.go`, `setuptoken.go`, `settings.go` | the configuration file, the setup token | load, merge a patch, validate, replace the file |
| Deck | `sources.go`, `source.go`, `filters.go`, `library.go`, `providers.go`, `tmdb.go` | none | select sources, gather, merge, sample pages, build the provider catalog |
| Library clients | `jellyfin.go`, `plex.go`, `tmdb.go`, `tmdbapi.go` | Plex's discovered section | search, vocabulary, libraries, images |
| Credential checks | `sourceverify.go`, `tmdbverify.go` | TMDB's list of services, by region | verify, list users, list services |
| Web client | `web/src/ws.ts`, `store.ts`, `pages/*.tsx` | the socket and its reconnect timer, the store, the card index, the local undo | connect, replay of join, listeners, swipe, undo |

How they interact.  A host creates a session over HTTP; every browser opens a
WebSocket with the session's code and the token it kept, and joins.  Each
connection's messages are handled one after the other, in its own goroutine;
handlers of different connections interleave, each under the session's lock, and
send to everyone after they have released it.  host:start alone releases the lock
in the middle, to fetch movies from the sources.  Saving the settings builds a
new source set, ends every running session and publishes the set.

What is hard about it:

* handlers of several people in any order, and one person with several
  connections (a fast reconnect, two tabs);
* the fetch of host:start, during which the lobby goes on;
* messages prepared under the lock and sent after it, so that they overtake each
  other, and bounded buffers that drop them;
* connections lost at any moment, and what is rebuilt for one who returns;
* a reload against sessions being created, joined, started or swept;
* failures remembered or not, retries, and a file replaced under a crash.

What makes each part correct:

* *Session*: agreement is never missed or invented; a deck is dealt once, to a
  ready room, with a threshold it can reach; an outcome stands; undo takes back a
  vote that is there; flags and attached connections agree.
* *Hub*: whoever stays attached ends up with the deck and the winner, and no page
  is ever ahead of the session.
* *Store and reload*: no session survives a reload with the old sources; a
  configuration, the file and the source set come from one save.
* *Cached discovery*: one caller computes at a time, a failure is not retried too
  soon, a caller's timeout is not a failure, a value is never lost.
* *Poster cache*: requests share one fetch of a poster, an image that a source
  never sends keeps nobody waiting, and of a poster's versions one is kept.
* *Configuration*: a crash leaves the old or the new file; per setting, the file
  wins over the environment and the environment over the default; a save changes
  no value but what was edited, credentials included, which the screen never
  sees, and writes each switch as the screen shows it.
* *Library resolution*: a name resolves to the identifier of a library of that
  name, the same one in any order of listing, or stays pending and is reported;
  nothing that works is lost to a server that does not answer.
* *Deck*: a movie is one card with the badges of exactly the sources that have it;
  a source that fails is named beside the films of the others; no translation of a filter asks for more than the
  host did; samples are within range.
* *Streaming services*: what the picker offers is what the configuration resolves
  to.
* *Credential checks*: a verdict says what a query with those values would meet.
* *Web client*: a card that the page has passed has a vote at the server, once the
  two have heard each other.

## Modules

| Module | What it is |
| --- | --- |
| `Showdown` | abstract: what one session promises the room |
| `Session` | the session's state, every handler, and connections |
| `Hub` | `Session` and what its handlers send: buffers, broadcasts, pages |
| `WebClient` | one participant's page, its sockets, and the server's record of their votes |
| `Reload` | the configuration file under crashes, overlapping saves, currentSources with its cached discovery, and sessions during a reload |
| `Posters` | the poster cache, the image proxy and the warm-up |
| `Config` | operators: resolution, drafts, merges and validation of settings |
| `Catalog` | operators: the catalog of streaming services, and what resolves to them |
| `Sources` | operators: the source set, library resolution, selection |
| `Shoe` | operators: filters, queries, samples, merging, vocabulary |
| `Checks` | operators: credential checks and the lists of the settings screen |
| `Deployment` | the five together: saves, restarts and requests of one server after another |
| `SessionProofs`, `HubProofs`, `WebClientProofs`, `ReloadProofs`, `PostersProofs` | theorems about one module each, with their proofs |
| `FoldTheorems` | what a step keeps, a fold over a list of any length keeps |
| `SourcesProofs` | what the operators of `Config`, `Sources` and `Shoe` make, for any values |
| `DeploymentProofs` | the theorems about `Deployment` |
| `MC...` | instances for TLC: worlds, symmetry and bounds |

`Hub` extends `Session`: each of its handlers is the action of `Session` and what
it leaves to send, so that its behaviours are behaviours of `Session`.
`Session` implements `Showdown`.  `Config`, `Catalog`, `Sources`, `Shoe` and
`Checks` extend each other in this order, and `Deployment` extends the last.
`Deployment` has every detail of the settings and takes a save as one step;
`Reload` has every step of a save and two settings, one that the sources are
built from and one that is pushed to its owner.

A definition named `X_Y`, just before `X`, is `X` with a mistake in it.  Nothing
uses it; `PROJECT.json` ("mutants") says which property must fail with it.

### Session

`status`, `locked`, `waitForReady`, `requiredCount`, `deck`, `winner`, `votes`
and `lastSwipe` are the fields of `Session`; `roster`, `ready` and `connected` are
its `Participants` as sets; `clients` is the map of the same name; `ident` and
`token` are the fields of `Client`; `phase` says what the connection's readPump is
doing.  `endReason`, the reason of the latest session_ended, is kept by no field
of the code: it is only sent.

An action is a handler with its guards, as a critical section.  A handler that
refuses changes nothing and is not an action.  `HostStartBegin` is host:start up
to the fetch, `HostStartCommit` and `HostStartFail` are the rest; while a
connection fetches it does nothing else, not even disconnect, as its readPump is
inside the handler.  The result of the fetch, after the shuffle and the cap, is
any non-empty set of movies.

Connections are reused after they close, so that a participant may reconnect any
number of times and be replaced by a newer connection.  A connection holds the
token of any participant or none.  Participants are never removed, as in the code.

A vote belongs to the connection's participant id, which is empty (`NoOne`) until
it joins: handleSwipe and handleUndo do not look, and neither does the model.

### Hub

`todo[a]` is what a handler has left to send.  A broadcast is two kinds of steps:
`Snapshot` copies the list of attached connections, `TrySend` puts the message in
one buffer; participant_update has a step before, which copies the roster, and
session_state after host:start copies both in one.  A reply to a join is prepared
in the step that attaches the connection.  `outbox` is a connection's buffer and
the wire behind it, `Deliver` moves one message to the page, and `view` is what
the page's store shows; it outlives the page's sockets, until `Reload`.  A
full buffer drops the message (`dropped`), and closing a connection loses what
was in it.

`Tracked` is a parameter for size: which parts of messages and pages an instance
tells apart ("status", "roster", "board").  A message that has no tracked part is
not sent.  Messages without effect on what is modelled of a page (error, warning,
progress) are left out always, and so is the reason of an ending.

### WebClient

`mine`, `index`, `dealt` and `undoable` are `myVoteState`, `currentIndex`, the
deck's presence and `lastSwipeRef` of the page; `socket` and `conn` are the
socket of `ws.ts` and which one it is; `votes`, `last` and `attached` are
`Session.Votes`, `LastSwipe` and `clients` for this participant.  `up` and `down`
are what is on its way on each socket, old ones included: what a broken socket
had carried up arrives in part, and late.  `Swipe` and `Undo` change the page at
once and send if the socket is open; `Open` replays the join; `Receive` is
`applySessionState` or the deck, with the effect of `Swipe.tsx` that computes the
card index.  The read loop of a socket is `HandleJoin`, `SendReply`,
`HandleSwipe` and `HandleUndo`; host:start is its three steps, of which the
last sends no votes.

`Deliver` puts a message where the page will read it; `TrySend` drops it instead
whenever it likes, as what else fills a socket's buffer is not modelled.  So does
`SendReply`, for each of the two messages of the answer to a join: `final` marks
the one with which the answer is whole, `Torn` takes the mark away from an answer
that has lost a part, and `synced` says that the page has read a whole one.

The others in the room are left out: what they do reaches the page as messages
that touch neither its cards nor its votes.  The participant's first join is over
and its token is kept.

### Reload

`file` is the configuration file, and `unsynced` says that its contents would not
survive a power loss; `proc` is where `LoadConfig`, `New` and `ensureSetupToken`
are.  `cfg`, `ttl` and `set` are `Server.cfg`, `Store.ttl` and `Server.sources`;
`lazy[g]` is the `lazyValue` of the set with number `g`, and a number is used
again when nothing holds its set.

A save goes through `saver[p].pc`: `LoadFile` (read, merge), `WriteTemp`,
`Rename` (`writeConfigFile`), `Compare` (build the new set, or find that nothing
of it changed), `EndAll`, `EndOne`, `SetConfig`, `SetTTL`, `StoreSet`.  The
handler has no lock, so that saves overlap.  A request goes through
`asker[a].pc`: `LoadSet`, `Lock` (which answers from the value or the recent
failure under it), `Resolve` or `FailResolve` (recorded, or out of time and not),
`Publish` (the compare-and-swap), `Answer`; `Forgive` is the passing of
`discoveryRetryAfter`.  A session is what a reload can tell of one: whether the
store has it, its status, what its host's connection is doing, and whether its
deck comes from the live set (`from`); `TakeSet` is the snapshot that
`handleWS` takes, `Sweep` the sweeper.  `Crash` and `PowerLoss` happen at any step.

### Posters

`disk` is the set of posters and tags with a file, `flight[k]` the single flight
of one of them and its stage: a second look, the fetch, the temporary file, the
rename, the listing of the poster's other tags (`Glob`) and their removal one by
one.  `asker` is a request of the image proxy or a worker of the warm-up.  Writes
and removals may fail, and a restart may find the directory again or not.

### Config, Catalog, Sources, Shoe, Checks, Deployment

A text is a word with or without space around it, in lower or upper case, so that
trimming and folding are what they are in the code, and a word is never taken
apart.  Files, environments and resolved configurations are functions on the
dotted names that the code reports provenance under.  `Resolve` is
`resolveFrom`; `Draft` and `BuildUpdate` are `settingsView` with
`settingsDraft.ts`; `ApplySettings`, `ValidateSettings` and `Outcome` are the
handler's merge, its refusals and the three tiers of a change.

`NewProviderCatalog` registers the services of a list as `providers.go` does:
sorted, with the built-in table's identifiers, names and slugs as aliases while
they are free.  `BuildSourceSet` and `CurrentSources` give the order of the
sources and what is pending; `Preview`, `WarmCode` and `LibraryFilters` are the
handlers of `library.go`, as sets of possible answers since samples are drawn at
random.  A failure is its status, since the code tells operators apart by it.
`Checks` has one operator for each endpoint of the settings screen.

The library picker works on identifiers: its options are what a check of the
connection found the server to list, and what is stored, under its identifier if
it has no name (`PickerOptions`, `FoundOn`); what is picked is saved as the
options it belongs to (`Picked`).

`Deployment` gives them a state: `file`, `env`, `live` (`Server.cfg`), `set`
(`Server.sources`), `discovered` (the section that the client over all of Plex has
looked for, or the failure that it remembers), `cache` (TMDB's list of services),
and the latest `answer`.  Each action is a request with an outage of its choice, a
save, a restart, the expiry of the cache, or the end of `discoveryRetryAfter`
(`RetryDue`).  A query is judged by the outage of its request, and by `discovered`
where the client does not look again; a new set remembers nothing.  A preview or a
list of filters that no source answered has the code 502 and nothing else; what
each source gave is kept beside it for the properties.  That a failed resolution of
names is remembered too is in `Reload` only: here each request may try again.
`World` is what the media servers and TMDB hold, modelled from what the clients ask
of them.

## What the runs show

Runs that pass:

| Run | Instance | Shows |
| --- | --- | --- |
| `votes` | 2 connections, host and guest, 2 movies | `AgreementIsAMatch`, `MatchEarned`: no swipe, undo, changed vote or reconnect leaves a movie with enough yeses undecided, and each match is made in the step that reaches the threshold; `UndoTargetsLiveVote`; `OutcomeStands`; `ImplementsShowdown` |
| `lobby` | 2 connections, host and 2 guests, 1 movie | `TypeOK`; over the fetch of host:start: `GateHeld`, `ThresholdReachable`, `DealtOnce`; `WinnerOfDeck`; over reconnects: `ConnectedIsAttached`, `OfflineByOwnLeave` |
| `winner` | 2 tabs, host and guest, 1 movie, buffers of 1 | `WinnerHeard`, `DeckHeard`: when nothing is under way, whoever is attached and lost no message has the deck of a running session and the winner of a matched one; `NoFalseWinner` |
| `pages` | as `winner`, with status and roster | `HubTypeOK`; `PagesNeverLead`: pages lag behind the session, they are never ahead |
| `reaches` | as `winner`, with fairness | `WinnerReaches`: a match reaches everyone who stays attached |
| `client` | 2 cards, 3 sockets, 4 swipes and undos | `VotesKept`: whatever was lost, dropped, late or replayed, a card the page has passed has a vote at the server, once the two have heard each other, the whole answer to the join included |
| `reload` | 2 savers, 2 requests, 1 session, any number of crashes | `FileSurvives`; `RunsWhatTheFileSays`: a request that was resolving names does not bring an older set back; `OneAnswerPerSet`; `DealsFromLiveSources`; `EveryRequestAnswered`: a failure or a timeout gives the lock of the discovery back |
| `posters` | 1 poster with 3 tags, 2 requests, 1 worker | `CacheIsSound`: one tag of a poster is kept, however fetches of several overlap, and nobody waits for a fetch that is over; `EveryImageAnswered` |
| `deployment` | one world, 4 environments, 2 files, 17 edits, 8 filters | saves: `UntouchedSaveIsNeutral`, `SaveChangesOnlyWhatWasEdited`, `RunsWhatWasSaved`; names: `NamesAreNotIDs`, `ResolutionLosesNothing`, `ResolutionIgnoresOrder`; answers: `EverySourceAccountedFor`, `BadgesExact`, `FiltersNeverWiden`, `OneNamePerGenre`; services and checks: `PickerAgreesWithResolution`, `VerdictHolds`; `DeploymentTypeOK` |

Several of these hold with an exception that the property names; each exception
is something the code really does:

* `RunsWhatTheFileSays` is about saves that did not overlap.  `handleSetSettings`
  reads, merges and writes without a lock over the whole, so of two that overlap
  one may be lost, and the file, the configuration and the set may be of
  different saves.
* `DealsFromLiveSources` excuses a session that was `late`: its host connected
  after the reload had listed the sessions and before the set was replaced, or
  its start was under way, or sent, when it was ended.  A swept session is
  outside it, as EndAll no longer reaches it.
* `FileSurvives` admits that a file which could be read by `LoadConfig` and not,
  right after, by `ensureSetupToken` is replaced by one that has only a token.
* `CacheIsSound` excuses a pruning cut `short` by a crash or by a file that could
  not be removed: nothing prunes again until the poster is next fetched.
* `VotesKept` is about a page that has had the whole answer to its join
  (`synced`): when a full buffer dropped the session_state of one and not the deck,
  the page places its cards by old votes until the next join (`ReplayIsRight`,
  below).  It excuses an undo between a socket's join and its answer, and late
  messages of a socket that was replaced (`crossed`).  It says that there is a
  vote and not which: a second swipe of one card that is lost leaves the first.
* `SaveChangesOnlyWhatWasEdited` is about values.  Every save writes the three
  switches as the screen shows them, and a service without values shows as off: it
  is off in the file from then on, also when the environment gives it values
  later.  Of a switch that was not edited the property says that none which shows
  as on is switched off, and none which shows as off is switched on.
* `NamesAreNotIDs` excuses a library whose name was saved as its identifier.  The
  picker offers a name of the environment under itself, and saves it so when
  another library is toggled; that entry is then taken as resolved, and its source
  has the name in its identifier (`NamesNeverInIDs`, below).  The property says
  that there is no other way.
* `EverySourceAccountedFor` is about answers of films.  A preview of which every
  selected source failed is refused with one line of text, which names no source
  and no pending library (`FailuresAreNamed`, below).  The reason given for a source
  that looks for its Plex section may be that of an earlier request, while the
  failure is remembered.
* `PickerAgreesWithResolution` leaves out a service whose identifier is a number
  (it is read as one of TMDB's), is the identifier that the table has for another,
  or is another's name.  There the picker and the resolution do not agree, though
  the comment on `providerCatalog` has it that they must.
* `VerdictHolds` allows that a Jellyfin which answers 403 to everything is called
  unreachable, and that a Plex section which holds no movies is refused by the
  check, though a query of it gets an answer, an empty one.
* `UntouchedSaveIsNeutral` excuses a TMDB token of nothing but spaces: it is one
  for the screen, and the save is refused for want of one.

Runs that must fail: the code does not keep what a comment or the README says.
Each has its counterexample and a finding in `PROJECT.json`.

| Run | What happens |
| --- | --- |
| `revived` | a reload ends a lobby; it was never locked, so the host can start it, with the old sources |
| `stale_status` | a session_state or session_ended made before the match is sent after it: the page leaves the winner |
| `switched_off` | a save that switches a service off or on and changes nothing else has no effect until the restart, since `sourcesDiffer` does not compare the toggles |

Further configurations, outside the list of runs, have the counterexamples of
more findings:

| Configuration | Property | What happens |
| --- | --- | --- |
| `MCSessionGhost` | `MatchedByParticipants` | a vote under the empty id, from a connection whose join was refused, makes a match (the web client cannot do this) |
| `MCSessionOffline` | `ExhaustedByEveryone` | deck_exhausted, while someone disconnected has cards left |
| `MCHubRoster` | `RosterCurrent` | two participant_update overtake each other: the page keeps the older roster |
| `MCHubReturn` | `EndedShowsLeaderboard` | whoever returns to a session that was ended early gets no leaderboard, and an empty page |
| `MCHubEmpty` | `LeaderboardIsAList` | a lobby ended by a reload is sent a leaderboard of null, and the page is empty |
| `MCDeploymentNames` | `UnresolvedNamesOfferNothing` | when no configured name of a service is found, its source becomes one over all its libraries |
| `MCDeploymentPicked` | `NamesNeverInIDs` | a library named in the environment stays chosen while another is toggled: it is saved with its name for an identifier, and its source is never resolved |
| `MCDeploymentFailed` | `FailuresAreNamed` | every selected source fails: the host is told that nothing answered, and not what to fix |
| `MCWebClientDropped` | `ReplayIsRight` | a full buffer drops the session_state of a join and takes its deck: a card without a vote is passed |

### Seen while modelling

Without a run of their own; those that a comment or a document contradicts are
findings in `PROJECT.json`.

Sessions and pages:

* A returning participant who does get a leaderboard is always told
  deck_exhausted (`hub.go:294`).
* The comment at `hub.go:720` assumes no votes at host:start's session_state, but
  whoever got the deck before it may have swiped, and the page then forgets that
  vote.
* When the last connected participant with cards left goes away the room waits for
  the host (deliberately, `hub.go:667`), and so it does when the last swipe comes
  from a connection that was replaced and whose replacement has gone.
* An undo between a socket's join and its deck leaves a passed card without a
  vote, until the next join.

Settings and the source set:

* `addStreamingSources` does not ask whether streaming is switched off
  (`sourceset.go:190-203`, `providers.go:288`).
* To clear a credential removes it from the file, and the environment's value, if
  there is one, comes back (`settings.go`, `setString`).
* `plex.librarySection` of a file is not folded into the libraries
  (`config.go:38-42`).
* A TTL that does not parse is stored, reported as applied and not pushed.
* `resolvePendingLibraries` asks a service for its names though it is switched
  off, and its failure holds up the other's names.
* A streaming service outside the table is lost for the life of the process if
  TMDB did not answer when the set was built (`providers.go:308`).
* An alias of one service can take a key that is the canonical identifier of a
  later one (`providers.go:195-196`); a service at TMDB with the slug of a local
  service has its identifier (`sourceset.go:202`).

Answers:

* A range of years with one bound is one year for Jellyfin and Plex and open for
  TMDB; a reversed one is swapped by the two and empty for TMDB.
* A library named in the filters goes before the source's own for Plex
  (`plex.go:264`) and after it for Jellyfin (`jellyfin.go:196-201`).
* Of a genre with several names, the one offered is the first that a source gave,
  and it is asked for verbatim.
* Without any source, the warm-up answers 502 and preview and filters 200.
* A poster of TMDB's beyond 8 MiB is cut and cached (`tmdb.go:399`); a crash may
  leave temporary files in the cache directory, which nothing removes.

### Bounds

Sessions and pages:

* Two connections are enough for one handler to run between the steps of another,
  for two tabs of one person, for a connection that replaces another, and for a
  reader of two broadcasts in flight.  A third handler is `EndAll`, which needs no
  connection.  The proofs about `Session` are for any number.
* Two movies let a vote on one happen between two votes on another; one movie is
  enough where votes do not matter to the property.  The guests of `lobby` differ
  in being ready.  The threshold ranges over everything a host can ask for.
* `SendBuffer` is 1 instead of 16: a full buffer is reached, and each message can
  still be overtaken before it enters it.
* Constraints in `MCHub`: `NoGate` (the ready gate stays off) and
  `EveryVoterJoined` (the unjoined do not vote), as neither is told to a page;
  `PagesBound`, in `pages` and `stale_status`: no "no" votes, one tab for each
  person, nothing dropped, no reload; `LivenessBound`, in `reaches`: no "no" votes,
  and only a match ends the session.
* Symmetry: connections, guests and movies are interchangeable; `reaches` and the
  later modules' runs use none.
* `MaxConns`, `MaxActs` in `client`: with three sockets two can be replaced, the
  messages of both still under way; with four swipes and undos on two cards a
  swipe can be lost while the next one arrives, asked again and taken back.  A behaviour stops when both are
  used up, hence `CHECK_DEADLOCK FALSE`.

Settings and posters:

* `MaxSaves` is 2 in `reload` and counts the saves of one process: overlapping
  ones, and one after another.  `MaxBusy` is 2: two saves, or a save against
  a request or a session, or two requests of one set.  Crashes are not bounded.
  The first file is none, or one that names a library and has a TTL that does not
  parse; a save sets the one or the other.  The theorems are for any of these.
* `posters`: three tags are what it takes for two flights to prune a third's
  file.  One worker stands for the six: what tells workers from requests is only
  that they skip what is cached.  The theorem is for any number.
* `deployment`: `MaxSaves` 2 lets a save undo or build on another, with restarts
  anywhere; `MaxAsking` 1 asks after at most one save.  `World` has two libraries
  of one name that differ in case, one that holds no movies, a movie that two
  sources have and one without an external id, services that share a slug, and a
  movie without a poster.  An outage is all well, nothing answering, or one
  service refusing while another fails.  With `PageSize` 1, `PagesPerProvider` 2
  and `MaxSampledPages` 3 a query has none, one, as many or more pages than are
  sampled.  The edits are one at a time or what a form fills
  in at once, a credential together with another key among them; libraries are
  picked with and without a check of the connection before.  One environment
  has a secret of nothing but spaces.

### Fairness

`FairHubSpec` asks that a handler with something left to send goes on (goroutines
are scheduled, `trySend` never blocks, and no lock is held while sending), and that
an open connection delivers what is in its buffer (writePump's loop; if the
network is gone, the write or the pong deadline closes the connection, and the
property no longer speaks of it).  Nothing is asked of people: nobody has to
join, swipe, reconnect or start.  No fair action changes what `LivenessBound`
looks at, so the bound cuts no fair continuation.

`Reload` asks that a request which resolves names goes on.  `Lock` is strongly
fair: a `sync.Mutex` is handed to a waiter that has waited for a millisecond, so
others who come and go do not starve it.  A resolution ends, by an answer or by
`libraryResolveTimeout`, which is weak fairness on the two together: that the
media server answers is not assumed.  `Posters` likewise asks that a goroutine
goes on and that a fetch ends when its fifteen seconds are up (`FailFetch`); an
image that is never sent is among its behaviours.  Nothing is asked of who saves,
asks, joins or crashes.

## What is proved

`SessionProofs` proves, for any finite set of people and of movies and any set of
connections (`HostAssumption`, `NoneAssumption`, `FiniteAssumption`):

* `TypeCorrect`, and every invariant of the runs `votes` and `lobby`:
  `AgreementNeverMissed`, `ThresholdIsReachable`, `GateIsHeld`, `WinnerIsOfDeck`,
  `ConnectionsPaired`, `UndoSound`;
* the action properties `MatchIsEarned`, `OfflineOnlyByOwnLeave`, `DeckDealtOnce`,
  `OutcomeIsFinal`;
* `SessionImplementsShowdown`: Init maps to Init, every step to a step or a
  stutter.

The inductive invariant is `IInv == TypeOK /\ DealInv /\ ConnInv /\ VoteInv`.

* `DealInv` relates lock, status, deck, threshold and winner.  The threshold
  stays within the roster because the roster stops growing when the session is no
  longer in the lobby; since a session ended in its lobby is not locked, the
  argument goes by the lock.
* `ConnInv` adds, to the pairing of flags and connections, that a connection with
  an identity is open, holds that participant's token and is of the roster:
  without it a closing connection could detach someone else.
* `VoteInv` is agreement and undo together.  Agreement needs that no vote exists
  before the deal, since the threshold appears in the step that deals, and that a
  swipe moves one voter of one movie; `YesCountMonotone` and `YesCountInNat` are
  the lemmas on cardinalities it rests on.

`MatchIsEarned` follows from agreement before the step: there were fewer yeses than
required, and one more reaches exactly that number.

`ReloadProofs` proves, for any sets of saves, requests, sessions, settings and
identifiers and any bounds (`ChoicesAssumption`, `TTLsAssumption`,
`NoneAssumption`, `BoundsAssumption`, `FilesAssumption`, `FoundAssumption`,
`EditsAssumption`), every safety property of the run `reload`:
`ReloadTypeCorrect`, `NamesResolveOnce`, `WhatIsSavedRuns`,
`OnlyTheLateDealFromOldSources` and `FileAlwaysSurvives`.  The inductive
invariant is
`IInv == ReloadTypes /\ DiskInv /\ LockInv /\ SaveInv /\ DealInv`.

* `DiskInv`: a save carries the token of the file it is about to replace.  This
  holds although saves overlap, as none adds or removes a token; it is why a save
  cannot lose one.
* `LockInv`: a lock and the request that resolves know of each other; while a lock
  is held nothing is resolved; and whatever a request, or the process, has for the
  names of a set is what the set's lazy value holds.  A number is used for a new
  set only when nobody holds an old one by it (`Free`, `Collect`), so the
  last part survives a new set.
* `SaveInv`: without overlap one save at most is under way, and `Progress` says
  what it has replaced and what it has not at each of its steps; when no save is
  between the configuration and the set, both match.  The compare-and-swap keeps
  it because the resolved set has the sources of the set it replaces.
* `DealInv`: for each session, that one which goes on with a set that is no longer
  live is late, and so is one with the live set that a reload under way has
  already passed by (`PassedBy`).  The second is what makes the first survive
  `StoreSet`; it in turn needs that a fetch that outlives the session's end is
  late.

`PostersProofs` proves `OneTagIsKept`, for any posters, tags, requests and workers
(`PostersAssumption`, `NobodyAssumption`).  `CacheIsSound` is not inductive: two
files of a poster are there while their flights prune.  The strengthening is
`TagsContested`: of any two files of a poster, one has a flight that will remove
the other, having its name and not listed yet, or having listed it.  A file
that gets its name will remove all others; and a flight is over only with nothing
left to remove, so that with no flight at work there is one file.

`HubProofs` proves, for any room and any `SendBuffer` of at least one
(`BufferAssumption`, `ServerAssumption`), every safety property of the runs
`winner` and `pages`: `HubTypeCorrect`, `WinnersShownAreTrue`, `PagesLagAtMost`,
`WinnerIsHeard` and `DeckIsHeard`.  `HubRunsASession` says that `HubSpec` implies
`Spec`: each step of the hub is a step of the session or leaves it alone, so that
all of `SessionProofs` is at hand.  The inductive invariant is
`IInv /\ HubInv`, with `HubInv == HubShape /\ HubSends /\ HubTruth /\ HubReach`.

* `HubTruth`: every message in a buffer, or that a handler has still to send, is
  `Honest`: what it says has happened, and cannot be undone by anything that
  overtakes it.  This is the part that a message made before a match and sent
  after it does not break, although the page it reaches steps back.
* `HubReach`: whoever follows, that is, is attached and has lost no message,
  shows the winner, or has it on the way; likewise the deck.  A message is on the
  way in a buffer, in a list of receivers that was copied, or in a broadcast whose
  list is not copied yet.  A late joiner is the hard case: its reply is prepared in
  the step that attaches it, so that no match falls between the two.
* `HubSends`: only the send that a handler is at may be to others, which keeps a
  disconnect from taking away somebody else's message.

`WebClientProofs` proves `PassedCardsHaveVotes`, the property of the run `client`,
for any number of cards, sockets and acts, and whatever is dropped of what the page
is sent.  The inductive invariant is
`WebClientInv == PageInv /\ LobbyInv /\ SocketInv /\ AnswerInv /\ KeepInv`.

* A card is `Kept` if the server has a vote on it or will have one when it has
  read what it was sent: of the swipes and undos on their way up, the last on this
  card is a swipe.  `KeepInv` says that every card the page has passed is kept,
  once it has heard the whole answer to its join, or once that is all on its way.
  Of an answer that has lost a part it says nothing: neither `synced` nor a `final`
  message can follow.
* Undo does not break it because what the page would take back is the last thing
  that the server has heard, or will hear (`UndoesTheLast`).
* `AnswerInv` and `VotesBeforeDeck` are the order of the answer: the votes go
  before the deck, so that when the deck computes the card index the votes have
  been read.  That there is a highest card without a vote, which is what the index
  is, follows from the naturals being well-founded.

`FoldTheorems` is how a fold over a list of any length is reasoned about.  The
library's induction theorems take an operator, which no prover here can
instantiate; a module that is instantiated with one is another matter.  Its
`Step` and `Inv` are constants, and `FoldKeeps` says that an invariant of the step
is one of `FoldLeft`: the fold is one of the functions that iterate the step, and
there is no least index where the invariant fails.  It is instantiated for
`Only`, `Distinct`, the lists of the file, `Add`, `AddLocal`, the sorts of
libraries, services and genres, the index of libraries, the registration of a
service in the catalog, `AppendAvailability`, `MergeMovies` and `MergeGenre`.  It
extends few modules, as each instance brings all of them along.

`SourcesProofs` has what follows for the operators, for any values at all.
`ResolutionSettles`: each key resolves to a value of its type and normal form.
`NotEditedKeepsItsValue`: through draft, form, merge and the new resolution, a key
that was not edited keeps its value, as what is in normal form is not changed
when it is normalised again.  Lemmas say what set a configuration is built into
(`BuildSourceSetIs`), what resolving its names makes of it (`ResolvePendingIs`) and
what a merge makes of copies (`MergeIs`: one card for each identifier, with the
badges of all of its copies).

The sorts are folds of `Insert`, which puts an element before the first that is
greater: the prover cannot expand `SortSeq`, whose result is chosen.  An insertion
keeps a sorted list sorted, and two lists that are sorted by a total order, have
the same elements and repeat none are equal (`OneOrder`: at the least index where
they differ, each holds an element the other has only later).  From it
`CurrentIgnoresOrder` (libraries offered in either order resolve alike) and
`CatalogIgnoresOrder` (so do services); `PickResolves` says what the catalog's
three indexes answer to an identifier that it offers, and `GenresMerge` what is
left of genres listed by several sources.

`DeploymentProofs` proves, for any world, files, environments, edits, filters,
outages and numbers of saves, all thirteen invariants and action properties of the
run `deployment`.  The assumptions say what the program can be given: texts are
texts, and a placeholder is none of them (`TextsAssumption`, `AbsentAssumption`); the
table of services is a table, with each slug and each number once
(`KnownAssumption`), and the ranks of names and services are numbers, one each
(`RankAssumption`); the name TMDB gives to a genre's number has that number
(`GenresAssumption`); files, environments and edits have values of their keys'
types (`FilesAssumption`, `EnvsAssumption`, `EditsAssumption`); a server lists
libraries by real identifiers, a film has a year, a score and finitely many genres, none called by a
number of TMDB's, and TMDB lists a service once, knows its films by number and is
well outside the outages (`WorldAssumption`); an entry of the first file with
both a name and an identifier was written by the screen, so that the identifier is a
server's, or the name itself (`PairsAssumption`); bounds are whole numbers,
ratings a list, and at least one page is sampled (`FiltersAssumption`,
`CertificationsAssumption`, `PagesAssumption`, `MaxSavesAssumption`).

* `DeploymentInvariant`: `DeploymentInv == SettingsInv /\ GoodSet(AllRefs, live, set)`.
  `SettingsInv` is that the live values are those a restart would find.
  `GoodSet` is that each source of the set is one that the live configuration
  calls for, by its client's values, no two with one identifier, and that
  what is pending is named in it.  The set keeps the configuration that it was
  built from, for resolving; `SourcesDiffer` must tell it from the live one by
  every value that a source is made of, and that is where the proof uses each
  of its conjuncts.  `EverythingIsCurrent` and `DeploymentTypeCorrect` follow.
* `UntouchedSavesAreNeutral` and `SavesChangeOnlyEdits` are
  `NotEditedKeepsItsValue` under the invariant, and for the switches that a save
  writes what `ShowsOn` says of each.
* `ResolutionIsLossless`: a name that is no longer pending was found in the index,
  and the index has only listed libraries under their own folded names.
* `NamesBecomeIDsOnlyByPicking`: `GoodSet` is stated for any set of libraries, and
  is proved again for those with real identifiers or their own names in the live
  list, `NamesInv`.  It needs that the live lists pair a name only with a real
  identifier or with itself (`PairsInv`), which a save keeps because the picker has
  no other pairs to offer.
* `NothingElseIsDealt`, `OneCardPerFilm` and `EverySourceAnswersOrIsReported` go by
  `PreviewInv`: the last answer, if it is a preview, is one of the set there is,
  given what its sources remember.  What is remembered is what some outage makes of
  any source over all of Plex, as all of them ask alike (`DiscoveredInv`).
  The first needs of TMDB that nothing is asked at all when a filter means nothing
  to it; the last that when a service has no more pages than are sampled, the one
  sample is all of them and the cut to depth takes nothing away.
* `VerdictsHold` compares each check with the query that a source built from its
  values makes, outage by outage.
* `ResolutionIgnoresListing` needs no invariant: it is of every list of the world,
  and is `CurrentIgnoresOrder`.
* `GenresAreNamedOnce`: genres are the same if they have one key, the number for a
  name TMDB knows and the name for any other.  A shelf names no key twice, each
  step of the merge adds a genre only if its key is new, and all that a source
  lists is in what is offered (`OneKeyPerGenre`, `ShelfIs`, `VocabularyIs`).
* `PickerAndResolutionAgree` goes by `PickerInv`: the list that is cached, if there
  is one, is what TMDB lists, and the options of the last answer are the catalog's
  of that list or none.  It is inductive because a failed fetch caches nothing and
  a token's verification leaves the cache alone.

Only model-checked:

* Liveness (`WinnerReaches`, `EveryRequestAnswered`, `EveryImageAnswered`), which is
  beyond the prover.
* The properties of the runs that must fail, which do not hold.

## What is not modelled

* *Sessions*: the leaderboard's order, wording, names and pictures; error, warning
  and progress messages; how codes and tokens are made; the token that a page
  loses with a dropped session_state, and the participant it then joins as anew.
* *Clients of Jellyfin, Plex and TMDB*: HTTP, TLS and decoding (a reply is a
  status and what it stands for); requests that overlap in the search for Plex's
  section, which is one `lazyValue` more; the shuffle, and the cut to a
  source's depth for a library larger than it.
* *Settings*: the token's secrecy, the port, the texts of refusals; all forms but
  what they send.  Power loss that undoes the latest rename is, for the next
  process, a crash before it.
* *Posters*: bytes, content types, cache headers; the cap on an image's size.
* *Web client*: drawing, dragging, the progress line, remembered filters, routing.
* *HTTP server, health and static files*, which keep no state, and the scripts and
  build files.

## Plan

Done: `Session`, `Showdown`, `Hub`, `Reload`, `Posters`, `WebClient`, and `Config`
to `Deployment`; theorems about each of them.

To come: the lost token, that is, identity in `WebClient`, and the room of `Session`
with a participant who cannot come back as themselves.
