------------------------------- MODULE Config -------------------------------
(***************************************************************************)
(* The deployment's settings, as operators: what a configuration file and  *)
(* the environment resolve to, what a save does to the file, what it is    *)
(* refused for, and how two configurations are told apart.                 *)
(*                                                                         *)
(* A file, an environment and a resolved configuration are functions on    *)
(* Keys, the dotted names the code reports provenance under.  In a file,   *)
(* Absent is a nil pointer.  A text is a word with or without space around *)
(* it, in lower or in upper case; the spaces alone are Blank with space    *)
(* around it.  An environment variable that holds a list is the sequence   *)
(* of what stands between its commas.                                      *)
(***************************************************************************)
EXTENDS Naturals, Sequences, FiniteSets, SequencesExt

CONSTANTS
  Absent,       \* a nil pointer: a key the file, or a request, does not have
  Placeholder,  \* the screen's marker for a stored credential it never saw
  Words,        \* what texts consist of
  Blank,        \* the word of the empty text
  URLs          \* words that parse as an http or https URL

Texts == [word : Words, spaced : BOOLEAN, upper : BOOLEAN]

Plain(w) == [word |-> w, spaced |-> FALSE, upper |-> FALSE]
Empty == Plain(Blank)
TrimSpace(t) == [t EXCEPT !.spaced = FALSE]
ToLower(t) == [t EXCEPT !.upper = FALSE]
ToUpper(t) == [t EXCEPT !.upper = t.word # Blank]
IsBlank(t) == TrimSpace(t) = Empty

\* The elements of a sequence that are in S, in their order: SelectSeq as a fold.
Only(seq, S) ==
  FoldLeft(LAMBDA out, x : IF x \in S THEN Append(out, x) ELSE out, <<>>, seq)

\* What the code's sorts do, by insertion: x goes behind all that it is not less
\* than.
Insert(sorted, x, Less(_, _)) ==
  InsertAt(sorted, 1 + Cardinality({i \in DOMAIN sorted : ~Less(x, sorted[i])}), x)

SortBy(list, Less(_, _)) == FoldLeft(LAMBDA sorted, x : Insert(sorted, x, Less), <<>>, list)

Toggles == {"jellyfin.enabled", "plex.enabled", "streaming.enabled"}
Secrets == {"jellyfin.apiKey", "plex.token", "streaming.tmdbReadToken"}
LibraryLists == {"jellyfin.libraries", "plex.libraries"}
Lists == LibraryLists \cup {"streaming.providers"}
Scalars == Secrets \cup
  {"publicUrl", "sessionTtl", "jellyfin.url", "jellyfin.userId", "plex.url",
   "plex.librarySection", "streaming.watchRegion"}
Keys == Toggles \cup Scalars \cup Lists

\* A library, and an entry of the file for one.
Refs == [id : Texts, name : Texts]
FileRefs == [id : Texts \cup {Absent}, name : Texts \cup {Absent}]

ValuesOf(k) ==
  CASE k \in Toggles -> BOOLEAN
    [] k \in Scalars -> Texts
    [] k \in LibraryLists -> Seq(Refs)
    [] k = "streaming.providers" -> Seq(Texts)

\* What decodes as a file, and what may be in an environment.
IsFile(file) ==
  /\ file.streaming \in BOOLEAN
  /\ \A k \in Keys : file.keys[k] # Absent =>
       file.keys[k] \in IF k \in LibraryLists THEN Seq(FileRefs) ELSE ValuesOf(k)

IsEnv(env) ==
  \A k \in Keys \ Toggles : env[k] \in IF k \in Lists THEN Seq(Texts) ELSE Texts

ASSUME TextsAssumption ==
  LET defaults == {"localhost", "4h", "us", "netflix", "prime", "disney"}
  IN defaults \subseteq Words /\ Blank \in Words \ defaults
ASSUME AbsentAssumption ==
  Placeholder \notin Texts /\ \A k \in Keys : Absent \notin ValuesOf(k)

----------------------------------------------------------------------------
(***************************************************************************)
(* Resolution: per key, the file, else the environment, else a default.    *)
(***************************************************************************)

\* envValue: a variable that is present and empty supplies nothing.
Supplies(env, k) == IF k \in Lists THEN env[k] # <<>> ELSE env[k] # Empty

\* The texts, trimmed, without the blank ones and without repetition.
Distinct(texts) ==
  FoldLeft(LAMBDA out, t : IF IsBlank(t) \/ Contains(out, TrimSpace(t)) THEN out
                           ELSE Append(out, TrimSpace(t)), <<>>, texts)

NormalizeProviders(texts) ==
  Distinct([i \in DOMAIN texts |-> ToLower(texts[i])])

DefaultProviders == <<Plain("netflix"), Plain("prime"), Plain("disney")>>

ParseStreamingProviders(raw) ==
  IF Len(raw) = 1 /\ IsBlank(raw[1]) THEN DefaultProviders
  ELSE NormalizeProviders(raw)

\* A library is known by its id, by its id and name, or, from the environment
\* only, by a name in the place of the id.
Library(id, name) == [id |-> id, name |-> name]

ParseLibraryList(raw) ==
  LET ids == Distinct(raw) IN [i \in DOMAIN ids |-> Library(ids[i], Empty)]

\* An entry of the file without an id is dropped, and the first of one id kept.
FileLibraries(entries) ==
  FoldLeft(LAMBDA out, l :
             IF l.id = Absent \/ IsBlank(l.id) THEN out
             ELSE IF \E i \in DOMAIN out : out[i].id = TrimSpace(l.id) THEN out
             ELSE Append(out, Library(TrimSpace(l.id),
                                      IF l.name = Absent THEN Empty ELSE TrimSpace(l.name))),
           <<>>, entries)

DefaultOf(k) ==
  CASE k = "publicUrl" -> Plain("localhost")
    [] k = "sessionTtl" -> Plain("4h")
    [] k = "streaming.watchRegion" -> ToUpper(Plain("us"))
    [] k = "streaming.providers" -> DefaultProviders
    [] k \in LibraryLists -> <<>>
    [] OTHER -> Empty

\* The variable that supplies a key.  PLEX_LIBRARY_SECTION stands in for the
\* plural that replaced it.
EnvList(env, k) ==
  IF k = "plex.libraries" /\ ~Supplies(env, k) /\ Supplies(env, "plex.librarySection")
    THEN <<env["plex.librarySection"]>>
    ELSE env[k]

\* A file with a streaming section chooses its providers, if only by silence.
FileSets(file, k) ==
  \/ file.keys[k] # Absent
  \/ k = "streaming.providers" /\ file.streaming

EnvSets(env, k) ==
  IF k \in Lists THEN EnvList(env, k) # <<>> ELSE k \notin Toggles /\ Supplies(env, k)

\* Where each value came from, and whether a variable with a value was ignored.
ProvenanceOf(file, env, k) ==
  [source |-> IF FileSets(file, k) THEN "config file"
              ELSE IF EnvSets(env, k) THEN "environment" ELSE "default",
   ignored |-> FileSets(file, k) /\ EnvSets(env, k)]

FromFile(file, k) ==
  IF file.keys[k] = Absent THEN <<>>
  ELSE CASE k = "streaming.providers" -> NormalizeProviders(file.keys[k])
         [] k \in LibraryLists -> FileLibraries(file.keys[k])
         [] OTHER -> file.keys[k]

FromEnv(env, k) ==
  CASE k = "streaming.providers" -> ParseStreamingProviders(EnvList(env, k))
    [] k \in LibraryLists -> ParseLibraryList(EnvList(env, k))
    [] OTHER -> env[k]

ValueOf(file, env, k) ==
  LET v == IF FileSets(file, k) THEN FromFile(file, k)
           ELSE IF EnvSets(env, k) THEN FromEnv(env, k) ELSE DefaultOf(k)
  IN IF k = "streaming.watchRegion" THEN ToUpper(TrimSpace(v)) ELSE v

\* A toggle is held as whether the source is switched off, which only a file
\* can do.
Resolve(file, env) ==
  [disabled |-> {k \in Toggles : file.keys[k] = FALSE},
   val |-> [k \in Keys \ Toggles |-> ValueOf(file, env, k)],
   prov |-> [k \in Keys |-> ProvenanceOf(file, env, k)]]

JellyfinConfigured(cfg) ==
  /\ "jellyfin.enabled" \notin cfg.disabled
  /\ cfg.val["jellyfin.url"] # Empty /\ cfg.val["jellyfin.apiKey"] # Empty

PlexConfigured(cfg) ==
  /\ "plex.enabled" \notin cfg.disabled
  /\ cfg.val["plex.url"] # Empty /\ cfg.val["plex.token"] # Empty

StreamingConfigured(cfg) ==
  /\ "streaming.enabled" \notin cfg.disabled
  /\ cfg.val["streaming.tmdbReadToken"] # Empty
  /\ cfg.val["streaming.providers"] # <<>>

----------------------------------------------------------------------------
(***************************************************************************)
(* A save.  The screen is drawn from the live configuration, sends all of  *)
(* it back, and keeps silent about a credential that was not touched.      *)
(***************************************************************************)

NoFile == [keys |-> [k \in Keys |-> Absent], streaming |-> FALSE]

\* sourceEnabled: the toggle shows on if there is something to switch on.
HasValues(cfg, k) ==
  CASE k = "jellyfin.enabled" ->
         cfg.val["jellyfin.url"] # Empty \/ cfg.val["jellyfin.apiKey"] # Empty
    [] k = "plex.enabled" -> cfg.val["plex.url"] # Empty \/ cfg.val["plex.token"] # Empty
    [] k = "streaming.enabled" -> cfg.val["streaming.tmdbReadToken"] # Empty

ShowsOn(cfg, k) == k \notin cfg.disabled /\ HasValues(cfg, k)

\* settingsView and draftFrom: what the screen holds before it is edited.
Draft(cfg) ==
  [k \in Keys |->
     CASE k \in Toggles -> ShowsOn(cfg, k)
       [] k \in Secrets -> IF cfg.val[k] # Empty THEN Placeholder ELSE Empty
       [] OTHER -> cfg.val[k]]

\* What the library picker offers: what the server was found to list, and what is
\* chosen already, under its id if it has no name.
PickerOptions(found, chosen) ==
  LET Named(l) == IF l.name = Empty THEN Library(l.id, l.id) ELSE l
  IN Range(found) \cup {Named(l) : l \in {c \in Range(chosen) :
                                          \A o \in Range(found) : o.id # c.id}}

\* The picker edits identifiers, and the draft gets the options they belong to.
Picked(ids, options) ==
  LET known == Only(ids, {l.id : l \in options})
  IN [i \in DOMAIN known |-> CHOOSE l \in options : l.id = known[i]]

\* What the screen holds when some of it was edited.
Edited(draft, edit, found) ==
  [k \in Keys |->
     IF k \notin DOMAIN edit THEN draft[k]
     ELSE IF k \in LibraryLists THEN Picked(edit[k], PickerOptions(found[k], draft[k]))
     ELSE edit[k]]

\* Mutant: a credential that was not touched is sent as if it were emptied.
BuildUpdate_SecretLost(draft, cfg) ==
  [keys |-> [k \in Keys |-> IF k \in Secrets /\ draft[k] \in {Placeholder, Empty}
                             THEN Absent ELSE draft[k]],
   clear |-> {k \in Secrets : cfg.val[k] # Empty /\ draft[k] \in {Empty, Placeholder}}]

\* buildUpdate and secretUpdate.
BuildUpdate(draft, cfg) ==
  [keys |-> [k \in Keys |-> IF k \in Secrets /\ draft[k] \in {Placeholder, Empty}
                             THEN Absent ELSE draft[k]],
   clear |-> {k \in Secrets : draft[k] = Empty /\ cfg.val[k] # Empty}]

\* setLibraries: an entry without an id is dropped.
StoredList(k, list) ==
  IF k = "streaming.providers" THEN NormalizeProviders(list)
  ELSE LET trimmed == [i \in DOMAIN list |->
                         Library(TrimSpace(list[i].id), TrimSpace(list[i].name))]
       IN Only(trimmed, {l \in Range(trimmed) : l.id # Empty})

\* Mutant: what a request leaves out is taken from the defaults.
ApplySettings_Forgets(file, req) ==
  [keys |-> [k \in Keys |->
               IF k \in req.clear \/ req.keys[k] = Absent THEN Absent
               ELSE IF k \in Lists THEN StoredList(k, req.keys[k]) ELSE req.keys[k]],
   streaming |-> TRUE]

\* The request has all three sections, so the file gets all three.
ApplySettings(file, req) ==
  [keys |-> [k \in Keys |->
               IF k \in req.clear THEN Absent
               ELSE IF req.keys[k] = Absent THEN file.keys[k]
               ELSE IF k \in Lists THEN StoredList(k, req.keys[k]) ELSE req.keys[k]],
   streaming |-> TRUE]

BadURL(t) == ~IsBlank(t) /\ (t.spaced \/ t.word \notin URLs)

\* A source that is on, and of which anything is set, needs both its values.
NeedsBoth(cfg, toggle, a, b) ==
  IF toggle \notin cfg.disabled /\ (cfg.val[a] # Empty \/ cfg.val[b] # Empty)
    THEN {k \in {a, b} : IsBlank(cfg.val[k])} ELSE {}

\* The keys a resolved configuration is refused for.
ValidateSettings(cfg) ==
  {k \in {"publicUrl", "jellyfin.url", "plex.url"} : BadURL(cfg.val[k])}
  \cup NeedsBoth(cfg, "jellyfin.enabled", "jellyfin.url", "jellyfin.apiKey")
  \cup NeedsBoth(cfg, "plex.enabled", "plex.url", "plex.token")
  \cup (IF /\ "streaming.enabled" \notin cfg.disabled
           /\ cfg.prov["streaming.providers"].source = "config file"
           /\ cfg.val["streaming.providers"] # <<>>
           /\ IsBlank(cfg.val["streaming.tmdbReadToken"])
          THEN {"streaming.tmdbReadToken"} ELSE {})

----------------------------------------------------------------------------
(***************************************************************************)
(* The tiers of a change.                                                  *)
(***************************************************************************)

HarmlessKeys == {"publicUrl", "sessionTtl"}

\* Mutant: the library lists are left out of the comparison.
SourcesDiffer_NoLibraries(a, b) ==
  \E k \in (Keys \ Toggles) \ (HarmlessKeys \cup LibraryLists) : a.val[k] # b.val[k]

\* The toggles are not compared.
SourcesDiffer(a, b) ==
  \E k \in (Keys \ Toggles) \ HarmlessKeys : a.val[k] # b.val[k]

HarmlessDiffer(a, b) == \E k \in HarmlessKeys : a.val[k] # b.val[k]

\* The port comes from the environment, which a running process keeps.
Outcome(current, next) ==
  IF SourcesDiffer(current, next) THEN "rebuilt"
  ELSE IF HarmlessDiffer(current, next) THEN "applied" ELSE "no_change"

=============================================================================
