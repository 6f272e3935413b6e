------------------------------- MODULE Reload -------------------------------
(***************************************************************************)
(* Saves while the server runs: the configuration file, the process that   *)
(* starts from it and dies, and the three things a save replaces one after *)
(* the other in a running process: the configuration, the sweeper's TTL    *)
(* and the source set.  Saves may overlap; requests resolve libraries that *)
(* are configured by name, and hosts create and start sessions meanwhile.  *)
(*                                                                         *)
(* What the settings mean is module Deployment.  Here they are two: one    *)
(* that the sources are built from and one that is pushed to its owner.    *)
(***************************************************************************)
EXTENDS Naturals, FiniteSets

CONSTANTS
  Savers,       \* requests of the settings screen
  Askers,       \* requests that use the source set
  Sessions,     \* sessions the store may hold at a time
  Choices,      \* what the sources may be configured as
  Named,        \* those of them that name libraries instead of identifying them
  IDs,          \* identifiers a media server may answer for a name
  TTLs, Junk,   \* session TTLs, and one that does not parse
  DefaultChoice, DefaultTTL,
  NoFile, Torn, \* no configuration file, and one that cannot be parsed
  None,         \* no identifier, no holder of a lock, nothing to set
  Found,        \* bound: the configuration files of the first start
  Edits,        \* bound: what a save may set
  MaxSaves,     \* bound: saves of a process
  MaxBusy       \* bound: requests and sessions in progress at a time

ASSUME ChoicesAssumption == Named \subseteq Choices /\ DefaultChoice \in Choices
ASSUME TTLsAssumption == Junk \in TTLs /\ DefaultTTL \in TTLs \ {Junk}
ASSUME NoneAssumption == None \notin IDs \cup Askers \cup Choices \cup TTLs
ASSUME BoundsAssumption == MaxSaves \in Nat /\ MaxBusy \in Nat

VARIABLES
  file,        \* the configuration file
  unsynced,    \* the file's name is durable and its contents are not
  proc,        \* the process: "down", "starting", "reading", "blind" or "up"
  cfg,         \* Server.cfg
  ttl,         \* Store.ttl
  set,         \* Server.sources
  lazy,        \* sourceSet.resolve of each set that was built
  saver, asker, sess,
  saves,       \* saves this process was asked for
  overlapped   \* two saves of this process overlapped

diskVars == <<file, unsynced>>
liveVars == <<cfg, ttl>>
setVars == <<set, lazy>>
vars == <<diskVars, proc, liveVars, setVars, saver, asker, sess, saves, overlapped>>

Settings == [sources : Choices, ttl : TTLs]
Defaults == [sources |-> DefaultChoice, ttl |-> DefaultTTL]

\* A file has a setup token or not.  Which one, no step after the start asks.
Files == {NoFile, Torn} \cup [settings : Settings, token : BOOLEAN]

ASSUME FilesAssumption ==
  NoFile # Torn /\ {NoFile, Torn} \cap [settings : Settings, token : BOOLEAN] = {}
ASSUME FoundAssumption == Found \subseteq Files \ {Torn}
ASSUME EditsAssumption ==
  Edits \subseteq [sources : Choices \cup {None}, ttl : TTLs \cup {None}]

\* The first set of a process is 1.  A number is free once nothing has its set.
Gens == 1..MaxBusy + 1
SourceSets == [gen : Gens, sources : Choices, id : IDs \cup {None}]
NewSet(gen, sources) == [gen |-> gen, sources |-> sources, id |-> None]
Fresh == [holder |-> None, id |-> None, failed |-> FALSE]

IdleSaver == [pc |-> "idle", next |-> Defaults, token |-> FALSE,
              set |-> NewSet(1, DefaultChoice), todo |-> {}]
IdleAsker == [pc |-> "idle", set |-> NewSet(1, DefaultChoice)]
NoSession == [stored |-> FALSE, status |-> "none", conn |-> "off", from |-> "none",
              locked |-> FALSE, late |-> FALSE]

SettingsOf(f) == IF f = NoFile THEN Defaults ELSE f.settings
HasToken(f) == f # NoFile /\ f.token

SaverIs(p, pc) == saver[p].pc = pc
AskerIs(a, pc) == asker[a].pc = pc

\* There is room for one more request or session.
Room ==
  Cardinality({p \in Savers : ~SaverIs(p, "idle")})
    + Cardinality({a \in Askers : ~AskerIs(a, "idle")})
    + Cardinality({s \in Sessions : sess[s].stored \/ sess[s].conn # "off"}) < MaxBusy

Pending(s) == s.sources \in Named /\ s.id = None

Init ==
  /\ file \in Found
  /\ unsynced = FALSE
  /\ proc = "down"
  /\ cfg = Defaults /\ ttl = DefaultTTL
  /\ set = NewSet(1, DefaultChoice)
  /\ lazy = [g \in Gens |-> Fresh]
  /\ saver = [p \in Savers |-> IdleSaver]
  /\ asker = [a \in Askers |-> IdleAsker]
  /\ sess = [s \in Sessions |-> NoSession]
  /\ saves = 0 /\ overlapped = FALSE

----------------------------------------------------------------------------
(***************************************************************************)
(* Starting and dying.                                                     *)
(***************************************************************************)

\* LoadConfig and New.  A file that cannot be parsed, or read, is fatal.
Start ==
  /\ proc = "down" /\ file # Torn
  /\ proc' = "starting"
  /\ cfg' = SettingsOf(file)
  /\ ttl' = IF cfg'.ttl = Junk THEN DefaultTTL ELSE cfg'.ttl
  /\ set' = NewSet(1, cfg'.sources)
  /\ UNCHANGED <<diskVars, lazy, saver, asker, sess, saves, overlapped>>

\* ensureSetupToken reads the file once more.
ReadToken ==
  /\ proc = "starting"
  /\ \/ proc' = IF HasToken(file) THEN "up" ELSE "reading"
     \/ proc' = "blind"
  /\ UNCHANGED <<diskVars, liveVars, setVars, saver, asker, sess, saves, overlapped>>

\* It keeps what the file holds, unless it could not read it, and writes a
\* token of its own.  A write that fails costs only the token's next life.
WriteToken ==
  /\ proc \in {"reading", "blind"}
  /\ proc' = "up"
  /\ \/ /\ file' = [settings |-> IF proc = "blind" THEN Defaults ELSE SettingsOf(file),
                    token |-> TRUE]
        /\ unsynced' = FALSE
     \/ UNCHANGED diskVars
  /\ UNCHANGED <<liveVars, setVars, saver, asker, sess, saves, overlapped>>

\* Everything but the disk is gone.
Die ==
  /\ proc # "down"
  /\ proc' = "down"
  /\ cfg' = Defaults /\ ttl' = DefaultTTL
  /\ set' = NewSet(1, DefaultChoice)
  /\ lazy' = [g \in Gens |-> Fresh]
  /\ saver' = [p \in Savers |-> IdleSaver]
  /\ asker' = [a \in Askers |-> IdleAsker]
  /\ sess' = [s \in Sessions |-> NoSession]
  /\ saves' = 0 /\ overlapped' = FALSE

Crash == Die /\ UNCHANGED diskVars

\* A power loss may leave a file its name without its contents.  That it may
\* undo the last rename as well comes to the same as a crash before it.
PowerLoss ==
  /\ Die
  /\ file' = IF unsynced THEN Torn ELSE file
  /\ unsynced' = FALSE

----------------------------------------------------------------------------
(***************************************************************************)
(* handleSetSettings.                                                      *)
(***************************************************************************)

Goes(p, pc) == saver' = [saver EXCEPT ![p].pc = pc]

\* What a request does not set stays as it is.
Merge(old, edit) ==
  [sources |-> IF edit.sources = None THEN old.sources ELSE edit.sources,
   ttl |-> IF edit.ttl = None THEN old.ttl ELSE edit.ttl]

\* The file is read and the request merged onto it, in memory.  An unreadable
\* file, or a result that is refused, is an answer.
LoadFile(p, edit) ==
  /\ proc = "up" /\ SaverIs(p, "idle") /\ saves < MaxSaves /\ Room /\ file # Torn
  /\ saves' = saves + 1
  /\ overlapped' = (overlapped \/ \E q \in Savers : ~SaverIs(q, "idle"))
  /\ saver' = [saver EXCEPT ![p] =
       [IdleSaver EXCEPT !.pc = "loaded",
                         !.next = Merge(SettingsOf(file), edit),
                         !.token = HasToken(file)]]
  /\ UNCHANGED <<diskVars, proc, liveVars, setVars, asker, sess>>

\* writeConfigFile: a temporary file is written and synced, and then renamed.
WriteTemp(p) ==
  /\ SaverIs(p, "loaded") /\ Goes(p, "synced")
  /\ UNCHANGED <<diskVars, proc, liveVars, setVars, asker, sess, saves, overlapped>>

\* Either may fail: the temporary file is removed and the save refused.
FailWrite(p) ==
  /\ saver[p].pc \in {"loaded", "synced"}
  /\ saver' = [saver EXCEPT ![p] = IdleSaver]
  /\ UNCHANGED <<diskVars, proc, liveVars, setVars, asker, sess, saves, overlapped>>

\* Mutant: the temporary file was not synced.
Rename_Unsynced(p) ==
  /\ SaverIs(p, "synced") /\ Goes(p, "renamed")
  /\ file' = [settings |-> saver[p].next, token |-> saver[p].token]
  /\ unsynced' = TRUE
  /\ UNCHANGED <<proc, liveVars, setVars, asker, sess, saves, overlapped>>

Rename(p) ==
  /\ SaverIs(p, "synced") /\ Goes(p, "renamed")
  /\ file' = [settings |-> saver[p].next, token |-> saver[p].token]
  /\ unsynced' = FALSE
  /\ UNCHANGED <<proc, liveVars, setVars, asker, sess, saves, overlapped>>

Building == {"built", "ending", "ttl, then store", "store"}

Held(theSet, savers, askers) ==
  {theSet.gen} \cup {savers[p].set.gen : p \in {p \in Savers : savers[p].pc \in Building}}
               \cup {askers[a].set.gen : a \in {a \in Askers : askers[a].pc # "idle"}}

\* The least number that is free.
Free ==
  LET held == Held(set, saver, asker)
  IN {g \in Gens \ held : \A h \in Gens : h < g => h \in held}

\* applyConfig compares with the configuration that is live, and builds the new
\* set before it ends anything.
Compare(p) ==
  LET next == saver[p].next IN
  /\ SaverIs(p, "renamed")
  /\ \/ /\ next.sources # cfg.sources
        /\ \E g \in Free :
             /\ saver' = [saver EXCEPT ![p].pc = "built", ![p].set = NewSet(g, next.sources)]
             /\ lazy' = [lazy EXCEPT ![g] = Fresh]
     \/ /\ next.sources = cfg.sources
        /\ saver' = [saver EXCEPT ![p] = IF next.ttl # cfg.ttl
                                           THEN [@ EXCEPT !.pc = "config"] ELSE IdleSaver]
        /\ UNCHANGED lazy
  /\ UNCHANGED <<diskVars, proc, liveVars, set, asker, sess, saves, overlapped>>

\* EndAll copies the list of sessions, then ends each under its own lock.
EndAll(p) ==
  /\ SaverIs(p, "built")
  /\ saver' = [saver EXCEPT ![p].pc = "ending", ![p].todo = {s \in Sessions : sess[s].stored}]
  /\ UNCHANGED <<diskVars, proc, liveVars, setVars, asker, sess, saves, overlapped>>

\* Mutant: a session that has not begun is left as it is.
EndOne_Begun(p, s) ==
  /\ SaverIs(p, "ending") /\ s \in saver[p].todo
  /\ saver' = [saver EXCEPT ![p].todo = @ \ {s}]
  /\ sess' = IF sess[s].status = "active"
               THEN [sess EXCEPT ![s].status = "over"] ELSE sess
  /\ UNCHANGED <<diskVars, proc, liveVars, setVars, asker, saves, overlapped>>

\* A session whose host is waiting for the deck may come back to life.
EndOne(p, s) ==
  /\ SaverIs(p, "ending") /\ s \in saver[p].todo
  /\ saver' = [saver EXCEPT ![p].todo = @ \ {s}]
  /\ sess' = IF sess[s].status \in {"lobby", "active"}
               THEN [sess EXCEPT ![s].status = "over",
                                 ![s].late = @ \/ sess[s].conn = "fetching"]
               ELSE sess
  /\ UNCHANGED <<diskVars, proc, liveVars, setVars, asker, saves, overlapped>>

\* setConfig: the configuration, then what it owns elsewhere.
SetConfig(p) ==
  /\ \/ SaverIs(p, "config")
     \/ SaverIs(p, "ending") /\ saver[p].todo = {}
  /\ cfg' = saver[p].next
  /\ Goes(p, IF SaverIs(p, "config") THEN "ttl" ELSE "ttl, then store")
  /\ UNCHANGED <<diskVars, proc, ttl, setVars, asker, sess, saves, overlapped>>

SetTTL(p) ==
  /\ saver[p].pc \in {"ttl", "ttl, then store"}
  /\ ttl' = IF saver[p].next.ttl = Junk THEN ttl ELSE saver[p].next.ttl
  /\ saver' = [saver EXCEPT ![p] = IF @.pc = "ttl" THEN IdleSaver ELSE [@ EXCEPT !.pc = "store"]]
  /\ UNCHANGED <<diskVars, proc, cfg, setVars, asker, sess, saves, overlapped>>

\* What was resolved for a set goes with the last that holds the set.
Collect ==
  lazy' = [g \in Gens |-> IF g \in Held(set', saver', asker') THEN lazy[g] ELSE Fresh]

StoreSet(p) ==
  /\ SaverIs(p, "store")
  /\ saver' = [saver EXCEPT ![p] = IdleSaver]
  /\ set' = saver[p].set
  /\ asker' = asker /\ Collect
  /\ sess' = [s \in Sessions |-> IF sess[s].from = "live" THEN [sess[s] EXCEPT !.from = "old"]
                                                         ELSE sess[s]]
  /\ UNCHANGED <<diskVars, proc, liveVars, saves, overlapped>>

----------------------------------------------------------------------------
(***************************************************************************)
(* currentSources, with lazyValue.get.                                     *)
(***************************************************************************)

Lazy(a) == lazy[asker[a].set.gen]

\* A set with nothing to resolve is returned as it is.
LoadSet(a) ==
  /\ proc = "up" /\ AskerIs(a, "idle") /\ Room /\ Pending(set)
  /\ asker' = [asker EXCEPT ![a] = [pc |-> "waiting", set |-> set]]
  /\ UNCHANGED <<diskVars, proc, liveVars, setVars, saver, sess, saves, overlapped>>

\* Mutant: a value that is there is computed once more.
Lock_Again(a) ==
  /\ AskerIs(a, "waiting") /\ Lazy(a).holder = None
  /\ IF Lazy(a).failed
       THEN asker' = [asker EXCEPT ![a] = IdleAsker] /\ UNCHANGED lazy
       ELSE /\ asker' = [asker EXCEPT ![a].pc = "resolving"]
            /\ lazy' = [lazy EXCEPT ![asker[a].set.gen].holder = a]
  /\ UNCHANGED <<diskVars, proc, liveVars, set, saver, sess, saves, overlapped>>

\* Under the lock: a value that is there is the answer, a failure that is
\* recent is the answer, and otherwise the lock is kept to compute it.
Lock(a) ==
  /\ AskerIs(a, "waiting") /\ Lazy(a).holder = None
  /\ \/ /\ Lazy(a).id # None
        /\ asker' = [asker EXCEPT ![a].pc = "resolved", ![a].set.id = Lazy(a).id]
        /\ UNCHANGED lazy
     \/ /\ Lazy(a).id = None /\ Lazy(a).failed
        /\ asker' = [asker EXCEPT ![a] = IdleAsker]
        /\ UNCHANGED lazy
     \/ /\ Lazy(a).id = None /\ ~Lazy(a).failed
        /\ asker' = [asker EXCEPT ![a].pc = "resolving"]
        /\ lazy' = [lazy EXCEPT ![asker[a].set.gen].holder = a]
  /\ UNCHANGED <<diskVars, proc, liveVars, set, saver, sess, saves, overlapped>>

\* The media server answers with the identifier that it has for the name now.
Resolve(a, id) ==
  /\ AskerIs(a, "resolving")
  /\ asker' = [asker EXCEPT ![a].pc = "resolved", ![a].set.id = id]
  /\ lazy' = [lazy EXCEPT ![asker[a].set.gen] = [holder |-> None, id |-> id, failed |-> FALSE]]
  /\ UNCHANGED <<diskVars, proc, liveVars, set, saver, sess, saves, overlapped>>

\* Mutant: a failure returns without giving up the lock.
FailResolve_Locked(a) ==
  /\ AskerIs(a, "resolving")
  /\ asker' = [asker EXCEPT ![a] = IdleAsker]
  /\ lazy' = [lazy EXCEPT ![asker[a].set.gen].failed = TRUE]
  /\ UNCHANGED <<diskVars, proc, liveVars, set, saver, sess, saves, overlapped>>

\* It fails, which is remembered, or the time is up, which is not.  The request
\* goes on with what the set has.
FailResolve(a) ==
  /\ AskerIs(a, "resolving")
  /\ asker' = [asker EXCEPT ![a] = IdleAsker]
  /\ \E recorded \in BOOLEAN :
       lazy' = [lazy EXCEPT ![asker[a].set.gen] = [Fresh EXCEPT !.failed = recorded]]
  /\ UNCHANGED <<diskVars, proc, liveVars, set, saver, sess, saves, overlapped>>

\* discoveryRetryAfter has passed.
Forgive(g) ==
  /\ lazy[g].failed
  /\ lazy' = [lazy EXCEPT ![g].failed = FALSE]
  /\ UNCHANGED <<diskVars, proc, liveVars, set, saver, asker, sess, saves, overlapped>>

Unresolved(a) == [asker[a].set EXCEPT !.id = None]

\* Mutant: the resolved set is stored whatever is live by now.
Publish_Store(a) ==
  /\ AskerIs(a, "resolved")
  /\ asker' = [asker EXCEPT ![a].pc = "serving"]
  /\ set' = asker[a].set
  /\ UNCHANGED <<diskVars, proc, liveVars, lazy, saver, sess, saves, overlapped>>

\* CompareAndSwap: only the set that was resolved is replaced.
Publish(a) ==
  /\ AskerIs(a, "resolved")
  /\ asker' = [asker EXCEPT ![a].pc = "serving"]
  /\ set' = IF set = Unresolved(a) THEN asker[a].set ELSE set
  /\ UNCHANGED <<diskVars, proc, liveVars, lazy, saver, sess, saves, overlapped>>

Answer(a) ==
  /\ AskerIs(a, "serving")
  /\ asker' = [asker EXCEPT ![a] = IdleAsker]
  /\ set' = set /\ saver' = saver /\ Collect
  /\ UNCHANGED <<diskVars, proc, liveVars, sess, saves, overlapped>>

----------------------------------------------------------------------------
(***************************************************************************)
(* The store and its sessions, as far as a reload is concerned: whose set  *)
(* the host's connection has taken, and with it the deck.                  *)
(***************************************************************************)

Session(s) ==
  /\ proc = "up"
  /\ UNCHANGED <<diskVars, proc, liveVars, setVars, saver, asker, saves, overlapped>>

\* A reload has its list of sessions and has not replaced the set.
Reloading ==
  \E p \in Savers : saver[p].pc \in {"ending", "ttl, then store", "store"}

Create(s) ==
  /\ Session(s) /\ Room
  /\ ~sess[s].stored /\ sess[s].conn = "off"
  /\ sess' = [sess EXCEPT ![s] = [NoSession EXCEPT !.stored = TRUE, !.status = "lobby"]]

\* handleWS looks the session up first,
Connect(s) ==
  /\ Session(s)
  /\ sess[s].stored /\ sess[s].conn = "off"
  /\ sess' = [sess EXCEPT ![s].conn = "connecting"]

\* and takes the source set then, for as long as the connection lasts.
TakeSet(s) ==
  /\ Session(s)
  /\ sess[s].conn = "connecting"
  /\ sess' = [sess EXCEPT ![s].conn = "on",
                          ![s].from = IF sess[s].locked THEN @ ELSE "live",
                          ![s].late = @ \/ Reloading]

\* host:start looks at Locked and not at the status; a page that has not heard
\* of the end yet still sends it.
Begin(s) ==
  /\ Session(s)
  /\ sess[s].conn = "on" /\ ~sess[s].locked
  /\ sess' = [sess EXCEPT ![s].conn = "fetching",
                          ![s].late = @ \/ sess[s].status = "over"]

\* The deck is dealt, or there is none.
Deal(s) ==
  /\ Session(s)
  /\ sess[s].conn = "fetching"
  /\ \/ sess' = [sess EXCEPT ![s].conn = "on", ![s].status = "active", ![s].locked = TRUE]
     \/ sess' = [sess EXCEPT ![s].conn = "on"]

\* Matched, ended by the host, or swiped to the end.
Finish(s) ==
  /\ Session(s)
  /\ sess[s].status = "active"
  /\ sess' = [sess EXCEPT ![s].status = "over"]

\* What the deck was dealt from stays with a session that the store holds.
Leave(s) ==
  /\ Session(s)
  /\ sess[s].conn = "on"
  /\ \/ ~sess[s].stored /\ sess' = [sess EXCEPT ![s] = NoSession]
     \/ /\ sess[s].stored
        /\ sess' = [sess EXCEPT ![s].conn = "off",
                                ![s].from = IF sess[s].locked THEN @ ELSE "none"]

\* The sweeper forgets a session and closes the connections it knows of.
Sweep(s) ==
  /\ Session(s)
  /\ sess[s].stored
  /\ sess' = [sess EXCEPT ![s] =
       IF @.conn \in {"off", "on"} THEN NoSession ELSE [@ EXCEPT !.stored = FALSE]]

----------------------------------------------------------------------------
Next ==
  \/ Start \/ ReadToken \/ WriteToken \/ Crash \/ PowerLoss
  \/ \E p \in Savers :
       \/ \E edit \in Edits : LoadFile(p, edit)
       \/ WriteTemp(p) \/ FailWrite(p) \/ Rename(p) \/ Compare(p) \/ EndAll(p)
       \/ \E s \in Sessions : EndOne(p, s)
       \/ SetConfig(p) \/ SetTTL(p) \/ StoreSet(p)
  \/ \E a \in Askers :
       \/ LoadSet(a) \/ Lock(a) \/ FailResolve(a) \/ Publish(a) \/ Answer(a)
       \/ \E id \in IDs : Resolve(a, id)
  \/ \E g \in Gens : Forgive(g)
  \/ \E s \in Sessions :
       \/ Create(s) \/ Connect(s) \/ TakeSet(s) \/ Begin(s) \/ Deal(s)
       \/ Finish(s) \/ Leave(s) \/ Sweep(s)

\* The mutex is handed to a waiter before it starves, a resolution ends when its
\* time is up, and a request that can go on does.
Fairness ==
  \A a \in Askers :
    /\ SF_vars(Lock(a))
    /\ WF_vars(FailResolve(a) \/ \E id \in IDs : Resolve(a, id))
    /\ WF_vars(Publish(a))
    /\ WF_vars(Answer(a))

Spec == Init /\ [][Next]_vars /\ Fairness

----------------------------------------------------------------------------
(***************************************************************************)
(* Properties.                                                             *)
(***************************************************************************)

\* The type invariant.  A lock is held by a request that is resolving its set.
ReloadTypeOK ==
  /\ file \in Files /\ unsynced \in BOOLEAN
  /\ proc \in {"down", "starting", "reading", "blind", "up"}
  /\ cfg \in Settings /\ ttl \in TTLs \ {Junk}
  /\ set \in SourceSets
  /\ \A g \in Gens : lazy[g].holder # None =>
       asker[lazy[g].holder].pc = "resolving" /\ asker[lazy[g].holder].set.gen = g

\* Whatever dies when, the file is one that can be loaded, its settings are only
\* ever replaced by those of a save, and a token, once there, is never lost.
\* Settings are lost to a token only if the file could be read the first time
\* and not the second (setuptoken.go:42-54, setuptoken.go:96-147).
FileSurvives ==
  [][proc # "down" =>
       /\ file' # Torn
       /\ SettingsOf(file') # SettingsOf(file) =>
            \/ \E p \in Savers : SaverIs(p, "synced") /\ saver[p].next = SettingsOf(file')
            \/ proc = "blind"
       /\ HasToken(file) => HasToken(file')
       /\ HasToken(file') /\ ~HasToken(file) => proc \in {"reading", "blind"}]_vars

\* Between saves, none of which overlapped another, the set is built from the
\* configuration the process runs on, and the sweeper has its TTL if it is one:
\* no request that was resolving names brings an older set back
\* (sourceset.go:87-94, sourceset.go:334-366, settings.go:164-191).
RunsWhatTheFileSays ==
  proc = "up" /\ ~overlapped /\ (\A p \in Savers : SaverIs(p, "idle")) =>
    /\ set.sources = cfg.sources
    /\ cfg.ttl # Junk => ttl = cfg.ttl

\* A set's names are resolved once: every request of the set, and the process,
\* has the same identifiers, or cards would refer to sources that are gone
\* (lazy.go:31-34).
OneAnswerPerSet ==
  LET Holds == {set} \cup {asker[a].set : a \in {a \in Askers : asker[a].pc \in {"resolved", "serving"}}}
  IN \A x, y \in Holds : x.gen = y.gen /\ x.id # None /\ y.id # None => x.id = y.id

\* Once a reload is over, a session that is going on deals, or has dealt, from the
\* set that is live, unless it was late: its host connected while the reload was
\* ending the others, or its start was under way when it was ended
\* (sourceset.go:338-344, hub.go:61-63).
DealsFromLiveSources ==
  proc = "up" /\ ~Reloading =>
    \A s \in Sessions :
      sess[s].stored /\ sess[s].status \in {"lobby", "active"} /\ sess[s].from = "old" =>
        sess[s].late

\* Every request that waits for names to be resolved goes on, whatever the media
\* server does: a failure or a timeout gives the lock back (lazy.go:58-103).
EveryRequestAnswered ==
  \A a \in Askers : AskerIs(a, "waiting") ~> AskerIs(a, "idle")

=============================================================================
