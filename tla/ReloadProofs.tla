---------------------------- MODULE ReloadProofs ----------------------------
(***************************************************************************)
(* Proofs about Reload, for any number of saves and requests, any sessions *)
(* and any settings.                                                       *)
(***************************************************************************)
EXTENDS Reload, TLAPS

SaverPCs ==
  {"idle", "loaded", "synced", "renamed", "built", "ending", "config", "ttl",
   "ttl, then store", "store"}
AskerPCs == {"idle", "waiting", "resolving", "resolved", "serving"}

SaverType == [pc : SaverPCs, next : Settings, token : BOOLEAN, set : SourceSets,
              todo : SUBSET Sessions]
AskerType == [pc : AskerPCs, set : SourceSets]
LazyType == [holder : Askers \cup {None}, id : IDs \cup {None}, failed : BOOLEAN]
SessionType ==
  [stored : BOOLEAN, status : {"none", "lobby", "active", "over"},
   conn : {"off", "connecting", "on", "fetching"}, from : {"none", "live", "old"},
   locked : BOOLEAN, late : BOOLEAN]

DiskTypes ==
  /\ file \in Files \ {Torn} /\ unsynced = FALSE
  /\ proc \in {"down", "starting", "reading", "blind", "up"}

LiveTypes ==
  /\ cfg \in Settings /\ ttl \in TTLs \ {Junk}
  /\ set \in SourceSets /\ lazy \in [Gens -> LazyType]
  /\ overlapped \in BOOLEAN

ActorTypes ==
  /\ saver \in [Savers -> SaverType]
  /\ asker \in [Askers -> AskerType]
  /\ sess \in [Sessions -> SessionType]

ReloadTypes == DiskTypes /\ LiveTypes /\ ActorTypes

SessionStep(s) ==
  \/ Create(s) \/ Connect(s) \/ TakeSet(s) \/ Begin(s) \/ Deal(s)
  \/ Finish(s) \/ Leave(s) \/ Sweep(s)

\* A save carries the token of the file that it will replace.
DiskInv ==
  /\ proc # "up" => \A p \in Savers : SaverIs(p, "idle")
  /\ \A p \in Savers : saver[p].pc \in {"loaded", "synced"} =>
       (saver[p].token <=> HasToken(file))

\* The requests that have an answer for their set.
Resolved(a) == asker[a].pc \in {"resolved", "serving"}

\* A lock and the request that holds it know of each other, nothing is resolved
\* while a lock is held, and what anyone has for a set is what its lazy value is.
LockInv ==
  /\ \A g \in Gens : lazy[g].holder # None =>
       /\ lazy[g].id = None
       /\ AskerIs(lazy[g].holder, "resolving") /\ asker[lazy[g].holder].set.gen = g
  /\ \A a \in Askers : AskerIs(a, "resolving") => Lazy(a).holder = a
  /\ \A a \in Askers : Resolved(a) => asker[a].set.id # None /\ asker[a].set.id = Lazy(a).id
  /\ set.id # None => set.id = lazy[set.gen].id
  /\ \A p \in Savers : saver[p].set.id = None

\* The configuration is the one to be, and the set may not be yet.
Switching(p) == saver[p].pc \in {"ttl", "ttl, then store", "store"}

SetMatches == set.sources = cfg.sources
TTLMatches == cfg.ttl # Junk => ttl = cfg.ttl

\* What a save that is alone has and has not replaced yet.
Progress(p) ==
  /\ SaverIs(p, "config") => saver[p].next.sources = cfg.sources
  /\ Switching(p) => cfg = saver[p].next
  /\ SaverIs(p, "ttl") => SetMatches
  /\ SaverIs(p, "store") => TTLMatches
  /\ saver[p].pc \in Building => saver[p].set.sources = saver[p].next.sources

Alone == \A p, q \in Savers : ~SaverIs(p, "idle") /\ ~SaverIs(q, "idle") => p = q
Matches == SetMatches /\ TTLMatches
Unswitched == \A p \in Savers : ~Switching(p)

SaveInv ==
  ~overlapped => Alone /\ (Unswitched => Matches) /\ \A p \in Savers : Progress(p)

GoesOn(s) == sess[s].stored /\ sess[s].status \in {"lobby", "active"}

\* A reload that is under way has ended the session, or has not listed it.
PassedBy(p, s) ==
  \/ SaverIs(p, "ending") /\ s \notin saver[p].todo
  \/ saver[p].pc \in {"ttl, then store", "store"}

\* A start that outlives the end of its session is late; so is who deals from a
\* set that is replaced, or is about to be.
SessionInv(s) ==
  /\ sess[s].stored => sess[s].status # "none"
  /\ sess[s].conn = "fetching" => ~sess[s].locked
  /\ sess[s].status = "active" => sess[s].locked
  /\ sess[s].status = "over" /\ sess[s].conn = "fetching" => sess[s].late
  /\ GoesOn(s) /\ sess[s].from = "old" => sess[s].late
  /\ \A p \in Savers : PassedBy(p, s) /\ GoesOn(s) /\ sess[s].from = "live" => sess[s].late

DealInv == \A s \in Sessions : SessionInv(s)

----------------------------------------------------------------------------
(***************************************************************************)
(* Types.                                                                  *)
(***************************************************************************)

LEMMA ConstantsTyped ==
  /\ 1 \in Gens
  /\ Defaults \in Settings
  /\ IdleSaver \in SaverType /\ IdleAsker \in AskerType /\ NoSession \in SessionType
  /\ Fresh \in LazyType
  /\ \A g \in Gens, c \in Choices : NewSet(g, c) \in SourceSets
<1> USE ChoicesAssumption, TTLsAssumption, BoundsAssumption
<1>1. 1 \in Gens
  BY DEF Gens
<1>2. Defaults \in Settings
  BY DEF Defaults, Settings
<1>3. \A g \in Gens, c \in Choices : NewSet(g, c) \in SourceSets
  BY DEF NewSet, SourceSets
<1>4. IdleSaver \in SaverType /\ IdleAsker \in AskerType
  BY <1>1, <1>2, <1>3 DEF IdleSaver, IdleAsker, SaverType, AskerType, SaverPCs, AskerPCs
<1>5. NoSession \in SessionType /\ Fresh \in LazyType
  BY DEF NoSession, SessionType, Fresh, LazyType
<1>6. QED
  BY <1>1, <1>2, <1>3, <1>4, <1>5

LEMMA SettingsOfTyped ==
  ASSUME NEW f \in Files \ {Torn}
  PROVE  SettingsOf(f) \in Settings /\ HasToken(f) \in BOOLEAN
  BY ConstantsTyped DEF Files, SettingsOf, HasToken

LEMMA MergeTyped ==
  ASSUME NEW old \in Settings, NEW edit \in Edits
  PROVE  Merge(old, edit) \in Settings
  BY EditsAssumption DEF Settings, Merge

\* A save that only goes on keeps what it has.
LEMMA MovesOn ==
  ASSUME ActorTypes, NEW p \in Savers, NEW pc, saver' = [saver EXCEPT ![p].pc = pc]
  PROVE  /\ saver'[p] = [saver[p] EXCEPT !.pc = pc]
         /\ saver'[p].pc = pc /\ saver'[p].set = saver[p].set
         /\ saver'[p].next = saver[p].next /\ saver'[p].todo = saver[p].todo
         /\ \A q \in Savers : q # p => saver'[q] = saver[q]
  BY DEF ActorTypes, SaverType

LEMMA InitTypes == Init => ReloadTypes /\ DiskInv /\ LockInv
<1> SUFFICES ASSUME Init PROVE ReloadTypes /\ DiskInv /\ LockInv
  OBVIOUS
<1> USE ConstantsTyped DEF Init
<1>1. ReloadTypes
  BY FoundAssumption, ChoicesAssumption, TTLsAssumption
     DEF ReloadTypes, DiskTypes, LiveTypes, ActorTypes
<1>2. DiskInv
  BY DEF DiskInv, SaverIs, IdleSaver
<1>3. LockInv
  BY DEF LockInv, AskerIs, Resolved, Fresh, IdleAsker, IdleSaver, NewSet
<1>4. QED
  BY <1>1, <1>2, <1>3

LEMMA TypesPreserved ==
  ASSUME ReloadTypes, [Next]_vars
  PROVE  ReloadTypes'
<1> USE ConstantsTyped, SettingsOfTyped
    DEF ReloadTypes, DiskTypes, LiveTypes, ActorTypes, diskVars, liveVars, setVars
<1>1. ASSUME Start
      PROVE  ReloadTypes'
  BY <1>1, ChoicesAssumption, TTLsAssumption DEF Start, Settings
<1>2. ASSUME ReadToken
      PROVE  ReloadTypes'
  BY <1>2 DEF ReadToken
<1>3. ASSUME WriteToken
      PROVE  ReloadTypes'
  <2>1. ASSUME NEW theSettings \in Settings, NEW t \in BOOLEAN
        PROVE  [settings |-> theSettings, token |-> t] \in Files \ {Torn}
    BY FilesAssumption DEF Files
  <2>2. file' \in Files \ {Torn}
    BY <1>3, <2>1 DEF WriteToken
  <2>3. QED
    BY <1>3, <2>2 DEF WriteToken
<1>4. ASSUME Crash
      PROVE  ReloadTypes'
  BY <1>4, ChoicesAssumption, TTLsAssumption DEF Crash, Die
<1>5. ASSUME PowerLoss
      PROVE  ReloadTypes'
  BY <1>5, ChoicesAssumption, TTLsAssumption DEF PowerLoss, Die
<1>6. ASSUME NEW p \in Savers, NEW edit \in Edits, LoadFile(p, edit)
      PROVE  ReloadTypes'
  BY <1>6, MergeTyped DEF LoadFile, SaverType, SaverPCs, IdleSaver, NewSet, SourceSets
<1>7. ASSUME NEW p \in Savers, WriteTemp(p)
      PROVE  ReloadTypes'
  BY <1>7 DEF WriteTemp, Goes, SaverType, SaverPCs
<1>8. ASSUME NEW p \in Savers, FailWrite(p)
      PROVE  ReloadTypes'
  BY <1>8 DEF FailWrite
<1>9. ASSUME NEW p \in Savers, Rename(p)
      PROVE  ReloadTypes'
  <2>1. saver[p].next \in Settings /\ saver[p].token \in BOOLEAN
    BY DEF SaverType
  <2>2. file' \in Files \ {Torn}
    BY <1>9, <2>1, FilesAssumption DEF Rename, Files
  <2>3. saver' \in [Savers -> SaverType]
    BY <1>9 DEF Rename, Goes, SaverType, SaverPCs
  <2>4. QED
    BY <1>9, <2>2, <2>3 DEF Rename
<1>10. ASSUME NEW p \in Savers, Compare(p)
      PROVE  ReloadTypes'
  <2>1. CASE saver[p].next.sources # cfg.sources
    <3>1. PICK g \in Gens :
            /\ saver' = [saver EXCEPT ![p].pc = "built",
                                      ![p].set = NewSet(g, saver[p].next.sources)]
            /\ lazy' = [lazy EXCEPT ![g] = Fresh]
      BY <1>10, <2>1 DEF Compare, Free
    <3>2. NewSet(g, saver[p].next.sources) \in SourceSets
      BY DEF SaverType, Settings
    <3>3. saver' \in [Savers -> SaverType]
      BY <3>1, <3>2 DEF SaverType, SaverPCs
    <3>4. lazy' \in [Gens -> LazyType]
      BY <3>1
    <3>5. QED
      BY <1>10, <3>3, <3>4 DEF Compare
  <2>2. CASE saver[p].next.sources = cfg.sources
    <3>1. [saver[p] EXCEPT !.pc = "config"] \in SaverType
      BY DEF SaverType, SaverPCs
    <3>2. saver' \in [Savers -> SaverType]
      BY <1>10, <2>2, <3>1 DEF Compare
    <3>3. QED
      BY <1>10, <2>2, <3>2 DEF Compare
  <2>3. QED
    BY <2>1, <2>2
<1>11. ASSUME NEW p \in Savers, EndAll(p)
      PROVE  ReloadTypes'
  BY <1>11 DEF EndAll, SaverType, SaverPCs
<1>12. ASSUME NEW p \in Savers, NEW s \in Sessions, EndOne(p, s)
      PROVE  ReloadTypes'
  <2>1. saver' \in [Savers -> SaverType]
    BY <1>12 DEF EndOne, SaverType
  <2>2. ASSUME NEW x \in SessionType, NEW b \in BOOLEAN
        PROVE  [x EXCEPT !.status = "over", !.late = b] \in SessionType
    BY DEF SessionType
  <2>3. sess' \in [Sessions -> SessionType]
    BY <1>12, <2>2 DEF EndOne
  <2>4. QED
    BY <1>12, <2>1, <2>3 DEF EndOne
<1>13. ASSUME NEW p \in Savers, SetConfig(p)
      PROVE  ReloadTypes'
  BY <1>13 DEF SetConfig, Goes, SaverType, SaverPCs
<1>14. ASSUME NEW p \in Savers, SetTTL(p)
      PROVE  ReloadTypes'
  BY <1>14 DEF SetTTL, SaverType, SaverPCs, Settings
<1>15. ASSUME NEW p \in Savers, StoreSet(p)
      PROVE  ReloadTypes'
  BY <1>15 DEF StoreSet, Collect, SaverType, SessionType
<1>16. ASSUME NEW a \in Askers, LoadSet(a)
      PROVE  ReloadTypes'
  BY <1>16 DEF LoadSet, AskerType, AskerPCs
<1>17. ASSUME NEW a \in Askers, Lock(a)
      PROVE  ReloadTypes'
  <2>1. asker[a] \in AskerType /\ asker[a].set \in SourceSets /\ asker[a].set.gen \in Gens
    BY DEF AskerType, SourceSets
  <2>2. Lazy(a) \in LazyType
    BY <2>1 DEF Lazy
  <2>3. [asker[a] EXCEPT !.pc = "resolved", !.set.id = Lazy(a).id] \in AskerType
    BY <2>1, <2>2 DEF AskerType, AskerPCs, SourceSets, LazyType
  <2>4. [asker[a] EXCEPT !.pc = "resolving"] \in AskerType
    BY <2>1 DEF AskerType, AskerPCs
  <2>5. [Lazy(a) EXCEPT !.holder = a] \in LazyType
    BY <2>2 DEF LazyType
  <2>6. asker' \in [Askers -> AskerType]
    BY <1>17, <2>3, <2>4 DEF Lock
  <2>7. lazy' \in [Gens -> LazyType]
    BY <1>17, <2>1, <2>5 DEF Lock, Lazy
  <2>8. QED
    BY <1>17, <2>6, <2>7 DEF Lock
<1>18. ASSUME NEW a \in Askers, FailResolve(a)
      PROVE  ReloadTypes'
  BY <1>18 DEF FailResolve, AskerType, LazyType, SourceSets, Fresh
<1>19. ASSUME NEW a \in Askers, NEW id \in IDs, Resolve(a, id)
      PROVE  ReloadTypes'
  <2>1. asker[a] \in AskerType /\ asker[a].set \in SourceSets /\ asker[a].set.gen \in Gens
    BY DEF AskerType, SourceSets
  <2>2. [asker[a] EXCEPT !.pc = "resolved", !.set.id = id] \in AskerType
    BY <2>1 DEF AskerType, AskerPCs, SourceSets
  <2>3. asker' \in [Askers -> AskerType]
    BY <1>19, <2>2 DEF Resolve
  <2>4. lazy' \in [Gens -> LazyType]
    BY <1>19, <2>1 DEF Resolve, LazyType
  <2>5. QED
    BY <1>19, <2>3, <2>4 DEF Resolve
<1>20. ASSUME NEW a \in Askers, Publish(a)
      PROVE  ReloadTypes'
  BY <1>20 DEF Publish, AskerType, AskerPCs
<1>21. ASSUME NEW a \in Askers, Answer(a)
      PROVE  ReloadTypes'
  BY <1>21 DEF Answer, Collect
<1>22. ASSUME NEW g \in Gens, Forgive(g)
      PROVE  ReloadTypes'
  BY <1>22 DEF Forgive, LazyType
<1>23. ASSUME NEW s \in Sessions, SessionStep(s)
      PROVE  ReloadTypes'
  <2>1. sess[s] \in SessionType
    OBVIOUS
  <2>2. PICK t \in SessionType : sess' = [sess EXCEPT ![s] = t]
    <3>1. CASE Create(s)
      <4>1. [NoSession EXCEPT !.stored = TRUE, !.status = "lobby"] \in SessionType
        BY DEF NoSession, SessionType
      <4>2. QED
        BY <3>1, <4>1 DEF Create
    <3>2. CASE Connect(s)
      <4>1. [sess[s] EXCEPT !.conn = "connecting"] \in SessionType
        BY <2>1 DEF SessionType
      <4>2. QED
        BY <3>2, <4>1 DEF Connect
    <3>3. CASE TakeSet(s)
      <4>1. ASSUME NEW x \in SessionType, NEW f \in {"none", "live", "old"}, NEW b \in BOOLEAN
            PROVE  [x EXCEPT !.conn = "on", !.from = f, !.late = b] \in SessionType
        BY DEF SessionType
      <4>2. (IF sess[s].locked THEN sess[s].from ELSE "live") \in {"none", "live", "old"}
        BY <2>1 DEF SessionType
      <4>3. QED
        BY <2>1, <3>3, <4>1, <4>2 DEF TakeSet
    <3>4. CASE Begin(s)
      <4>1. ASSUME NEW x \in SessionType, NEW b \in BOOLEAN
            PROVE  [x EXCEPT !.conn = "fetching", !.late = b] \in SessionType
        BY DEF SessionType
      <4>2. QED
        BY <2>1, <3>4, <4>1 DEF Begin
    <3>5. CASE Deal(s)
      <4>1. /\ [sess[s] EXCEPT !.conn = "on", !.status = "active", !.locked = TRUE] \in SessionType
            /\ [sess[s] EXCEPT !.conn = "on"] \in SessionType
        BY <2>1 DEF SessionType
      <4>2. QED
        BY <3>5, <4>1 DEF Deal
    <3>6. CASE Finish(s)
      <4>1. [sess[s] EXCEPT !.status = "over"] \in SessionType
        BY <2>1 DEF SessionType
      <4>2. QED
        BY <3>6, <4>1 DEF Finish
    <3>7. CASE Leave(s)
      <4>1. CASE ~sess[s].stored
        BY <3>7, <4>1 DEF Leave
      <4>2. CASE sess[s].stored
        <5>1. ASSUME NEW x \in SessionType, NEW f \in {"none", "live", "old"}
              PROVE  [x EXCEPT !.conn = "off", !.from = f] \in SessionType
          BY DEF SessionType
        <5>2. (IF sess[s].locked THEN sess[s].from ELSE "none") \in {"none", "live", "old"}
          BY <2>1 DEF SessionType
        <5> DEFINE f == IF sess[s].locked THEN sess[s].from ELSE "none"
                   t == [sess[s] EXCEPT !.conn = "off", !.from = f]
        <5>3. t \in SessionType
          BY <2>1, <5>1, <5>2
        <5>4. sess' = [sess EXCEPT ![s] = t]
          BY <3>7, <4>2 DEF Leave
        <5>5. QED
          BY <5>3, <5>4
      <4>3. QED
        BY <4>1, <4>2
    <3>8. CASE Sweep(s)
      <4>1. [sess[s] EXCEPT !.stored = FALSE] \in SessionType
        BY <2>1 DEF SessionType
      <4>2. QED
        BY <3>8, <4>1 DEF Sweep
    <3>9. QED
      BY <1>23, <3>1, <3>2, <3>3, <3>4, <3>5, <3>6, <3>7, <3>8 DEF SessionStep
  <2>3. UNCHANGED <<diskVars, proc, liveVars, setVars, saver, asker, saves, overlapped>>
    BY <1>23 DEF SessionStep, Create, Connect, TakeSet, Begin, Deal, Finish, Leave, Sweep, Session
  <2>4. QED
    BY <2>2, <2>3
<1>24. CASE UNCHANGED vars
  BY <1>24 DEF vars
<1>25. QED
  BY <1>1, <1>2, <1>3, <1>4, <1>5, <1>6, <1>7, <1>8, <1>9, <1>10, <1>11, <1>12, <1>13, <1>14, <1>15, <1>16,
     <1>17, <1>18, <1>19, <1>20, <1>21, <1>22, <1>23, <1>24
     DEF Next, SessionStep

----------------------------------------------------------------------------
(***************************************************************************)
(* The file and the saves on their way to it.                              *)
(***************************************************************************)

LEMMA DiskInvPreserved ==
  ASSUME ReloadTypes, DiskInv, [Next]_vars
  PROVE  DiskInv'
<1> USE DEF ReloadTypes, DiskTypes, ActorTypes, DiskInv, SaverIs, diskVars
<1>1. ASSUME Start
      PROVE  DiskInv'
  BY <1>1 DEF Start
<1>2. ASSUME ReadToken
      PROVE  DiskInv'
  BY <1>2 DEF ReadToken
<1>3. ASSUME WriteToken
      PROVE  DiskInv'
  BY <1>3 DEF WriteToken
<1>4. ASSUME Crash
      PROVE  DiskInv'
  BY <1>4 DEF Crash, Die, IdleSaver
<1>5. ASSUME PowerLoss
      PROVE  DiskInv'
  BY <1>5 DEF PowerLoss, Die, IdleSaver
<1>6. ASSUME NEW p \in Savers, NEW edit \in Edits, LoadFile(p, edit)
      PROVE  DiskInv'
  BY <1>6 DEF LoadFile, IdleSaver
<1>7. ASSUME NEW p \in Savers, WriteTemp(p)
      PROVE  DiskInv'
  BY <1>7 DEF WriteTemp, Goes
<1>8. ASSUME NEW p \in Savers, FailWrite(p)
      PROVE  DiskInv'
  BY <1>8 DEF FailWrite, IdleSaver
<1>9. ASSUME NEW p \in Savers, Rename(p)
      PROVE  DiskInv'
  <2>1. HasToken(file') <=> saver[p].token
    BY <1>9, FilesAssumption DEF Rename, HasToken, SaverType
  <2>2. QED
    BY <1>9, <2>1 DEF Rename, Goes
<1>10. ASSUME NEW p \in Savers, Compare(p)
      PROVE  DiskInv'
  <2>1. /\ proc = "up" /\ proc' = proc /\ file' = file
        /\ \A q \in Savers : q # p => saver'[q] = saver[q]
    BY <1>10 DEF Compare, IdleSaver, SaverType
  <2>2. saver'[p].pc \notin {"loaded", "synced"}
    BY <1>10 DEF Compare, IdleSaver, SaverType
  <2>3. QED
    BY <2>1, <2>2 DEF HasToken
<1>11. ASSUME NEW p \in Savers, EndAll(p)
      PROVE  DiskInv'
  BY <1>11 DEF EndAll
<1>12. ASSUME NEW p \in Savers, NEW s \in Sessions, EndOne(p, s)
      PROVE  DiskInv'
  BY <1>12 DEF EndOne
<1>13. ASSUME NEW p \in Savers, SetConfig(p)
      PROVE  DiskInv'
  <2>1. /\ proc = "up" /\ proc' = proc /\ file' = file
        /\ \A q \in Savers : q # p => saver'[q] = saver[q]
    BY <1>13 DEF SetConfig, Goes, SaverType
  <2>2. saver'[p].pc \notin {"loaded", "synced"}
    BY <1>13 DEF SetConfig, Goes, SaverType
  <2>3. QED
    BY <2>1, <2>2 DEF HasToken
<1>14. ASSUME NEW p \in Savers, SetTTL(p)
      PROVE  DiskInv'
  <2>1. /\ proc = "up" /\ proc' = proc /\ file' = file
        /\ \A q \in Savers : q # p => saver'[q] = saver[q]
    BY <1>14 DEF SetTTL, IdleSaver, SaverType
  <2>2. saver'[p].pc \notin {"loaded", "synced"}
    BY <1>14 DEF SetTTL, IdleSaver, SaverType
  <2>3. QED
    BY <2>1, <2>2 DEF HasToken
<1>15. ASSUME NEW p \in Savers, StoreSet(p)
      PROVE  DiskInv'
  BY <1>15 DEF StoreSet, Collect, IdleSaver
<1>16. ASSUME NEW a \in Askers, LoadSet(a)
      PROVE  DiskInv'
  BY <1>16 DEF LoadSet
<1>17. ASSUME NEW a \in Askers, Lock(a)
      PROVE  DiskInv'
  BY <1>17 DEF Lock
<1>18. ASSUME NEW a \in Askers, FailResolve(a)
      PROVE  DiskInv'
  BY <1>18 DEF FailResolve
<1>19. ASSUME NEW a \in Askers, NEW id \in IDs, Resolve(a, id)
      PROVE  DiskInv'
  BY <1>19 DEF Resolve
<1>20. ASSUME NEW a \in Askers, Publish(a)
      PROVE  DiskInv'
  BY <1>20 DEF Publish
<1>21. ASSUME NEW a \in Askers, Answer(a)
      PROVE  DiskInv'
  BY <1>21 DEF Answer, Collect
<1>22. ASSUME NEW g \in Gens, Forgive(g)
      PROVE  DiskInv'
  BY <1>22 DEF Forgive
<1>23. ASSUME NEW s \in Sessions, SessionStep(s)
      PROVE  DiskInv'
  BY <1>23 DEF SessionStep, Session, Create, Connect, TakeSet, Begin, Deal, Finish, Leave, Sweep
<1>24. CASE UNCHANGED vars
  BY <1>24 DEF vars
<1>25. QED
  BY <1>1, <1>2, <1>3, <1>4, <1>5, <1>6, <1>7, <1>8, <1>9, <1>10, <1>11, <1>12, <1>13, <1>14, <1>15, <1>16,
     <1>17, <1>18, <1>19, <1>20, <1>21, <1>22, <1>23, <1>24
     DEF Next, SessionStep

----------------------------------------------------------------------------
(***************************************************************************)
(* The lazy values of the sets, and who waits for them.                    *)
(***************************************************************************)

LEMMA LockInvPreserved ==
  ASSUME ReloadTypes, LockInv, [Next]_vars
  PROVE  LockInv'
<1> USE NoneAssumption
    DEF ReloadTypes, LiveTypes, ActorTypes, LockInv, AskerIs, SaverIs, Resolved, Lazy, setVars
<1>1. ASSUME Start
      PROVE  LockInv'
  BY <1>1 DEF Start, NewSet
<1>2. ASSUME ReadToken
      PROVE  LockInv'
  BY <1>2 DEF ReadToken
<1>3. ASSUME WriteToken
      PROVE  LockInv'
  BY <1>3 DEF WriteToken
<1>4. ASSUME Crash
      PROVE  LockInv'
  BY <1>4 DEF Crash, Die, NewSet, Fresh, IdleAsker, IdleSaver
<1>5. ASSUME PowerLoss
      PROVE  LockInv'
  BY <1>5 DEF PowerLoss, Die, NewSet, Fresh, IdleAsker, IdleSaver
<1>6. ASSUME NEW p \in Savers, NEW edit \in Edits, LoadFile(p, edit)
      PROVE  LockInv'
  BY <1>6 DEF LoadFile, SaverType, IdleSaver, NewSet
<1>7. ASSUME NEW p \in Savers, WriteTemp(p)
      PROVE  LockInv'
  BY <1>7 DEF WriteTemp, Goes, SaverType, IdleSaver, NewSet
<1>8. ASSUME NEW p \in Savers, FailWrite(p)
      PROVE  LockInv'
  BY <1>8 DEF FailWrite, SaverType, IdleSaver, NewSet
<1>9. ASSUME NEW p \in Savers, Rename(p)
      PROVE  LockInv'
  BY <1>9 DEF Rename, Goes, SaverType, IdleSaver, NewSet
<1>10. ASSUME NEW p \in Savers, Compare(p)
      PROVE  LockInv'
  <2>1. \A q \in Savers : saver'[q].set.id = None
    BY <1>10 DEF Compare, SaverType, IdleSaver, NewSet
  <2>2. UNCHANGED <<set, asker>>
    BY <1>10 DEF Compare
  <2>3. CASE UNCHANGED lazy
    BY <2>1, <2>2, <2>3
  <2>4. CASE \E g \in Free : lazy' = [lazy EXCEPT ![g] = Fresh]
    <3>1. PICK g \in Gens \ Held(set, saver, asker) : lazy' = [lazy EXCEPT ![g] = Fresh]
      BY <2>4 DEF Free
    <3>2. g # set.gen /\ \A a \in Askers : asker[a].pc # "idle" => g # asker[a].set.gen
      BY <3>1 DEF Held
    <3>3. \A h \in Gens : lazy'[h] = IF h = g THEN Fresh ELSE lazy[h]
      BY <3>1
    <3>4. set.gen \in Gens /\ \A a \in Askers : asker[a].set.gen \in Gens
      BY DEF AskerType, SourceSets
    <3>5. QED
      BY <2>1, <2>2, <3>2, <3>3, <3>4 DEF Fresh
  <2>5. QED
    BY <1>10, <2>3, <2>4 DEF Compare
<1>11. ASSUME NEW p \in Savers, EndAll(p)
      PROVE  LockInv'
  BY <1>11 DEF EndAll, SaverType, IdleSaver, NewSet
<1>12. ASSUME NEW p \in Savers, NEW s \in Sessions, EndOne(p, s)
      PROVE  LockInv'
  BY <1>12 DEF EndOne, SaverType, IdleSaver, NewSet
<1>13. ASSUME NEW p \in Savers, SetConfig(p)
      PROVE  LockInv'
  <2>1. \A q \in Savers : q # p => saver'[q] = saver[q]
    BY <1>13 DEF SetConfig, Goes
  <2>2. saver'[p].set = saver[p].set
    BY <1>13, MovesOn DEF SetConfig, Goes
  <2>3. \A q \in Savers : saver'[q].set.id = None
    BY <2>1, <2>2 DEF IdleSaver, NewSet
  <2>4. UNCHANGED <<set, lazy, asker>>
    BY <1>13 DEF SetConfig, Goes
  <2>5. QED
    BY <2>3, <2>4
<1>14. ASSUME NEW p \in Savers, SetTTL(p)
      PROVE  LockInv'
  <2>1. \A q \in Savers : q # p => saver'[q] = saver[q]
    BY <1>14 DEF SetTTL
  <2>2. saver'[p].set.id = None
    <3>1. CASE SaverIs(p, "ttl")
      BY <1>14, <3>1 DEF SetTTL, IdleSaver, NewSet
    <3>2. CASE SaverIs(p, "ttl, then store")
      <4>1. saver' = [saver EXCEPT ![p].pc = "store"]
        BY <1>14, <3>2 DEF SetTTL
      <4>2. QED
        BY <4>1, MovesOn
    <3>3. QED
      BY <1>14, <3>1, <3>2 DEF SetTTL
  <2>3. \A q \in Savers : saver'[q].set.id = None
    BY <2>1, <2>2 DEF IdleSaver, NewSet
  <2>4. UNCHANGED <<set, lazy, asker>>
    BY <1>14 DEF SetTTL
  <2>5. QED
    BY <2>3, <2>4
<1>15. ASSUME NEW p \in Savers, StoreSet(p)
      PROVE  LockInv'
  <2>1. set' \in SourceSets /\ set'.id = None /\ asker' = asker
    BY <1>15 DEF StoreSet, SaverType
  <2>2. \A q \in Savers : saver'[q].set.id = None
    BY <1>15 DEF StoreSet, IdleSaver, NewSet
  <2>3. \A a \in Askers : asker[a].set.gen \in Gens
    BY DEF AskerType, SourceSets
  <2>4. \A a \in Askers : asker[a].pc # "idle" => lazy'[asker[a].set.gen] = Lazy(a)
    BY <1>15, <2>1, <2>3 DEF StoreSet, Collect, Held
  <2>5. \A h \in Gens : lazy'[h].holder # None => lazy'[h] = lazy[h]
    BY <1>15 DEF StoreSet, Collect, Fresh
  <2>6. QED
    BY <2>1, <2>2, <2>3, <2>4, <2>5
<1>16. ASSUME NEW a \in Askers, LoadSet(a)
      PROVE  LockInv'
  BY <1>16 DEF LoadSet, IdleAsker, Fresh, AskerType, SourceSets, LazyType, Unresolved
<1>17. ASSUME NEW a \in Askers, Lock(a)
      PROVE  LockInv'
  <2>1. asker[a].set.gen \in Gens /\ asker[a] \in AskerType /\ asker[a].set \in SourceSets
    BY DEF AskerType, SourceSets
  <2>2. \A b \in Askers : asker[b].set.gen \in Gens
    BY DEF AskerType, SourceSets
  <2>3. UNCHANGED <<set, saver>> /\ AskerIs(a, "waiting") /\ set.gen \in Gens
    BY <1>17 DEF Lock, SourceSets
  <2>4. \A b \in Askers : b # a => asker'[b] = asker[b]
    BY <1>17 DEF Lock
  <2>5. \A h \in Gens : lazy[h].holder \in Askers \cup {None}
    BY DEF LazyType
  <2>6. CASE Lazy(a).id # None
    <3>1. lazy' = lazy /\ asker'[a].pc = "resolved" /\ asker'[a].set.gen = asker[a].set.gen
            /\ asker'[a].set.id = Lazy(a).id
      BY <1>17, <2>1, <2>6 DEF Lock, AskerType, SourceSets
    <3>2. QED
      BY <2>2, <2>3, <2>4, <2>6, <3>1, <2>5
  <2>7. CASE Lazy(a).id = None /\ Lazy(a).failed
    <3>1. lazy' = lazy /\ asker'[a].pc = "idle"
      BY <1>17, <2>7 DEF Lock, IdleAsker
    <3>2. QED
      BY <2>2, <2>3, <2>4, <3>1, <2>5
  <2>8. CASE Lazy(a).id = None /\ ~Lazy(a).failed
    <3>1. asker'[a].pc = "resolving" /\ asker'[a].set = asker[a].set
      BY <1>17, <2>1, <2>8 DEF Lock, AskerType
    <3>2. \A h \in Gens : h # asker[a].set.gen => lazy'[h] = lazy[h]
      BY <1>17, <2>1, <2>8 DEF Lock
    <3>3. lazy'[asker[a].set.gen].holder = a /\ lazy'[asker[a].set.gen].id = None
      BY <1>17, <2>1, <2>8 DEF Lock, LazyType
    <3>4. Lazy(a).holder = None
      BY <1>17 DEF Lock
    <3>5. QED
      BY <2>1, <2>2, <2>3, <2>4, <2>8, <2>5, <3>1, <3>2, <3>3, <3>4
  <2>9. QED
    BY <1>17, <2>6, <2>7, <2>8 DEF Lock
<1>18. ASSUME NEW a \in Askers, FailResolve(a)
      PROVE  LockInv'
  BY <1>18 DEF FailResolve, IdleAsker, Fresh, AskerType, SourceSets, LazyType, Unresolved
<1>19. ASSUME NEW a \in Askers, NEW id \in IDs, Resolve(a, id)
      PROVE  LockInv'
  BY <1>19 DEF Resolve, IdleAsker, Fresh, AskerType, SourceSets, LazyType, Unresolved
<1>20. ASSUME NEW a \in Askers, Publish(a)
      PROVE  LockInv'
  BY <1>20 DEF Publish, IdleAsker, Fresh, AskerType, SourceSets, LazyType, Unresolved
<1>21. ASSUME NEW a \in Askers, Answer(a)
      PROVE  LockInv'
  BY <1>21 DEF Answer, Collect, SaverType, Held, Fresh, IdleSaver, IdleAsker, SourceSets, AskerType
<1>22. ASSUME NEW g \in Gens, Forgive(g)
      PROVE  LockInv'
  BY <1>22 DEF Forgive, LazyType
<1>23. ASSUME NEW s \in Sessions, SessionStep(s)
      PROVE  LockInv'
  BY <1>23 DEF SessionStep, Session, Create, Connect, TakeSet, Begin, Deal, Finish, Leave, Sweep
<1>24. CASE UNCHANGED vars
  BY <1>24 DEF vars
<1>25. QED
  BY <1>1, <1>2, <1>3, <1>4, <1>5, <1>6, <1>7, <1>8, <1>9, <1>10, <1>11, <1>12, <1>13, <1>14, <1>15, <1>16,
     <1>17, <1>18, <1>19, <1>20, <1>21, <1>22, <1>23, <1>24
     DEF Next, SessionStep

----------------------------------------------------------------------------
(***************************************************************************)
(* One save at a time: what it has replaced and what it has not.           *)
(***************************************************************************)

LEMMA OneSaveMoves ==
  ASSUME SaveInv, ~overlapped, NEW p \in Savers, ~SaverIs(p, "idle"),
         \A q \in Savers : q # p => saver'[q] = saver[q],
         Progress(p)', (~Switching(p) => Matches)'
  PROVE  SaveInv'
<1>1. \A q \in Savers : q # p => SaverIs(q, "idle") /\ SaverIs(q, "idle")'
  BY DEF SaveInv, Alone, SaverIs
<1>2. Alone'
  BY <1>1 DEF Alone
<1>3. \A q \in Savers : Progress(q)'
  BY <1>1 DEF Progress, SaverIs, Switching, Building
<1>4. (Unswitched => Matches)'
  BY DEF Unswitched
<1>5. QED
  BY <1>2, <1>3, <1>4 DEF SaveInv

LEMMA SavesAsBefore ==
  ASSUME SaveInv, UNCHANGED <<saver, cfg, ttl, overlapped>>, set'.sources = set.sources
  PROVE  SaveInv'
<1>1. \A p \in Savers : Progress(p) => Progress(p)'
  BY DEF Progress, SaverIs, Switching, Building, SetMatches, TTLMatches
<1>2. Alone => Alone'
  BY DEF Alone, SaverIs
<1>3. (Unswitched => Matches) => (Unswitched => Matches)'
  BY DEF Unswitched, Switching, Matches, SetMatches, TTLMatches
<1>4. QED
  BY <1>1, <1>2, <1>3 DEF SaveInv

LEMMA NoSaves ==
  ASSUME (\A p \in Savers : SaverIs(p, "idle"))', Matches'
  PROVE  SaveInv'
<1>1. \A p \in Savers : Progress(p)'
  BY DEF Progress, SaverIs, Switching, Building
<1>2. Alone'
  BY DEF Alone
<1>3. QED
  BY <1>1, <1>2 DEF SaveInv

LEMMA SaveInvPreserved ==
  ASSUME ReloadTypes, DiskInv, SaveInv, [Next]_vars
  PROVE  SaveInv'
<1> USE DEF ReloadTypes, ActorTypes, liveVars, setVars
<1>1. CASE Start
  <2>1. (\A p \in Savers : SaverIs(p, "idle"))'
    BY <1>1 DEF Start, DiskInv, SaverIs
  <2>2. Matches'
    BY <1>1 DEF Start, Matches, SetMatches, TTLMatches, NewSet
  <2>3. QED
    BY <2>1, <2>2, NoSaves
<1>2. CASE Crash \/ PowerLoss
  <2>1. (\A p \in Savers : SaverIs(p, "idle"))'
    BY <1>2 DEF Crash, PowerLoss, Die, SaverIs, IdleSaver
  <2>2. Matches'
    BY <1>2 DEF Crash, PowerLoss, Die, Matches, SetMatches, TTLMatches, NewSet, Defaults
  <2>3. QED
    BY <2>1, <2>2, NoSaves
<1>3. CASE ReadToken \/ WriteToken \/ UNCHANGED vars
  BY <1>3, SavesAsBefore DEF ReadToken, WriteToken, vars
<1>4. ASSUME NEW a \in Askers,
             LoadSet(a) \/ Lock(a) \/ FailResolve(a) \/ (\E id \in IDs : Resolve(a, id)) \/ Answer(a)
      PROVE  SaveInv'
  BY <1>4, SavesAsBefore DEF LoadSet, Lock, FailResolve, Resolve, Answer
<1>5. ASSUME NEW a \in Askers, Publish(a)
      PROVE  SaveInv'
  <2>1. Unresolved(a).sources = asker[a].set.sources
    BY DEF Unresolved, AskerType, SourceSets
  <2>2. QED
    BY <1>5, <2>1, SavesAsBefore DEF Publish
<1>6. ASSUME NEW g \in Gens, Forgive(g)
      PROVE  SaveInv'
  BY <1>6, SavesAsBefore DEF Forgive
<1>7. ASSUME NEW s \in Sessions, SessionStep(s)
      PROVE  SaveInv'
  BY <1>7, SavesAsBefore
     DEF SessionStep, Create, Connect, TakeSet, Begin, Deal, Finish, Leave, Sweep, Session
<1>8. ASSUME NEW p \in Savers, NEW edit \in Edits, LoadFile(p, edit)
      PROVE  SaveInv'
  <2> SUFFICES ASSUME ~overlapped'
               PROVE  SaveInv'
    BY DEF SaveInv
  <2>1. ~overlapped /\ \A q \in Savers : SaverIs(q, "idle")
    BY <1>8 DEF LoadFile
  <2>2. Matches'
    BY <1>8, <2>1 DEF LoadFile, SaveInv, Unswitched, Switching, SaverIs,
                      Matches, SetMatches, TTLMatches
  <2>3. \A q \in Savers : q # p => SaverIs(q, "idle")'
    BY <1>8, <2>1 DEF LoadFile, SaverIs
  <2>4. SaverIs(p, "loaded")'
    BY <1>8 DEF LoadFile, SaverIs, IdleSaver
  <2>5. \A q \in Savers : Progress(q)'
    BY <2>3, <2>4 DEF Progress, SaverIs, Switching, Building
  <2>6. QED
    BY <2>2, <2>3, <2>5 DEF SaveInv, Alone
<1>9. ASSUME NEW p \in Savers,
             \/ WriteTemp(p) \/ FailWrite(p) \/ Rename(p) \/ Compare(p) \/ EndAll(p)
             \/ \E s \in Sessions : EndOne(p, s)
             \/ SetConfig(p) \/ SetTTL(p) \/ StoreSet(p)
      PROVE  SaveInv'
  <2> SUFFICES ASSUME ~overlapped'
               PROVE  SaveInv'
    BY DEF SaveInv
  <2>0. UNCHANGED overlapped
    BY <1>9 DEF WriteTemp, FailWrite, Rename, Compare, EndAll, EndOne, SetConfig, SetTTL,
                StoreSet
  <2>1. ~overlapped /\ ~SaverIs(p, "idle")
    BY <1>9, <2>0 DEF WriteTemp, FailWrite, Rename, Compare, EndAll, EndOne, SetConfig, SetTTL,
                      StoreSet, SaverIs
  <2>2. \A q \in Savers : q # p => saver'[q] = saver[q]
    BY <1>9 DEF WriteTemp, FailWrite, Rename, Compare, EndAll, EndOne, SetConfig, SetTTL,
                StoreSet, Goes
  <2>3. Progress(p) /\ (~Switching(p) => Matches)
    <3>1. \A q \in Savers : q # p => SaverIs(q, "idle")
      BY <2>1 DEF SaveInv, Alone
    <3>2. QED
      BY <2>1, <3>1 DEF SaveInv, Unswitched, Switching, SaverIs
  <2>4. CASE WriteTemp(p) \/ Rename(p)
    <3>1. saver'[p].pc \in {"synced", "renamed"} /\ saver[p].pc \in {"loaded", "synced"}
      BY <2>4, MovesOn DEF WriteTemp, Rename, Goes, SaverIs
    <3>2. UNCHANGED <<cfg, ttl, set>>
      BY <2>4 DEF WriteTemp, Rename
    <3>3. Progress(p)' /\ (~Switching(p) => Matches)'
      BY <2>3, <3>1, <3>2 DEF Progress, Switching, SaverIs, Building, Matches, SetMatches, TTLMatches
    <3>4. QED
      BY <2>1, <2>2, <3>3, OneSaveMoves
  <2>5. CASE FailWrite(p) \/ StoreSet(p)
    <3>1. SaverIs(p, "idle")'
      BY <2>5 DEF FailWrite, StoreSet, SaverIs, IdleSaver
    <3>2. Matches'
      BY <2>3, <2>5 DEF FailWrite, StoreSet, Progress, Switching, SaverIs, Building,
                        Matches, SetMatches, TTLMatches
    <3>3. Progress(p)'
      BY <3>1 DEF Progress, Switching, SaverIs, Building
    <3>4. QED
      BY <2>1, <2>2, <3>2, <3>3, OneSaveMoves
  <2>6. CASE Compare(p)
    <3>1. Matches /\ UNCHANGED <<cfg, ttl, set>>
      BY <2>3, <2>6 DEF Compare, Switching, SaverIs
    <3>2. Matches'
      BY <3>1 DEF Matches, SetMatches, TTLMatches
    <3>3. CASE saver[p].next.sources # cfg.sources
      <4>1. PICK g \in Gens :
              saver' = [saver EXCEPT ![p].pc = "built",
                                     ![p].set = NewSet(g, saver[p].next.sources)]
        BY <2>6, <3>3 DEF Compare, Free
      <4>2. /\ saver'[p].pc = "built" /\ saver'[p].next = saver[p].next
            /\ saver'[p].set.sources = saver[p].next.sources
        BY <4>1 DEF SaverType, NewSet
      <4>3. Progress(p)'
        BY <4>2 DEF Progress, Switching, SaverIs, Building
      <4>4. QED
        BY <2>1, <2>2, <3>2, <4>3, OneSaveMoves
    <3>4. CASE saver[p].next.sources = cfg.sources
      <4>1. CASE saver[p].next.ttl # cfg.ttl
        <5>1. saver' = [saver EXCEPT ![p].pc = "config"]
          BY <2>6, <3>4, <4>1 DEF Compare
        <5>2. saver'[p].pc = "config" /\ saver'[p].next = saver[p].next
          BY <5>1, MovesOn
        <5>3. Progress(p)'
          BY <3>1, <3>4, <5>2 DEF Progress, Switching, SaverIs, Building
        <5>4. QED
          BY <2>1, <2>2, <3>2, <5>3, OneSaveMoves
      <4>2. CASE saver[p].next.ttl = cfg.ttl
        <5>1. SaverIs(p, "idle")'
          BY <2>6, <3>4, <4>2 DEF Compare, SaverIs, IdleSaver
        <5>2. Progress(p)'
          BY <5>1 DEF Progress, Switching, SaverIs, Building
        <5>3. QED
          BY <2>1, <2>2, <3>2, <5>2, OneSaveMoves
      <4>3. QED
        BY <4>1, <4>2
    <3>5. QED
      BY <3>3, <3>4
  <2>7. CASE EndAll(p) \/ \E s \in Sessions : EndOne(p, s)
    <3>1. /\ saver'[p].pc = "ending" /\ saver[p].pc \in {"built", "ending"}
          /\ saver'[p].next = saver[p].next /\ saver'[p].set = saver[p].set
      <4>1. CASE EndAll(p)
        BY <4>1 DEF EndAll, SaverIs, SaverType
      <4>2. ASSUME NEW s \in Sessions, EndOne(p, s)
            PROVE  /\ saver'[p].pc = "ending" /\ saver[p].pc = "ending"
                   /\ saver'[p].next = saver[p].next /\ saver'[p].set = saver[p].set
        BY <4>2 DEF EndOne, SaverIs, SaverType
      <4>3. QED
        BY <2>7, <4>1, <4>2
    <3>2. UNCHANGED <<cfg, ttl, set>>
      BY <2>7 DEF EndAll, EndOne
    <3>3. Progress(p)' /\ (~Switching(p) => Matches)'
      BY <2>3, <3>1, <3>2 DEF Progress, Switching, SaverIs, Building, Matches, SetMatches, TTLMatches
    <3>4. QED
      BY <2>1, <2>2, <3>3, OneSaveMoves
  <2>8. CASE SetConfig(p)
    <3>1. PICK pc \in {"ttl", "ttl, then store"} :
            /\ saver' = [saver EXCEPT ![p].pc = pc]
            /\ saver[p].pc = IF pc = "ttl" THEN "config" ELSE "ending"
      BY <2>8 DEF SetConfig, Goes, SaverIs
    <3>2. /\ saver'[p].pc = pc
          /\ saver'[p].next = saver[p].next /\ saver'[p].set = saver[p].set
      BY <3>1, MovesOn
    <3>3. cfg' = saver[p].next /\ set' = set
      BY <2>8 DEF SetConfig
    <3>4. Progress(p)' /\ Switching(p)'
      BY <2>3, <3>1, <3>2, <3>3
         DEF Progress, Switching, SaverIs, Building, Matches, SetMatches, TTLMatches
    <3>5. QED
      BY <2>1, <2>2, <3>4, OneSaveMoves
  <2>9. CASE SetTTL(p)
    <3>1. cfg = saver[p].next /\ UNCHANGED <<cfg, set>> /\ TTLMatches'
      BY <2>3, <2>9 DEF SetTTL, Progress, Switching, TTLMatches
    <3>2. CASE SaverIs(p, "ttl")
      <4>1. SaverIs(p, "idle")' /\ SetMatches
        BY <2>3, <2>9, <3>2 DEF SetTTL, SaverIs, IdleSaver, Progress
      <4>2. Matches'
        BY <3>1, <4>1 DEF Matches, SetMatches
      <4>3. Progress(p)'
        BY <4>1 DEF Progress, Switching, SaverIs, Building
      <4>4. QED
        BY <2>1, <2>2, <4>2, <4>3, OneSaveMoves
    <3>3. CASE SaverIs(p, "ttl, then store")
      <4>1. saver' = [saver EXCEPT ![p].pc = "store"]
        BY <2>9, <3>3 DEF SetTTL, SaverIs
      <4>2. /\ saver'[p].pc = "store"
            /\ saver'[p].next = saver[p].next /\ saver'[p].set = saver[p].set
        BY <4>1, MovesOn
      <4>3. Progress(p)' /\ Switching(p)'
        BY <2>3, <3>1, <3>3, <4>2 DEF Progress, Switching, SaverIs, Building
      <4>4. QED
        BY <2>1, <2>2, <4>3, OneSaveMoves
    <3>4. QED
      BY <2>9, <3>2, <3>3 DEF SetTTL, SaverIs
  <2>10. QED
    BY <1>9, <2>4, <2>5, <2>6, <2>7, <2>8, <2>9
<1>10. QED
  BY <1>1, <1>2, <1>3, <1>4, <1>5, <1>6, <1>7, <1>8, <1>9 DEF Next, SessionStep

----------------------------------------------------------------------------
(***************************************************************************)
(* Sessions against reloads, any number of which may overlap.              *)
(***************************************************************************)

LEMMA SessionsAsBefore ==
  ASSUME DealInv, sess' = sess,
         \A p \in Savers, s \in Sessions : PassedBy(p, s)' /\ sess[s].stored => PassedBy(p, s)
  PROVE  DealInv'
  BY DEF DealInv, SessionInv, GoesOn

LEMMA OneSessionMoves ==
  ASSUME DealInv, saver' = saver, NEW s \in Sessions, SessionInv(s)',
         \A t \in Sessions : t # s => sess'[t] = sess[t]
  PROVE  DealInv'
<1>1. ASSUME NEW t \in Sessions, t # s
      PROVE  SessionInv(t)'
  BY <1>1 DEF DealInv, SessionInv, GoesOn, PassedBy, SaverIs
<1>2. QED
  BY <1>1 DEF DealInv

LEMMA SessionStepKeepsDeals ==
  ASSUME ReloadTypes, DealInv, NEW s \in Sessions, SessionStep(s)
  PROVE  DealInv'
<1> USE DEF Session
<1>1. saver' = saver /\ SessionInv(s) /\ sess[s] \in SessionType
  BY DEF SessionStep, Create, Connect, TakeSet, Begin, Deal, Finish, Leave, Sweep,
         DealInv, ReloadTypes, ActorTypes
<1>2. sess \in [Sessions -> SessionType]
  BY DEF ReloadTypes, ActorTypes
<1>3. \A t \in Sessions : t # s => sess'[t] = sess[t]
  BY <1>2 DEF SessionStep, Create, Connect, TakeSet, Begin, Deal, Finish, Leave, Sweep
<1>4. \A p \in Savers : PassedBy(p, s)' <=> PassedBy(p, s)
  BY <1>1 DEF PassedBy, SaverIs
<1>5. SessionInv(s)'
  <2> USE <1>1, <1>2, <1>4 DEF SessionInv, GoesOn, SessionType
  <2>1. CASE Create(s)
    BY <2>1 DEF Create, NoSession
  <2>2. CASE Connect(s)
    BY <2>2 DEF Connect
  <2>3. CASE TakeSet(s)
    <3>1. \A p \in Savers : PassedBy(p, s) => Reloading
      BY DEF PassedBy, Reloading, SaverIs
    <3>2. QED
      BY <2>3, <3>1 DEF TakeSet
  <2>4. CASE Begin(s)
    BY <2>4 DEF Begin
  <2>5. CASE Deal(s)
    BY <2>5 DEF Deal
  <2>6. CASE Finish(s)
    BY <2>6 DEF Finish
  <2>7. CASE Leave(s)
    BY <2>7 DEF Leave, NoSession
  <2>8. CASE Sweep(s)
    BY <2>8 DEF Sweep, NoSession
  <2>9. QED
    BY <2>1, <2>2, <2>3, <2>4, <2>5, <2>6, <2>7, <2>8 DEF SessionStep
<1>6. QED
  BY <1>1, <1>3, <1>5, OneSessionMoves

LEMMA DealInvPreserved ==
  ASSUME ReloadTypes, DealInv, [Next]_vars
  PROVE  DealInv'
<1> USE DEF ReloadTypes, ActorTypes, diskVars, liveVars, setVars
<1>1. CASE Crash \/ PowerLoss
  BY <1>1 DEF Crash, PowerLoss, Die, DealInv, SessionInv, GoesOn, NoSession
<1>2. ASSUME UNCHANGED <<saver, sess>>
      PROVE  DealInv'
  BY <1>2, SessionsAsBefore DEF PassedBy, SaverIs
<1>3. ASSUME NEW p \in Savers, (\E edit \in Edits : LoadFile(p, edit)) \/ FailWrite(p)
      PROVE  DealInv'
  <2>1. saver'[p].pc \in {"loaded", "idle"}
    <3>1. CASE \E edit \in Edits : LoadFile(p, edit)
      BY <3>1 DEF LoadFile, IdleSaver
    <3>2. CASE FailWrite(p)
      BY <3>2 DEF FailWrite, IdleSaver
    <3>3. QED
      BY <1>3, <3>1, <3>2
  <2>2. sess' = sess /\ \A q \in Savers : q # p => saver'[q] = saver[q]
    BY <1>3 DEF LoadFile, FailWrite
  <2>3. QED
    BY <2>1, <2>2, SessionsAsBefore DEF PassedBy, SaverIs
<1>4. ASSUME NEW p \in Savers, WriteTemp(p) \/ Rename(p)
      PROVE  DealInv'
  <2>1. sess' = sess /\ saver'[p].pc \in {"synced", "renamed"}
    BY <1>4, MovesOn DEF WriteTemp, Rename, Goes
  <2>2. \A q \in Savers : q # p => saver'[q] = saver[q]
    BY <1>4 DEF WriteTemp, Rename, Goes
  <2>3. QED
    BY <2>1, <2>2, SessionsAsBefore DEF PassedBy, SaverIs
<1>5. ASSUME NEW p \in Savers, Compare(p)
      PROVE  DealInv'
  <2>1. sess' = sess /\ \A q \in Savers : q # p => saver'[q] = saver[q]
    BY <1>5 DEF Compare
  <2>2. saver'[p].pc \in {"built", "config", "idle"}
    BY <1>5 DEF Compare, IdleSaver, SaverType
  <2>3. QED
    BY <2>1, <2>2, SessionsAsBefore DEF PassedBy, SaverIs
<1>6. ASSUME NEW p \in Savers, EndAll(p)
      PROVE  DealInv'
  <2>1. sess' = sess /\ \A q \in Savers : q # p => saver'[q] = saver[q]
    BY <1>6 DEF EndAll
  <2>2. saver'[p].pc = "ending" /\ saver'[p].todo = {s \in Sessions : sess[s].stored}
    BY <1>6 DEF EndAll, SaverType
  <2>3. QED
    BY <2>1, <2>2, SessionsAsBefore DEF PassedBy, SaverIs
<1>7. ASSUME NEW p \in Savers, NEW s \in Sessions, EndOne(p, s)
      PROVE  DealInv'
  <2>1. \A q \in Savers : q # p => saver'[q] = saver[q]
    BY <1>7 DEF EndOne
  <2>2. /\ SaverIs(p, "ending") /\ saver'[p].pc = "ending"
        /\ saver'[p].todo = saver[p].todo \ {s}
    BY <1>7 DEF EndOne, SaverIs, SaverType
  <2>3. \A q \in Savers, t \in Sessions : t # s => (PassedBy(q, t)' <=> PassedBy(q, t))
    BY <2>1, <2>2 DEF PassedBy, SaverIs
  <2>4. \A t \in Sessions : t # s => sess'[t] = sess[t]
    BY <1>7 DEF EndOne
  <2>5. ASSUME NEW t \in Sessions, t # s
        PROVE  SessionInv(t)'
    BY <2>3, <2>4, <2>5 DEF DealInv, SessionInv, GoesOn
  <2>6. SessionInv(s)'
    <3>1. SessionInv(s) /\ sess[s] \in SessionType
      BY DEF DealInv
    <3>2. CASE sess[s].status \in {"lobby", "active"}
      BY <1>7, <3>1, <3>2 DEF EndOne, SessionInv, GoesOn, SessionType
    <3>3. CASE sess[s].status \notin {"lobby", "active"}
      BY <1>7, <3>1, <3>3 DEF EndOne, SessionInv, GoesOn, SessionType
    <3>4. QED
      BY <3>2, <3>3
  <2>7. QED
    BY <2>5, <2>6 DEF DealInv
<1>8. ASSUME NEW p \in Savers, SetConfig(p) \/ SetTTL(p)
      PROVE  DealInv'
  <2>1. sess' = sess /\ \A q \in Savers : q # p => saver'[q] = saver[q]
    BY <1>8 DEF SetConfig, SetTTL, Goes
  <2>2. \/ saver'[p].pc \in {"ttl", "idle"}
        \/ SaverIs(p, "ending") /\ saver[p].todo = {}
        \/ SaverIs(p, "ttl, then store")
    <3>1. CASE SetConfig(p)
      <4>1. PICK pc \in {"ttl", "ttl, then store"} :
              /\ saver' = [saver EXCEPT ![p].pc = pc]
              /\ pc = "ttl" \/ (SaverIs(p, "ending") /\ saver[p].todo = {})
        BY <3>1 DEF SetConfig, Goes
      <4>2. saver'[p].pc = pc
        BY <4>1, MovesOn
      <4>3. QED
        BY <4>1, <4>2
    <3>2. CASE SetTTL(p)
      BY <3>2 DEF SetTTL, SaverIs, IdleSaver
    <3>3. QED
      BY <1>8, <3>1, <3>2
  <2>3. QED
    BY <2>1, <2>2, SessionsAsBefore DEF PassedBy, SaverIs
<1>9. ASSUME NEW p \in Savers, StoreSet(p)
      PROVE  DealInv'
  <2>1. \A q \in Savers, t \in Sessions : PassedBy(q, t)' => PassedBy(q, t)
    BY <1>9 DEF StoreSet, PassedBy, SaverIs, IdleSaver
  <2>2. \A t \in Sessions : PassedBy(p, t)
    BY <1>9 DEF StoreSet, PassedBy, SaverIs
  <2>3. ASSUME NEW t \in Sessions
        PROVE  SessionInv(t)'
    <3>1. SessionInv(t) /\ sess[t] \in SessionType
      BY DEF DealInv
    <3>2. sess'[t] = IF sess[t].from = "live" THEN [sess[t] EXCEPT !.from = "old"] ELSE sess[t]
      BY <1>9 DEF StoreSet
    <3>3. QED
      BY <2>1, <2>2, <3>1, <3>2 DEF SessionInv, GoesOn, SessionType
  <2>4. QED
    BY <2>3 DEF DealInv
<1>10. ASSUME NEW s \in Sessions, SessionStep(s)
       PROVE  DealInv'
  BY <1>10, SessionStepKeepsDeals
<1>11. CASE Start \/ ReadToken \/ WriteToken \/ UNCHANGED vars
  BY <1>2, <1>11 DEF Start, ReadToken, WriteToken, vars
<1>12. ASSUME NEW a \in Askers,
              \/ LoadSet(a) \/ Lock(a) \/ FailResolve(a) \/ Publish(a) \/ Answer(a)
              \/ \E id \in IDs : Resolve(a, id)
       PROVE  DealInv'
  BY <1>2, <1>12 DEF LoadSet, Lock, FailResolve, Resolve, Publish, Answer
<1>13. ASSUME NEW g \in Gens, Forgive(g)
       PROVE  DealInv'
  BY <1>2, <1>13 DEF Forgive
<1>14. QED
  BY <1>1, <1>3, <1>4, <1>5, <1>6, <1>7, <1>8, <1>9, <1>10, <1>11, <1>12, <1>13
     DEF Next, SessionStep

----------------------------------------------------------------------------
(***************************************************************************)
(* The theorems.                                                           *)
(***************************************************************************)

IInv == ReloadTypes /\ DiskInv /\ LockInv /\ SaveInv /\ DealInv

LEMMA InitIInv == Init => IInv
<1> SUFFICES ASSUME Init
             PROVE  IInv
  OBVIOUS
<1>1. SaveInv
  BY DEF Init, SaveInv, Alone, Matches, SetMatches, TTLMatches, Progress, Switching, SaverIs,
         Building, IdleSaver, NewSet, Defaults
<1>2. DealInv
  BY DEF Init, DealInv, SessionInv, GoesOn, NoSession
<1>3. QED
  BY <1>1, <1>2, InitTypes DEF IInv

LEMMA IInvInvariant == Spec => []IInv
<1>1. IInv /\ [Next]_vars => IInv'
  BY TypesPreserved, DiskInvPreserved, LockInvPreserved, SaveInvPreserved, DealInvPreserved
     DEF IInv
<1>2. QED
  BY InitIInv, <1>1, PTL DEF Spec

\* Every variable keeps its type, and a lock is held by a request that is
\* resolving the set it belongs to.
THEOREM ReloadTypeCorrect == Spec => []ReloadTypeOK
<1>1. IInv => ReloadTypeOK
  BY DEF IInv, ReloadTypes, DiskTypes, LiveTypes, LockInv, AskerIs, ReloadTypeOK
<1>2. QED
  BY IInvInvariant, <1>1, PTL

\* A set's names are resolved once, whoever asks, fails or gives up meanwhile.
THEOREM NamesResolveOnce == Spec => []OneAnswerPerSet
<1>1. IInv => OneAnswerPerSet
  <2> SUFFICES ASSUME IInv
               PROVE  OneAnswerPerSet
    OBVIOUS
  <2> DEFINE Holds == {set} \cup {asker[a].set : a \in {a \in Askers : asker[a].pc \in {"resolved", "serving"}}}
  <2>1. ASSUME NEW x \in Holds, x.id # None
        PROVE  x.id = lazy[x.gen].id
    BY <2>1 DEF IInv, LockInv, Resolved, Lazy
  <2>2. QED
    BY <2>1 DEF OneAnswerPerSet
<1>2. QED
  BY IInvInvariant, <1>1, PTL

\* Without overlapping saves, what runs is built from what was saved.
THEOREM WhatIsSavedRuns == Spec => []RunsWhatTheFileSays
<1>1. IInv => RunsWhatTheFileSays
  BY DEF IInv, SaveInv, Unswitched, Switching, SaverIs, Matches, SetMatches, TTLMatches,
         RunsWhatTheFileSays
<1>2. QED
  BY IInvInvariant, <1>1, PTL

\* No session goes on with the sources of an older configuration, but a late one,
\* however many reloads overlap.
THEOREM OnlyTheLateDealFromOldSources == Spec => []DealsFromLiveSources
<1>1. IInv => DealsFromLiveSources
  BY DEF IInv, DealInv, SessionInv, GoesOn, DealsFromLiveSources
<1>2. QED
  BY IInvInvariant, <1>1, PTL

\* Through any crashes, and with any saves in progress, the file stays one that
\* loads, its settings are those of a save, and its token stays.
THEOREM FileAlwaysSurvives == Spec => FileSurvives
<1> DEFINE Survives ==
      proc # "down" =>
        /\ file' # Torn
        /\ SettingsOf(file') # SettingsOf(file) =>
             \/ \E p \in Savers : SaverIs(p, "synced") /\ saver[p].next = SettingsOf(file')
             \/ proc = "blind"
        /\ HasToken(file) => HasToken(file')
        /\ HasToken(file') /\ ~HasToken(file) => proc \in {"reading", "blind"}
<1>1. IInv /\ [Next]_vars => [Survives]_vars
  <2> SUFFICES ASSUME IInv, [Next]_vars
               PROVE  Survives
    OBVIOUS
  <2>1. ReloadTypes' /\ file' # Torn
    BY TypesPreserved DEF IInv, ReloadTypes, DiskTypes
  <2>2. CASE file' = file
    BY <2>1, <2>2
  <2>3. CASE WriteToken
    <3>1. /\ proc \in {"reading", "blind"}
          /\ \/ UNCHANGED file
             \/ file' = [settings |-> IF proc = "blind" THEN Defaults ELSE SettingsOf(file),
                         token |-> TRUE]
      BY <2>3 DEF WriteToken, diskVars
    <3>2. file' # file => file' # NoFile /\ HasToken(file')
      <4> SUFFICES ASSUME file' # file
                   PROVE  file' # NoFile /\ HasToken(file')
        OBVIOUS
      <4>1. PICK theSettings \in Settings : file' = [settings |-> theSettings, token |-> TRUE]
        BY <3>1, ConstantsTyped, SettingsOfTyped DEF IInv, ReloadTypes, DiskTypes
      <4>2. ASSUME NEW t \in BOOLEAN
            PROVE  [settings |-> theSettings, token |-> t] # NoFile
        BY FilesAssumption
      <4>3. QED
        BY <4>1, <4>2 DEF HasToken
    <3>3. file' # file /\ proc = "reading" => SettingsOf(file') = SettingsOf(file)
      BY <3>1, <3>2 DEF SettingsOf
    <3>4. QED
      BY <2>1, <3>1, <3>2, <3>3
  <2>4. ASSUME NEW p \in Savers, Rename(p)
        PROVE  Survives
    <3>1. SaverIs(p, "synced") /\ file' = [settings |-> saver[p].next, token |-> saver[p].token]
      BY <2>4 DEF Rename
    <3>2. saver[p].next \in Settings /\ saver[p].token \in BOOLEAN
      BY DEF IInv, ReloadTypes, ActorTypes, SaverType
    <3>3. file' # NoFile
      BY <3>1, <3>2, FilesAssumption
    <3>4. SettingsOf(file') = saver[p].next /\ (HasToken(file') <=> saver[p].token)
      BY <3>1, <3>3 DEF SettingsOf, HasToken
    <3>5. saver[p].token <=> HasToken(file)
      BY <3>1 DEF IInv, DiskInv, SaverIs
    <3>6. QED
      BY <2>1, <3>1, <3>4, <3>5
  <2>5. PowerLoss => file' = file
    BY DEF PowerLoss, IInv, ReloadTypes, DiskTypes
  <2>6. QED
    BY <2>2, <2>3, <2>4, <2>5
       DEF Next, Start, ReadToken, Crash, LoadFile, WriteTemp, FailWrite, Compare, EndAll,
           EndOne, SetConfig, SetTTL, StoreSet, LoadSet, Lock, FailResolve, Resolve, Publish,
           Answer, Forgive, Session, Create, Connect, TakeSet, Begin, Deal, Finish, Leave,
           Sweep, diskVars, vars
<1>2. QED
  BY IInvInvariant, <1>1, PTL DEF Spec, FileSurvives

=============================================================================
