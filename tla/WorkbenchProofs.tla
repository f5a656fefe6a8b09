---------------------------- MODULE WorkbenchProofs ----------------------------
(***************************************************************************)
(* Proofs about the part of a browser tab in which queries are written:    *)
(* the workbench with its path and its databases, the tabs of the editors  *)
(* and the runs of an editor, for any number of servers, databases, tabs,  *)
(* reloads, requests and runs.                                             *)
(*                                                                         *)
(* As in BrowserTabProofs, what is shown follows from an inductive         *)
(* invariant of each part (BenchInv, EditorsInv, RunsInv), which holds in  *)
(* the tab as its steps are steps of the part or leave it as it was.       *)
(***************************************************************************)
EXTENDS BrowserTabProofs

-----------------------------------------------------------------------------
(* The workbench                                                           *)

Benches ==
    [route : Server \cup {NoServer}, db : Db \cup {NoDb}, seen : Db \cup {NoDb},
     known : BOOLEAN, activeDbServerId : Server \cup {NoServer},
     dbIndexLoadState : Bench!LoadState, databaseIndex : [Server -> Bench!Names],
     activeDatabase : [Server -> Db \cup {NoDb}],
     maps : SUBSET Server, databases : [Server -> [Db -> Bench!Held]], out : SUBSET Bench!Request]

\* What the reactions of the stores leave as it is, and what they may only add to.
SamePath(b, c) ==
    /\ c.route = b.route /\ c.db = b.db /\ c.known = b.known
    /\ c.activeDbServerId = b.activeDbServerId /\ c.databaseIndex = b.databaseIndex
SameActive(b, c) == c.activeDatabase = b.activeDatabase /\ c.maps = b.maps /\ c.seen = b.seen
StillHeld(b, c) ==
    \A s \in Server, d \in Db : b.databases[s][d] # "none" => c.databases[s][d] # "none"

\* A server with an active database has a map, unless it was closed.
MapsKept(b, closed) == \A s \in Server \ closed : b.activeDatabase[s] # NoDb => s \in b.maps
ActiveHeld(b, closed) ==
    LET s == b.activeDbServerId IN
    Bench!ActiveFound(b) /\ s \notin closed /\ b.activeDatabase[s] # NoDb =>
        b.databases[s][b.activeDatabase[s]] # "none"
NameSeen(b) == b.route # NoServer => b.seen = Bench!DbName(b)

LEMMA DbNames == \A b \in Benches : Bench!DbName(b) \in Db \cup {NoDb}
<1> SUFFICES ASSUME NEW b \in Benches PROVE Bench!DbName(b) \in Db \cup {NoDb}
    OBVIOUS
<1>1. /\ b.db \in Db \cup {NoDb} /\ b.known \in BOOLEAN
      /\ b.activeDbServerId \in Server \cup {NoServer} /\ b.databaseIndex \in [Server -> Bench!Names]
    BY DEF Benches
<1>2. ASSUME NEW s \in Server PROVE Bench!DefaultDatabaseName(b, s) \in Db \cup {NoDb}
    <2>1. InitDb[s] \in Db \cup {NoDb}
        BY TabAssumption DEF Bench!WorkbenchAssumption
    <2>2. b.databaseIndex[s].names \in SUBSET Db
        BY <1>1 DEF Bench!Names
    <2>3. b.databaseIndex[s].names # {} =>
              (CHOOSE d \in b.databaseIndex[s].names : TRUE) \in b.databaseIndex[s].names
        OBVIOUS
    <2>4. QED BY <1>1, <2>1, <2>2, <2>3 DEF Bench!DefaultDatabaseName
<1>3. QED BY <1>1, <1>2 DEF Bench!DbName, Bench!ActiveFound

\* The name depends on the path, the active server and the index.
LEMMA SameName ==
    ASSUME NEW b, NEW c, SamePath(b, c)
    PROVE  Bench!DbName(c) = Bench!DbName(b) /\ Bench!ActiveFound(c) = Bench!ActiveFound(b)
<1>1. Bench!ActiveFound(c) = Bench!ActiveFound(b)
    BY DEF SamePath, Bench!ActiveFound
<1>2. \A s : Bench!DefaultDatabaseName(c, s) = Bench!DefaultDatabaseName(b, s)
    BY DEF SamePath, Bench!DefaultDatabaseName
<1>3. QED BY <1>1, <1>2 DEF SamePath, Bench!DbName

Loads(b, c) == c \in Benches /\ SamePath(b, c) /\ SameActive(b, c) /\ StillHeld(b, c)

LEMMA BenchSends ==
    ASSUME NEW b \in Benches, NEW kind \in Bench!Kind, NEW s \in Server, NEW d \in Db \cup {NoDb},
           NEW here \in BOOLEAN
    PROVE  /\ Loads(b, Bench!Send(b, kind, s, d, here))
           /\ Bench!Send(b, kind, s, d, here).databases = b.databases
<1> DEFINE r == [kind |-> kind, server |-> s, db |-> d, here |-> here]
           c == [b EXCEPT !.out = @ \cup {r}]
<1>1. r \in Bench!Request
    BY DEF Bench!Request
<1>2. b.out \cup {r} \in SUBSET Bench!Request
    BY <1>1 DEF Benches
<1>3. c \in Benches
    BY <1>2 DEF Benches
<1>4. SamePath(b, c) /\ SameActive(b, c) /\ c.databases = b.databases
    BY DEF Benches, SamePath, SameActive
<1>5. QED BY <1>3, <1>4 DEF Loads, StillHeld, Bench!Send

LEMMA IndexLoads ==
    ASSUME NEW old \in Benches, NEW b \in Benches
    PROVE  Loads(b, Bench!DbIndexLoader(old, b))
           /\ Bench!DbIndexLoader(old, b).databases = b.databases
<1> DEFINE loading == [b EXCEPT !.dbIndexLoadState = "loading"]
           s == b.activeDbServerId
<1>1. CASE s \in {old.activeDbServerId, NoServer}
    BY <1>1 DEF Loads, SamePath, SameActive, StillHeld, Bench!DbIndexLoader
<1>2. CASE s \notin {old.activeDbServerId, NoServer}
    <2>1. s \in Server
        BY <1>2 DEF Benches
    <2>2. loading \in Benches
        BY DEF Benches, Bench!LoadState
    <2>3. SamePath(b, loading) /\ SameActive(b, loading) /\ loading.databases = b.databases
        BY DEF Benches, SamePath, SameActive
    <2>4. CASE b.databaseIndex[s].loaded
        <3>1. Bench!DbIndexLoader(old, b) = b
            BY <1>2, <2>4 DEF Bench!DbIndexLoader, Bench!LoadDatabaseIndex
        <3>2. QED BY <3>1 DEF Loads, SamePath, SameActive, StillHeld
    <2>5. CASE ~b.databaseIndex[s].loaded
        <3>1. Bench!DbIndexLoader(old, b) = Bench!Send(loading, "index", s, NoDb, TRUE)
            BY <1>2, <2>5 DEF Bench!DbIndexLoader, Bench!LoadDatabaseIndex
        <3>2. "index" \in Bench!Kind /\ NoDb \in Db \cup {NoDb}
            BY DEF Bench!Kind
        <3> HIDE DEF loading, s
        <3>3. /\ Loads(loading, Bench!Send(loading, "index", s, NoDb, TRUE))
              /\ Bench!Send(loading, "index", s, NoDb, TRUE).databases = loading.databases
            BY <2>1, <2>2, <3>2, BenchSends
        <3>4. QED BY <2>3, <3>1, <3>3 DEF Loads, SamePath, SameActive, StillHeld
    <2>6. QED BY <2>4, <2>5
<1>3. QED BY <1>1, <1>2

\* A database that has become the active one is asked for, and is held if its server has a map.
LEMMA DbLoads ==
    ASSUME NEW old \in Benches, NEW b \in Benches
    PROVE  /\ Loads(b, Bench!CurrentDbLoader(old, b))
           /\ LET s == b.activeDbServerId IN
              Bench!ActiveFound(b) /\ Bench!ActiveDatabaseKey(b) # Bench!ActiveDatabaseKey(old)
              /\ s \in b.maps /\ b.activeDatabase[s] # NoDb =>
                  Bench!CurrentDbLoader(old, b).databases[s][b.activeDatabase[s]] # "none"
<1> DEFINE s == b.activeDbServerId
           d == b.activeDatabase[s]
           asks == /\ Bench!ActiveFound(b) /\ Bench!ActiveDatabaseKey(b) # Bench!ActiveDatabaseKey(old)
                   /\ d # NoDb /\ b.databases[s][d] = "none"
           there == IF s \in b.maps THEN [b EXCEPT !.databases[s][d] = "loading"] ELSE b
<1>1. Bench!CurrentDbLoader(old, b) = IF asks THEN Bench!Send(there, "load", s, d, s \in b.maps) ELSE b
    BY DEF Bench!CurrentDbLoader, Bench!LoadDatabase
<1>2. CASE ~asks
    <2>1. Bench!CurrentDbLoader(old, b) = b
        BY <1>1, <1>2
    <2>2. QED BY <1>2, <2>1 DEF Loads, SamePath, SameActive, StillHeld
<1>3. CASE asks
    <2>1. s \in Server /\ d \in Db
        BY <1>3 DEF Benches, Bench!ActiveFound
    <2>2. [b.databases EXCEPT ![s][d] = "loading"] \in [Server -> [Db -> Bench!Held]]
        <3>1. b.databases \in [Server -> [Db -> Bench!Held]] /\ "loading" \in Bench!Held
            BY DEF Benches, Bench!Held
        <3> HIDE DEF s, d
        <3>2. QED BY <2>1, <3>1
    <2>3. there \in Benches
        <3> DEFINE new == [b.databases EXCEPT ![s][d] = "loading"]
        <3>1. there = IF s \in b.maps THEN [b EXCEPT !.databases = new] ELSE b
            BY DEF Benches
        <3>2. new \in [Server -> [Db -> Bench!Held]]
            BY <2>2
        <3> HIDE DEF new, s, d, there
        <3>3. QED BY <3>1, <3>2 DEF Benches
    <2>4. /\ SamePath(b, there) /\ SameActive(b, there)
          /\ there.databases = IF s \in b.maps THEN [b.databases EXCEPT ![s][d] = "loading"] ELSE b.databases
        BY DEF Benches, SamePath, SameActive
    <2>5. StillHeld(b, there) /\ (s \in b.maps => there.databases[s][d] = "loading")
        <3>1. b.databases \in [Server -> [Db -> Bench!Held]]
            BY DEF Benches
        <3> HIDE DEF s, d, there
        <3>2. QED BY <2>1, <2>4, <3>1 DEF StillHeld
    <2>6. "load" \in Bench!Kind /\ d \in Db \cup {NoDb} /\ (s \in b.maps) \in BOOLEAN
        BY <2>1 DEF Bench!Kind
    <2> DEFINE here == s \in b.maps
               sent == Bench!Send(there, "load", s, d, here)
    <2>7. Loads(there, sent) /\ sent.databases = there.databases
        <3> HIDE DEF there, s, d, here
        <3>1. here \in BOOLEAN
            BY DEF here
        <3>2. QED BY <2>1, <2>3, <2>6, <3>1, BenchSends
    <2>8. Bench!CurrentDbLoader(old, b) = sent
        BY <1>1, <1>3
    <2> HIDE DEF there, sent
    <2>9. Loads(b, sent)
        BY <2>4, <2>5, <2>7 DEF Loads, SamePath, SameActive, StillHeld
    <2>10. s \in b.maps => sent.databases[s][d] # "none"
        BY <2>5, <2>7
    <2>11. QED BY <2>8, <2>9, <2>10
<1>4. QED BY <1>2, <1>3

\* The component makes the database active whose name has changed.
Turned(b, c) ==
    /\ Bench!ActiveFound(b) /\ b.route # NoServer /\ Bench!DbName(b) \notin {b.seen, NoDb}
    /\ c.activeDatabase = [b.activeDatabase EXCEPT ![b.activeDbServerId] = Bench!DbName(b)]
    /\ c.maps = b.maps \cup {b.activeDbServerId}

LEMMA Disposes ==
    ASSUME NEW b \in Benches
    PROVE  LET c == Bench!TableDisposer(b) IN
           /\ c \in Benches /\ SamePath(b, c) /\ c.databases = b.databases
           /\ (c.activeDatabase = b.activeDatabase /\ c.maps = b.maps) \/ Turned(b, c)
           /\ NameSeen(c)
<1> DEFINE name == Bench!DbName(b)
           named == [b EXCEPT !.seen = name]
           s == b.activeDbServerId
           c == Bench!TableDisposer(b)
           turned == [named EXCEPT !.activeDatabase[s] = name, !.maps = @ \cup {s}]
           turns == name \notin {b.seen, NoDb} /\ Bench!ActiveFound(b)
<1>1. name \in Db \cup {NoDb}
    BY DbNames
<1>2. c = IF b.route = NoServer THEN b ELSE IF turns THEN turned ELSE named
    BY DEF Bench!TableDisposer, Bench!SetActiveDatabase
<1> HIDE DEF name
<1>3. named \in Benches /\ SamePath(b, named) /\ named.databases = b.databases /\ named.seen = name
      /\ named.activeDatabase = b.activeDatabase /\ named.maps = b.maps
    BY <1>1 DEF Benches, SamePath
<1>4. CASE b.route = NoServer
    BY <1>2, <1>4 DEF SamePath, NameSeen
<1>5. CASE b.route # NoServer /\ ~turns
    <2>1. c = named
        BY <1>2, <1>5
    <2>2. Bench!DbName(named) = name
        BY <1>3, SameName DEF name
    <2> HIDE DEF named
    <2>3. QED BY <1>3, <2>1, <2>2 DEF NameSeen
<1>6. CASE b.route # NoServer /\ turns
    <2>1. c = turned
        BY <1>2, <1>6
    <2>2. s \in Server
        BY <1>6 DEF Benches, Bench!ActiveFound
    <2>3. /\ [named.activeDatabase EXCEPT ![s] = name] \in [Server -> Db \cup {NoDb}]
          /\ named.maps \cup {s} \in SUBSET Server
        <3>1. named.activeDatabase \in [Server -> Db \cup {NoDb}] /\ named.maps \in SUBSET Server
            BY <1>3 DEF Benches
        <3> HIDE DEF named, s
        <3>2. QED BY <1>1, <2>2, <3>1
    <2>4. turned = [named EXCEPT !.activeDatabase = [named.activeDatabase EXCEPT ![s] = name],
                                 !.maps = named.maps \cup {s}]
        <3> HIDE DEF named, s
        <3>1. QED BY <1>3 DEF Benches
    <2> HIDE DEF named, turned, s
    <2>5. turned \in Benches
        BY <1>3, <2>3, <2>4 DEF Benches
    <2>6. /\ SamePath(named, turned) /\ turned.databases = named.databases /\ turned.seen = named.seen
          /\ turned.activeDatabase = [named.activeDatabase EXCEPT ![s] = name]
          /\ turned.maps = named.maps \cup {s}
        BY <1>3, <2>4 DEF Benches, SamePath
    <2>7. SamePath(b, turned) /\ turned.databases = b.databases /\ turned.seen = name
        BY <1>3, <2>6 DEF SamePath
    <2>8. Bench!DbName(turned) = name
        BY <2>7, SameName DEF name
    <2>9. Turned(b, turned)
        BY <1>3, <1>6, <2>6 DEF Turned, name, s
    <2>10. QED BY <2>1, <2>5, <2>7, <2>8, <2>9 DEF NameSeen
<1>7. QED BY <1>4, <1>5, <1>6

BenchFit(b, closed) == b \in Benches /\ MapsKept(b, closed) /\ ActiveHeld(b, closed) /\ NameSeen(b)

LEMMA LoadsHold ==
    ASSUME NEW old \in Benches, NEW b \in Benches, NEW closed,
           MapsKept(b, closed), ActiveHeld(old, closed), StillHeld(old, b)
    PROVE  LET c == Bench!CurrentDbLoader(old, b) IN
           Loads(b, c) /\ MapsKept(c, closed) /\ ActiveHeld(c, closed)
<1> DEFINE c == Bench!CurrentDbLoader(old, b)
           s == b.activeDbServerId
           d == b.activeDatabase[s]
<1>1. Loads(b, c)
    BY DbLoads
<1>2. Bench!ActiveFound(b) /\ Bench!ActiveDatabaseKey(b) # Bench!ActiveDatabaseKey(old) /\ s \in b.maps /\ d # NoDb =>
          c.databases[s][d] # "none"
    BY DbLoads
<1> HIDE DEF c
<1>3. MapsKept(c, closed)
    BY <1>1 DEF Loads, SameActive, MapsKept
<1>4. c.activeDbServerId = s /\ c.activeDatabase[s] = d /\ (Bench!ActiveFound(c) = Bench!ActiveFound(b))
    BY <1>1, SameName DEF Loads, SameActive, SamePath
<1>5. ASSUME Bench!ActiveFound(b), s \notin closed, d # NoDb PROVE c.databases[s][d] # "none"
    <2>1. s \in Server /\ d \in Db
        BY <1>5 DEF Benches, Bench!ActiveFound
    <2>2. s \in b.maps
        BY <1>5, <2>1 DEF MapsKept
    <2>3. CASE Bench!ActiveDatabaseKey(b) = Bench!ActiveDatabaseKey(old)
        <3>1. Bench!ActiveDatabaseKey(b) = <<s, d>>
            BY <1>5 DEF Bench!ActiveDatabaseKey
        <3>2. Bench!ActiveFound(old)
            BY <2>3, <3>1 DEF Bench!ActiveDatabaseKey
        <3>3. old.activeDbServerId = s /\ old.activeDatabase[s] = d
            BY <2>3, <3>1, <3>2 DEF Bench!ActiveDatabaseKey
        <3>4. old.databases[s][d] # "none"
            BY <1>5, <3>2, <3>3 DEF ActiveHeld
        <3>5. b.databases[s][d] # "none"
            BY <2>1, <3>4 DEF StillHeld
        <3>6. QED BY <1>1, <2>1, <3>5 DEF Loads, StillHeld
    <2>4. QED BY <1>2, <1>5, <2>2, <2>3
<1>6. ActiveHeld(c, closed)
    BY <1>4, <1>5 DEF ActiveHeld
<1>7. QED BY <1>1, <1>3, <1>6 DEF c

LEMMA Stays ==
    ASSUME NEW a, NEW b, NEW c, SamePath(a, b), SamePath(b, c)
    PROVE  SamePath(a, c)
BY DEF SamePath

HeldKept(b, c) == c.activeDatabase = b.activeDatabase /\ c.maps = b.maps

LEMMA MapsStay ==
    ASSUME NEW b \in Benches, NEW c, NEW closed, MapsKept(b, closed), HeldKept(b, c) \/ Turned(b, c)
    PROVE  MapsKept(c, closed)
<1>1. CASE HeldKept(b, c)
    BY <1>1 DEF HeldKept, MapsKept
<1>2. CASE Turned(b, c)
    <2>1. b.activeDatabase \in [Server -> Db \cup {NoDb}]
        BY DEF Benches
    <2>2. QED BY <1>2, <2>1 DEF Turned, MapsKept
<1>3. QED BY <1>1, <1>2

Settling(b, c, closed) ==
    BenchFit(c, closed) /\ SamePath(b, c) /\ StillHeld(b, c) /\ (HeldKept(b, c) \/ Turned(b, c))

LEMMA Settles ==
    ASSUME NEW old \in Benches, NEW b \in Benches, NEW closed,
           MapsKept(b, closed), ActiveHeld(old, closed), StillHeld(old, b)
    PROVE  Settling(b, Bench!Settled(old, b), closed)
<1> DEFINE indexed == Bench!DbIndexLoader(old, b)
           loaded == Bench!CurrentDbLoader(old, indexed)
           turned == Bench!TableDisposer(loaded)
           c == Bench!CurrentDbLoader(loaded, turned)
<1>1. c = Bench!Settled(old, b)
    BY DEF Bench!Settled
<1>2. Loads(b, indexed) /\ indexed.databases = b.databases
    BY IndexLoads
<1> HIDE DEF indexed
<1>3. indexed \in Benches /\ MapsKept(indexed, closed) /\ StillHeld(old, indexed)
    BY <1>2 DEF Loads, SameActive, MapsKept, StillHeld
<1>4. Loads(indexed, loaded) /\ MapsKept(loaded, closed) /\ ActiveHeld(loaded, closed)
    BY <1>3, LoadsHold
<1> HIDE DEF loaded
<1>5. loaded \in Benches
    BY <1>4 DEF Loads
<1>6. /\ turned \in Benches /\ SamePath(loaded, turned) /\ turned.databases = loaded.databases
      /\ HeldKept(loaded, turned) \/ Turned(loaded, turned)
      /\ NameSeen(turned)
    BY <1>5, Disposes DEF HeldKept
<1> HIDE DEF turned
<1>7. MapsKept(turned, closed) /\ StillHeld(loaded, turned)
    <2>1. MapsKept(turned, closed)
        BY <1>4, <1>5, <1>6, MapsStay
    <2>2. QED BY <2>1, <1>6 DEF StillHeld
<1>8. Loads(turned, c) /\ MapsKept(c, closed) /\ ActiveHeld(c, closed)
    BY <1>4, <1>5, <1>6, <1>7, LoadsHold
<1> HIDE DEF c
<1>9. SamePath(b, loaded) /\ SamePath(b, c)
    BY <1>2, <1>4, <1>6, <1>8, Stays DEF Loads
<1>10. StillHeld(b, c)
    BY <1>2, <1>4, <1>7, <1>8 DEF Loads, StillHeld
<1>11. loaded.activeDatabase = b.activeDatabase /\ loaded.maps = b.maps /\ loaded.seen = b.seen
    BY <1>2, <1>4 DEF Loads, SameActive
<1>12. HeldKept(b, c) \/ Turned(b, c)
    <2>1. c.activeDatabase = turned.activeDatabase /\ c.maps = turned.maps
        BY <1>8 DEF Loads, SameActive
    <2>2. HeldKept(loaded, turned) => HeldKept(b, c)
        BY <1>11, <2>1 DEF HeldKept
    <2>3. Bench!DbName(loaded) = Bench!DbName(b) /\ (Bench!ActiveFound(loaded) = Bench!ActiveFound(b))
        BY <1>9, SameName
    <2>4. Turned(loaded, turned) => Turned(b, c)
        BY <1>9, <1>11, <2>1, <2>3 DEF Turned, SamePath
    <2>5. QED BY <1>6, <2>2, <2>4
<1>13. NameSeen(c)
    <2>1. Bench!DbName(c) = Bench!DbName(turned) /\ c.route = turned.route /\ c.seen = turned.seen
        BY <1>8, SameName DEF Loads, SamePath, SameActive
    <2>2. QED BY <1>6, <2>1 DEF NameSeen
<1>14. c \in Benches
    BY <1>8 DEF Loads
<1>15. QED BY <1>1, <1>8, <1>9, <1>10, <1>12, <1>13, <1>14 DEF Settling, BenchFit

\* The path is changed while the workbench is shown, or it is opened with that path.
LEMMA Routes ==
    ASSUME NEW b \in Benches, NEW s \in Server, NEW d \in Db \cup {NoDb}, NEW closed,
           MapsKept(b, closed), ActiveHeld(b, closed)
    PROVE  LET c == Bench!Routed(b, s, d) IN
           BenchFit(c, closed) /\ c.route = s /\ c.activeDbServerId = IF s # b.route THEN s ELSE b.activeDbServerId
<1> DEFINE there == [b EXCEPT !.route = s, !.db = d]
           active == IF s # b.route THEN [there EXCEPT !.activeDbServerId = s] ELSE there
           turned == Bench!TableDisposer(active)
           indexed == Bench!DbIndexLoader(b, turned)
           c == Bench!CurrentDbLoader(b, indexed)
<1>1. c = Bench!Routed(b, s, d)
    BY DEF Bench!Routed
<1>2. there \in Benches /\ there.activeDbServerId = b.activeDbServerId /\ there.activeDatabase = b.activeDatabase
      /\ there.maps = b.maps /\ there.databases = b.databases /\ there.route = s
    BY DEF Benches
<1> HIDE DEF there
<1>3. /\ active \in Benches /\ active.route = s /\ active.activeDatabase = b.activeDatabase
      /\ active.maps = b.maps /\ active.databases = b.databases
      /\ active.activeDbServerId = IF s # b.route THEN s ELSE b.activeDbServerId
    BY <1>2 DEF Benches
<1> HIDE DEF active
<1>4. MapsKept(active, closed)
    BY <1>3 DEF MapsKept
<1>5. /\ turned \in Benches /\ SamePath(active, turned) /\ turned.databases = active.databases
      /\ HeldKept(active, turned) \/ Turned(active, turned)
      /\ NameSeen(turned)
    BY <1>3, Disposes DEF HeldKept
<1> HIDE DEF turned
<1>6. MapsKept(turned, closed)
    BY <1>3, <1>4, <1>5, MapsStay
<1>7. Loads(turned, indexed) /\ indexed.databases = turned.databases
    BY <1>5, IndexLoads
<1> HIDE DEF indexed
<1>8. indexed \in Benches /\ MapsKept(indexed, closed) /\ StillHeld(b, indexed)
    BY <1>3, <1>5, <1>6, <1>7 DEF Loads, SameActive, MapsKept, StillHeld
<1>9. Loads(indexed, c) /\ MapsKept(c, closed) /\ ActiveHeld(c, closed)
    BY <1>8, LoadsHold
<1> HIDE DEF c
<1>10. SamePath(turned, c)
    BY <1>7, <1>9, Stays DEF Loads
<1>11. NameSeen(c)
    <2>1. Bench!DbName(c) = Bench!DbName(turned) /\ c.route = turned.route /\ c.seen = turned.seen
        BY <1>7, <1>9, <1>10, SameName DEF Loads, SamePath, SameActive
    <2>2. QED BY <1>5, <2>1 DEF NameSeen
<1>12. c.route = s /\ c.activeDbServerId = active.activeDbServerId /\ c \in Benches
    BY <1>3, <1>5, <1>9, <1>10 DEF SamePath, Loads
<1>13. QED BY <1>1, <1>3, <1>9, <1>11, <1>12 DEF BenchFit

LEMMA Activates ==
    ASSUME NEW b \in Benches, NEW s \in Server, NEW d \in Db \cup {NoDb}, NEW closed, MapsKept(b, closed)
    PROVE  LET c == Bench!SetActiveDatabase(b, s, d) IN
           /\ c \in Benches /\ SamePath(b, c) /\ c.databases = b.databases /\ c.seen = b.seen
           /\ MapsKept(c, closed)
<1> DEFINE c == Bench!SetActiveDatabase(b, s, d)
           new == [b.activeDatabase EXCEPT ![s] = d]
           maps == b.maps \cup {s}
<1>1. new \in [Server -> Db \cup {NoDb}] /\ maps \in SUBSET Server
    BY DEF Benches
<1>2. c = [b EXCEPT !.activeDatabase = new, !.maps = maps]
    BY DEF Bench!SetActiveDatabase, Benches
<1>3. b.activeDatabase \in [Server -> Db \cup {NoDb}]
    BY DEF Benches
<1>4. c \in Benches /\ SamePath(b, c) /\ c.databases = b.databases /\ c.seen = b.seen
      /\ c.activeDatabase = new /\ c.maps = maps
    <2> HIDE DEF new, maps, c
    <2>1. QED BY <1>1, <1>2 DEF Benches, SamePath
<1> HIDE DEF c
<1>5. MapsKept(c, closed)
    BY <1>3, <1>4 DEF MapsKept
<1>6. QED BY <1>4, <1>5 DEF c

LEMMA Mounts ==
    ASSUME NEW b \in Benches, NEW s \in Server, NEW d \in Db \cup {NoDb}, NEW closed,
           MapsKept(b, closed), ActiveHeld(b, closed)
    PROVE  LET c == Bench!Mounted(b, s, d) IN
           BenchFit(c, closed) /\ c.route = s /\ c.activeDbServerId = s
<1> DEFINE there == [b EXCEPT !.route = s, !.db = d]
           name == Bench!DbName(there)
           shown == [there EXCEPT !.seen = name]
           here == [shown EXCEPT !.activeDbServerId = s]
           active == Bench!Settled(shown, here)
           given == Bench!SetActiveDatabase(active, s, Bench!DbName(active))
           c == Bench!Settled(active, given)
<1>1. Bench!Mounted(b, s, d) = IF Bench!DbName(active) = NoDb THEN active ELSE c
    BY DEF Bench!Mounted
<1>2. there \in Benches /\ there.activeDbServerId = b.activeDbServerId /\ there.activeDatabase = b.activeDatabase
      /\ there.maps = b.maps /\ there.databases = b.databases /\ there.route = s /\ there.known = b.known
    BY DEF Benches
<1>3. name \in Db \cup {NoDb}
    BY <1>2, DbNames
<1> HIDE DEF there, name
<1>4. shown \in Benches /\ shown.activeDbServerId = b.activeDbServerId /\ shown.activeDatabase = b.activeDatabase
      /\ shown.maps = b.maps /\ shown.databases = b.databases /\ shown.route = s /\ shown.known = b.known
    BY <1>2, <1>3 DEF Benches
<1> HIDE DEF shown
<1>5. here \in Benches /\ here.activeDbServerId = s /\ here.activeDatabase = b.activeDatabase
      /\ here.maps = b.maps /\ here.databases = b.databases /\ here.route = s
    BY <1>4 DEF Benches
<1> HIDE DEF here
<1>6. MapsKept(here, closed) /\ ActiveHeld(shown, closed) /\ StillHeld(shown, here)
    BY <1>4, <1>5 DEF MapsKept, ActiveHeld, StillHeld, Bench!ActiveFound
<1>7. Settling(here, active, closed)
    BY <1>4, <1>5, <1>6, Settles
<1> HIDE DEF active
<1>8. active \in Benches /\ MapsKept(active, closed) /\ ActiveHeld(active, closed)
    BY <1>7 DEF Settling, BenchFit
<1>9. Bench!DbName(active) \in Db \cup {NoDb}
    BY <1>8, DbNames
<1>10. given \in Benches /\ SamePath(active, given) /\ given.databases = active.databases /\ MapsKept(given, closed)
    BY <1>8, <1>9, Activates
<1> HIDE DEF given
<1>11. StillHeld(active, given)
    BY <1>10 DEF StillHeld
<1>12. Settling(given, c, closed)
    BY <1>8, <1>10, <1>11, Settles
<1> HIDE DEF c
<1>13. SamePath(here, active) /\ SamePath(here, c)
    BY <1>7, <1>10, <1>12, Stays DEF Settling
<1>14. QED BY <1>1, <1>5, <1>7, <1>12, <1>13 DEF Settling, SamePath

BenchWhole(b, closed, asked) == BenchFit(b, closed) /\ b.out = {} /\ asked \in SUBSET Bench!Request

BenchInv ==
    /\ BenchWhole(bench, closedOnce, benchRequests)
    /\ strayed \in BOOLEAN
    /\ Bench!RouteIsActive

LEMMA Becoming ==
    ASSUME NEW b, NEW closed, BenchFit(b, closed), NEW rest \in SUBSET Bench!Request, Bench!Becomes(b, rest)
    PROVE  BenchWhole(bench', closed, benchRequests') /\ SamePath(b, bench')
<1>1. b \in Benches
    BY DEF BenchFit
<1> DEFINE c == [b EXCEPT !.out = {}]
<1>2. bench' = c /\ benchRequests' = rest \cup b.out
    BY DEF Bench!Becomes
<1>3. b.out \in SUBSET Bench!Request
    BY <1>1 DEF Benches
<1>4. c \in Benches /\ SamePath(b, c) /\ SameActive(b, c) /\ c.databases = b.databases /\ c.out = {}
    BY <1>1 DEF Benches, SamePath, SameActive
<1> HIDE DEF c
<1>5. Bench!DbName(c) = Bench!DbName(b) /\ Bench!ActiveFound(c) = Bench!ActiveFound(b)
    BY <1>4, SameName
<1>6. BenchFit(c, closed)
    BY <1>4, <1>5 DEF BenchFit, SamePath, SameActive, MapsKept, ActiveHeld, NameSeen
<1>7. QED BY <1>2, <1>3, <1>4, <1>6 DEF BenchWhole

\* The step of one answer, or of the user, from a bench b that is prepared.
LEMMA SettlesDown ==
    ASSUME BenchInv, NEW b \in Benches, NEW rest \in SUBSET Bench!Request, NEW closed,
           closedOnce \subseteq closed,
           MapsKept(b, closed), StillHeld(bench, b),
           Bench!Becomes(Bench!Settled(bench, b), rest)
    PROVE  BenchWhole(bench', closed, benchRequests') /\ SamePath(b, bench')
<1> DEFINE c == Bench!Settled(bench, b)
<1>1. bench \in Benches /\ ActiveHeld(bench, closed)
    BY DEF BenchInv, BenchWhole, BenchFit, ActiveHeld
<1>2. Settling(b, c, closed)
    BY <1>1, Settles
<1> HIDE DEF c
<1>3. BenchFit(c, closed) /\ SamePath(b, c)
    BY <1>2 DEF Settling
<1>4. Bench!Becomes(c, rest)
    BY DEF c
<1>5. BenchWhole(bench', closed, benchRequests') /\ SamePath(c, bench')
    BY <1>3, <1>4, Becoming
<1>6. QED BY <1>3, <1>5, Stays

LEMMA Goes ==
    ASSUME BenchInv, NEW s \in Server, NEW d \in Db \cup {NoDb}, Bench!Goto(s, d)
    PROVE  BenchInv'
<1>0. bench \in Benches /\ MapsKept(bench, closedOnce) /\ ActiveHeld(bench, closedOnce)
      /\ benchRequests \in SUBSET Bench!Request
    BY DEF BenchInv, BenchWhole, BenchFit
<1> DEFINE c == IF bench.route = NoServer THEN Bench!Mounted(bench, s, d) ELSE Bench!Routed(bench, s, d)
<1>1. /\ Bench!Becomes(c, benchRequests)
      /\ strayed' = (strayed /\ s = bench.route) /\ closedOnce' = closedOnce
    BY DEF Bench!Goto
<1>2. BenchFit(c, closedOnce) /\ c.route = s
      /\ c.activeDbServerId = IF s # bench.route THEN s ELSE bench.activeDbServerId
    <2>1. s # NoServer
        BY TabAssumption DEF Bench!WorkbenchAssumption
    <2>2. CASE bench.route = NoServer
        BY <1>0, <2>1, <2>2, Mounts
    <2>3. CASE bench.route # NoServer
        BY <1>0, <2>3, Routes
    <2>4. QED BY <2>2, <2>3
<1> HIDE DEF c
<1>3. BenchWhole(bench', closedOnce, benchRequests') /\ SamePath(c, bench')
    BY <1>0, <1>1, <1>2, Becoming
<1>4. strayed' \in BOOLEAN
    BY <1>1
<1>5. ASSUME ~strayed' PROVE bench'.activeDbServerId = bench'.route
    <2>1. ~(strayed /\ s = bench.route)
        BY <1>1, <1>5, Zenon
    <2>2. s = bench.route /\ ~strayed /\ bench.route # NoServer => bench.activeDbServerId = bench.route
        BY DEF BenchInv, Bench!RouteIsActive
    <2>3. s # NoServer
        BY TabAssumption DEF Bench!WorkbenchAssumption
    <2>4. c.activeDbServerId = s
        BY <1>2, <2>1, <2>2, <2>3
    <2>5. QED BY <1>2, <1>3, <2>4 DEF SamePath
<1>6. QED BY <1>1, <1>3, <1>4, <1>5 DEF BenchInv, Bench!RouteIsActive

LEMMA Leaves ==
    ASSUME BenchInv, Bench!Leave
    PROVE  BenchInv'
<1>0. bench \in Benches /\ MapsKept(bench, closedOnce) /\ ActiveHeld(bench, closedOnce)
      /\ benchRequests \in SUBSET Bench!Request
    BY DEF BenchInv, BenchWhole, BenchFit
<1> DEFINE c == [bench EXCEPT !.route = NoServer, !.db = NoDb, !.seen = NoDb]
<1>1. Bench!Becomes(c, benchRequests) /\ strayed' = FALSE /\ closedOnce' = closedOnce
    BY DEF Bench!Leave
<1>2. c \in Benches /\ c.route = NoServer /\ c.activeDbServerId = bench.activeDbServerId /\ c.known = bench.known
      /\ c.activeDatabase = bench.activeDatabase /\ c.maps = bench.maps /\ c.databases = bench.databases
    BY <1>0 DEF Benches
<1> HIDE DEF c
<1>3. BenchFit(c, closedOnce)
    BY <1>0, <1>2 DEF BenchFit, MapsKept, ActiveHeld, NameSeen, Bench!ActiveFound
<1>4. BenchWhole(bench', closedOnce, benchRequests') /\ SamePath(c, bench')
    BY <1>0, <1>1, <1>3, Becoming
<1>5. QED BY <1>1, <1>2, <1>4 DEF BenchInv, Bench!RouteIsActive, SamePath

LEMMA Closes ==
    ASSUME BenchInv, Bench!CloseDbServer
    PROVE  BenchInv'
<1>0. bench \in Benches /\ MapsKept(bench, closedOnce) /\ ActiveHeld(bench, closedOnce)
      /\ benchRequests \in SUBSET Bench!Request
    BY DEF BenchInv, BenchWhole, BenchFit
<1> DEFINE s == bench.activeDbServerId
           none == [d \in Db |-> "none"]
           closed == [bench EXCEPT !.databaseIndex[s] = Bench!NoNames, !.maps = @ \ {s}, !.databases[s] = none]
           away == [closed EXCEPT !.route = NoServer, !.db = NoDb, !.seen = NoDb, !.activeDbServerId = NoServer]
           once == closedOnce \cup {s}
           others == {t \in Server \ {s} : bench.databaseIndex[t].loaded}
<1>1. /\ \/ \E t \in others : /\ Bench!Becomes(Bench!Routed(closed, t, NoDb), Bench!Elsewhere(s))
                              /\ strayed' = (strayed /\ t = bench.route)
         \/ Bench!Becomes(away, Bench!Elsewhere(s)) /\ strayed' = FALSE
      /\ closedOnce' = once /\ bench.route # NoServer /\ Bench!ActiveFound(bench)
    BY DEF Bench!CloseDbServer
<1>2. s \in Server
    BY <1>0, <1>1 DEF Benches, Bench!ActiveFound
<1>3. /\ closed \in Benches /\ closed.route = bench.route /\ closed.activeDbServerId = s
      /\ closed.activeDatabase = bench.activeDatabase /\ closed.maps = bench.maps \ {s}
    <2> DEFINE index == [bench.databaseIndex EXCEPT ![s] = Bench!NoNames]
               held == [bench.databases EXCEPT ![s] = none]
    <2>1. closed = [bench EXCEPT !.databaseIndex = index, !.maps = bench.maps \ {s}, !.databases = held]
        <3> HIDE DEF s, none
        <3>1. QED BY <1>0 DEF Benches
    <2>2. index \in [Server -> Bench!Names]
        <3>1. Bench!NoNames \in Bench!Names
            BY DEF Bench!NoNames, Bench!Names
        <3>2. bench.databaseIndex \in [Server -> Bench!Names]
            BY <1>0 DEF Benches
        <3> HIDE DEF s
        <3>3. QED BY <1>2, <3>1, <3>2
    <2>3. held \in [Server -> [Db -> Bench!Held]]
        <3>1. none \in [Db -> Bench!Held]
            BY DEF Bench!Held
        <3>2. bench.databases \in [Server -> [Db -> Bench!Held]]
            BY <1>0 DEF Benches
        <3> HIDE DEF s, none
        <3>3. QED BY <1>2, <3>1, <3>2
    <2> HIDE DEF index, held, closed
    <2>4. QED BY <1>0, <2>1, <2>2, <2>3 DEF Benches
<1> HIDE DEF closed
<1>4. MapsKept(closed, once) /\ ActiveHeld(closed, once)
    BY <1>0, <1>3 DEF MapsKept, ActiveHeld
<1>5. Bench!Elsewhere(s) \in SUBSET Bench!Request
    <2>1. ASSUME NEW q \in Bench!Request PROVE [q EXCEPT !.here = FALSE] \in Bench!Request
        BY DEF Bench!Request
    <2>2. QED BY <1>0, <2>1 DEF Bench!Elsewhere
<1>6. ASSUME NEW t \in others,
             Bench!Becomes(Bench!Routed(closed, t, NoDb), Bench!Elsewhere(s)),
             strayed' = (strayed /\ t = bench.route)
      PROVE  BenchInv'
    <2> DEFINE c == Bench!Routed(closed, t, NoDb)
    <2>1. t \in Server /\ NoDb \in Db \cup {NoDb}
        OBVIOUS
    <2>2. BenchFit(c, once) /\ c.route = t
          /\ c.activeDbServerId = IF t # closed.route THEN t ELSE closed.activeDbServerId
        BY <1>3, <1>4, <2>1, Routes
    <2>3. Bench!Becomes(c, Bench!Elsewhere(s))
        BY <1>6
    <2> HIDE DEF c
    <2>4. BenchWhole(bench', once, benchRequests') /\ SamePath(c, bench')
        BY <1>5, <2>2, <2>3, Becoming
    <2>5. ASSUME ~strayed' PROVE bench'.activeDbServerId = bench'.route
        <3>1. ~(strayed /\ t = bench.route)
            BY <1>6, <2>5, Zenon
        <3>2. t = bench.route /\ ~strayed => bench.activeDbServerId = bench.route
            BY <1>1 DEF BenchInv, Bench!RouteIsActive
        <3>3. c.activeDbServerId = t
            BY <1>3, <2>2, <3>1, <3>2
        <3>4. QED BY <2>2, <2>4, <3>3 DEF SamePath
    <2>6. strayed' \in BOOLEAN
        BY <1>6
    <2>7. QED BY <1>1, <2>4, <2>5, <2>6 DEF BenchInv, Bench!RouteIsActive
<1>7. ASSUME Bench!Becomes(away, Bench!Elsewhere(s)), strayed' = FALSE
      PROVE  BenchInv'
    <2>1. away \in Benches /\ away.route = NoServer /\ away.activeDbServerId = NoServer
          /\ away.activeDatabase = closed.activeDatabase /\ away.maps = closed.maps
        BY <1>3 DEF Benches
    <2>2. Bench!Becomes(away, Bench!Elsewhere(s))
        BY <1>7
    <2> HIDE DEF away
    <2>3. BenchFit(away, once)
        BY <1>4, <2>1 DEF BenchFit, MapsKept, ActiveHeld, NameSeen, Bench!ActiveFound
    <2>4. BenchWhole(bench', once, benchRequests') /\ SamePath(away, bench')
        BY <1>5, <2>2, <2>3, Becoming
    <2>5. QED BY <1>1, <1>7, <2>1, <2>4 DEF BenchInv, Bench!RouteIsActive, SamePath
<1>8. QED BY <1>1, <1>6, <1>7

LEMMA Reloads ==
    ASSUME BenchInv,
           Bench!ReloadDbServer \/ \E d \in Db : Bench!ReloadDatabase(d)
    PROVE  BenchInv'
<1>0. bench \in Benches /\ BenchFit(bench, closedOnce) /\ benchRequests \in SUBSET Bench!Request
    BY DEF BenchInv, BenchWhole, BenchFit
<1>1. PICK b \in Benches, kind \in Bench!Kind, d \in Db \cup {NoDb} :
          /\ SamePath(bench, b) /\ SameActive(bench, b) /\ b.databases = bench.databases
          /\ Bench!Becomes(Bench!Send(b, kind, b.activeDbServerId, d, TRUE), benchRequests)
          /\ bench.activeDbServerId # NoServer /\ UNCHANGED <<strayed, closedOnce>>
    <2>1. CASE Bench!ReloadDbServer
        <3> DEFINE b == [bench EXCEPT !.dbIndexLoadState = "loading"]
        <3>1. b \in Benches /\ SamePath(bench, b) /\ SameActive(bench, b) /\ b.databases = bench.databases
            BY <1>0 DEF Benches, SamePath, SameActive, Bench!LoadState
        <3>2. Bench!Becomes(Bench!Send(b, "reindex", bench.activeDbServerId, NoDb, TRUE), benchRequests)
              /\ bench.activeDbServerId # NoServer /\ UNCHANGED <<strayed, closedOnce>>
            BY <2>1 DEF Bench!ReloadDbServer, Bench!ActiveFound
        <3> HIDE DEF b
        <3>3. "reindex" \in Bench!Kind /\ NoDb \in Db \cup {NoDb} /\ b.activeDbServerId = bench.activeDbServerId
            BY <3>1 DEF Bench!Kind, SamePath
        <3>4. QED BY <3>1, <3>2, <3>3
    <2>2. ASSUME NEW d \in Db, Bench!ReloadDatabase(d)
          PROVE  /\ Bench!Becomes(Bench!Send(bench, "reload", bench.activeDbServerId, d, TRUE), benchRequests)
                 /\ bench.activeDbServerId # NoServer /\ UNCHANGED <<strayed, closedOnce>>
        BY <2>2 DEF Bench!ReloadDatabase, Bench!ActiveFound
    <2>3. "reload" \in Bench!Kind /\ SamePath(bench, bench) /\ SameActive(bench, bench)
        BY DEF Bench!Kind, SamePath, SameActive
    <2>4. QED BY <1>0, <2>1, <2>2, <2>3
<1> DEFINE s == b.activeDbServerId
           c == Bench!Send(b, kind, s, d, TRUE)
<1>2. s \in Server
    BY <1>1 DEF Benches, SamePath
<1>3. Loads(b, c) /\ c.databases = b.databases
    BY <1>2, BenchSends
<1>4. Bench!Becomes(c, benchRequests)
    BY <1>1
<1> HIDE DEF c
<1>5. SamePath(bench, c) /\ SameActive(bench, c) /\ c.databases = bench.databases /\ c \in Benches
    BY <1>1, <1>3, Stays DEF Loads, SameActive
<1>6. BenchFit(c, closedOnce)
    <2>1. Bench!DbName(c) = Bench!DbName(bench) /\ Bench!ActiveFound(c) = Bench!ActiveFound(bench)
        BY <1>5, SameName
    <2>2. QED BY <1>0, <1>5, <2>1 DEF BenchFit, SamePath, SameActive, MapsKept, ActiveHeld, NameSeen
<1>7. BenchWhole(bench', closedOnce, benchRequests') /\ SamePath(c, bench')
    BY <1>0, <1>4, <1>6, Becoming
<1>8. QED BY <1>1, <1>5, <1>7 DEF BenchInv, Bench!RouteIsActive, SamePath

LEMMA BenchStarts == TabInit => BenchInv
<1>1. Bench!NewBench \in Benches
    BY DEF Bench!NewBench, Benches, Bench!LoadState, Bench!Names, Bench!NoNames, Bench!Held
<1>2. TabInit => Bench!BenchInit
    BY DEF TabInit
<1>3. Bench!BenchInit => BenchInv
    <2> SUFFICES ASSUME Bench!BenchInit PROVE BenchInv
        OBVIOUS
    <2>1. bench.route = NoServer /\ bench.known = FALSE /\ bench.out = {}
          /\ \A s \in Server : bench.activeDatabase[s] = NoDb
        BY DEF Bench!BenchInit, Bench!NewBench
    <2>2. QED BY <1>1, <2>1 DEF Bench!BenchInit, BenchInv, BenchWhole, BenchFit, MapsKept, ActiveHeld, NameSeen,
                     Bench!RouteIsActive, Bench!ActiveFound
<1>4. QED BY <1>2, <1>3

LEMMA LogsOut ==
    ASSUME BenchInv, Bench!BenchLogout
    PROVE  BenchInv'
<1>1. PICK state \in Bench!LoadState : bench' = [Bench!NewBench EXCEPT !.dbIndexLoadState = state]
    <2> DEFINE state == IF \E r \in benchRequests : r.kind \in {"index", "reindex"} THEN "error" ELSE "none"
    <2>1. state \in Bench!LoadState /\ bench' = [Bench!NewBench EXCEPT !.dbIndexLoadState = state]
        BY DEF Bench!BenchLogout, Bench!LoadState
    <2>2. QED BY <2>1
<1>2. Bench!NewBench \in Benches
    BY DEF Bench!NewBench, Benches, Bench!LoadState, Bench!Names, Bench!NoNames, Bench!Held
<1>3. bench' \in Benches
    BY <1>1, <1>2 DEF Benches
<1>4. bench'.route = NoServer /\ bench'.known = FALSE /\ bench'.out = {}
      /\ \A s \in Server : bench'.activeDatabase[s] = NoDb
    BY <1>1 DEF Bench!NewBench
<1>5. benchRequests' = {} /\ strayed' = FALSE /\ closedOnce' = {}
    BY DEF Bench!BenchLogout
<1>6. QED BY <1>3, <1>4, <1>5 DEF BenchInv, BenchWhole, BenchFit, MapsKept, ActiveHeld, NameSeen,
                     Bench!RouteIsActive, Bench!ActiveFound

LEMMA BenchFacts ==
    ASSUME BenchInv
    PROVE  /\ bench \in Benches /\ MapsKept(bench, closedOnce) /\ ActiveHeld(bench, closedOnce)
           /\ NameSeen(bench) /\ bench.out = {} /\ BenchFit(bench, closedOnce)
           /\ benchRequests \in SUBSET Bench!Request
           /\ strayed \in BOOLEAN
           /\ bench.route # NoServer /\ ~strayed => bench.activeDbServerId = bench.route
BY DEF BenchInv, BenchWhole, BenchFit, Bench!RouteIsActive

LEMMA KnownOnes ==
    ASSUME BenchInv, Bench!ServersKnown
    PROVE  BenchInv'
<1>0. bench \in Benches /\ MapsKept(bench, closedOnce) /\ benchRequests \in SUBSET Bench!Request
      /\ strayed \in BOOLEAN
    BY BenchFacts
<1> DEFINE b == [bench EXCEPT !.known = TRUE]
<1>1. Bench!Becomes(Bench!Settled(bench, b), benchRequests) /\ UNCHANGED <<strayed, closedOnce>>
    BY DEF Bench!ServersKnown
<1>2. b \in Benches /\ SameActive(bench, b) /\ b.databases = bench.databases /\ b.route = bench.route
      /\ b.activeDbServerId = bench.activeDbServerId
    BY <1>0 DEF Benches, SameActive
<1> HIDE DEF b
<1>3. MapsKept(b, closedOnce) /\ StillHeld(bench, b)
    BY <1>0, <1>2 DEF SameActive, MapsKept, StillHeld
<1>4. BenchWhole(bench', closedOnce, benchRequests') /\ SamePath(b, bench')
    BY <1>0, <1>1, <1>2, <1>3, SettlesDown
<1>5. QED BY <1>0, <1>1, <1>2, <1>4, BenchFacts DEF BenchInv, Bench!RouteIsActive, SamePath

\* The bench with an index that has been read.
LEMMA Indexed ==
    ASSUME BenchInv, NEW s \in Server, NEW names \in SUBSET Db
    PROVE  LET b == [bench EXCEPT !.databaseIndex[s] = [loaded |-> TRUE, names |-> names],
                                  !.dbIndexLoadState = "success"] IN
           /\ b \in Benches /\ SameActive(bench, b) /\ b.databases = bench.databases
           /\ b.route = bench.route /\ b.db = bench.db /\ b.known = bench.known
           /\ b.activeDbServerId = bench.activeDbServerId
           /\ b.databaseIndex = [bench.databaseIndex EXCEPT ![s] = [loaded |-> TRUE, names |-> names]]
           /\ MapsKept(b, closedOnce) /\ StillHeld(bench, b)
<1> DEFINE new == [loaded |-> TRUE, names |-> names]
           index == [bench.databaseIndex EXCEPT ![s] = new]
           b == [bench EXCEPT !.databaseIndex[s] = new, !.dbIndexLoadState = "success"]
<1>0. bench \in Benches /\ MapsKept(bench, closedOnce)
    BY BenchFacts
<1>1. b = [bench EXCEPT !.databaseIndex = index, !.dbIndexLoadState = "success"]
    <2> HIDE DEF new
    <2>1. QED BY <1>0 DEF Benches
<1>2. index \in [Server -> Bench!Names]
    <2>1. new \in Bench!Names
        BY DEF Bench!Names
    <2>2. bench.databaseIndex \in [Server -> Bench!Names]
        BY <1>0 DEF Benches
    <2> HIDE DEF new
    <2>3. QED BY <2>1, <2>2
<1> HIDE DEF b, index
<1>3. /\ b \in Benches /\ SameActive(bench, b) /\ b.databases = bench.databases
      /\ b.route = bench.route /\ b.db = bench.db /\ b.known = bench.known
      /\ b.activeDbServerId = bench.activeDbServerId /\ b.databaseIndex = index
    BY <1>0, <1>1, <1>2 DEF Benches, Bench!LoadState, SameActive
<1>4. MapsKept(b, closedOnce) /\ StillHeld(bench, b)
    BY <1>0, <1>3 DEF SameActive, MapsKept, StillHeld
<1>5. QED BY <1>3, <1>4 DEF b, index

LEMMA IndexArrives ==
    ASSUME BenchInv, NEW r \in benchRequests, NEW names \in SUBSET Db, Bench!IndexAnswered(r, names)
    PROVE  BenchInv'
<1>0. bench \in Benches /\ MapsKept(bench, closedOnce) /\ ActiveHeld(bench, closedOnce)
      /\ benchRequests \in SUBSET Bench!Request /\ strayed \in BOOLEAN
    BY BenchFacts
<1> DEFINE s == r.server
           b == [bench EXCEPT !.databaseIndex[s] = [loaded |-> TRUE, names |-> names],
                              !.dbIndexLoadState = "success"]
           indexed == Bench!Settled(bench, b)
           initial == Bench!DefaultDatabaseName(indexed, s)
           given == Bench!SetActiveDatabase(indexed, s, initial)
           turns == indexed.activeDatabase[s] = NoDb /\ initial # NoDb
           c == IF turns THEN Bench!Settled(indexed, given) ELSE indexed
<1>1. Bench!Becomes(c, Bench!Rest(r)) /\ UNCHANGED <<strayed, closedOnce>>
    BY DEF Bench!IndexAnswered
<1>2. s \in Server /\ Bench!Rest(r) \in SUBSET Bench!Request
    BY <1>0 DEF Bench!Request, Bench!Rest
<1>3. b \in Benches /\ MapsKept(b, closedOnce) /\ StillHeld(bench, b) /\ b.route = bench.route
      /\ b.activeDbServerId = bench.activeDbServerId
    BY <1>2, Indexed
<1> HIDE DEF s, b
<1>4. Settling(b, indexed, closedOnce)
    BY <1>0, <1>3, Settles
<1> HIDE DEF indexed
<1>5. indexed \in Benches /\ MapsKept(indexed, closedOnce) /\ ActiveHeld(indexed, closedOnce)
      /\ BenchFit(indexed, closedOnce) /\ SamePath(b, indexed)
    BY <1>4 DEF Settling, BenchFit
<1>6. BenchFit(c, closedOnce) /\ SamePath(b, c)
    <2>1. CASE ~turns
        BY <1>5, <2>1
    <2>2. CASE turns
        <3>1. initial \in Db \cup {NoDb}
            <4>1. indexed.databaseIndex[s].names \in SUBSET Db /\ indexed.known \in BOOLEAN
                BY <1>2, <1>5 DEF Benches, Bench!Names
            <4>2. InitDb[s] \in Db \cup {NoDb}
                BY <1>2, TabAssumption DEF Bench!WorkbenchAssumption
            <4>3. indexed.databaseIndex[s].names # {} =>
                      (CHOOSE d \in indexed.databaseIndex[s].names : TRUE) \in indexed.databaseIndex[s].names
                OBVIOUS
            <4>4. QED BY <4>1, <4>2, <4>3 DEF Bench!DefaultDatabaseName
        <3> HIDE DEF initial
        <3>2. given \in Benches /\ SamePath(indexed, given) /\ given.databases = indexed.databases
              /\ MapsKept(given, closedOnce)
            BY <1>2, <1>5, <3>1, Activates
        <3> HIDE DEF given
        <3>3. StillHeld(indexed, given)
            BY <3>2 DEF StillHeld
        <3>4. Settling(given, Bench!Settled(indexed, given), closedOnce)
            BY <1>5, <3>2, <3>3, Settles
        <3>5. c = Bench!Settled(indexed, given)
            BY <2>2
        <3>6. QED BY <1>5, <3>2, <3>4, <3>5, Stays DEF Settling
    <2>3. QED BY <2>1, <2>2
<1> HIDE DEF c
<1>7. BenchWhole(bench', closedOnce, benchRequests') /\ SamePath(c, bench')
    BY <1>1, <1>2, <1>6, Becoming
<1>8. QED BY <1>0, <1>1, <1>3, <1>6, <1>7, BenchFacts DEF BenchInv, Bench!RouteIsActive, SamePath

LEMMA IndexBreaks ==
    ASSUME BenchInv, NEW r \in benchRequests, Bench!IndexFailed(r)
    PROVE  BenchInv'
<1>0. bench \in Benches /\ MapsKept(bench, closedOnce) /\ ActiveHeld(bench, closedOnce)
      /\ benchRequests \in SUBSET Bench!Request
    BY BenchFacts
<1> DEFINE s == r.server
           b == [bench EXCEPT !.databaseIndex[s] = Bench!NoNames, !.activeDbServerId = NoServer,
                              !.dbIndexLoadState = "error"]
           index == [bench.databaseIndex EXCEPT ![s] = Bench!NoNames]
<1>1. /\ Bench!Becomes(Bench!Settled(bench, b), Bench!Rest(r))
      /\ strayed' = (bench.route # NoServer) /\ closedOnce' = closedOnce
    BY DEF Bench!IndexFailed
<1>2. s \in Server /\ Bench!Rest(r) \in SUBSET Bench!Request
    BY <1>0 DEF Bench!Request, Bench!Rest
<1>3. index \in [Server -> Bench!Names]
    <2>1. Bench!NoNames \in Bench!Names
        BY DEF Bench!NoNames, Bench!Names
    <2>2. bench.databaseIndex \in [Server -> Bench!Names]
        BY <1>0 DEF Benches
    <2> HIDE DEF s
    <2>3. QED BY <1>2, <2>1, <2>2
<1>4. b = [bench EXCEPT !.databaseIndex = index, !.activeDbServerId = NoServer, !.dbIndexLoadState = "error"]
    <2> HIDE DEF s
    <2>1. QED BY <1>0 DEF Benches
<1> HIDE DEF b, index
<1>5. /\ b \in Benches /\ SameActive(bench, b) /\ b.databases = bench.databases /\ b.route = bench.route
    BY <1>0, <1>3, <1>4 DEF Benches, Bench!LoadState, SameActive
<1>6. MapsKept(b, closedOnce) /\ StillHeld(bench, b)
    BY <1>0, <1>5 DEF SameActive, MapsKept, StillHeld
<1>7. BenchWhole(bench', closedOnce, benchRequests') /\ SamePath(b, bench')
    BY <1>0, <1>1, <1>2, <1>5, <1>6, SettlesDown
<1>8. ~strayed' => bench.route = NoServer
    <2>1. strayed' = (bench.route # NoServer)
        BY <1>1
    <2>2. QED BY <2>1, Zenon
<1>9. bench'.route = bench.route
    BY <1>5, <1>7 DEF SamePath
<1>10. strayed' \in BOOLEAN
    BY <1>1
<1>11. QED BY <1>1, <1>7, <1>8, <1>9, <1>10 DEF BenchInv, Bench!RouteIsActive

\* After an index was read again: the active database of its server is not another one than before, or in it.
LEMMA ReindexArrives ==
    ASSUME BenchInv, NEW r \in benchRequests, NEW names \in SUBSET Db, Bench!ReindexAnswered(r, names)
    PROVE  BenchInv'
<1>0. bench \in Benches /\ MapsKept(bench, closedOnce) /\ ActiveHeld(bench, closedOnce) /\ NameSeen(bench)
      /\ benchRequests \in SUBSET Bench!Request /\ strayed \in BOOLEAN
    BY BenchFacts
<1> DEFINE s == r.server
           new == [loaded |-> TRUE, names |-> names]
           b == [bench EXCEPT !.databaseIndex[s] = new, !.dbIndexLoadState = "success"]
           indexed == Bench!Settled(bench, b)
           held == [d \in Db |-> IF d \in names THEN indexed.databases[s][d] ELSE "none"]
           again == {[kind |-> "reload", server |-> s, db |-> d, here |-> TRUE]
                         : d \in {x \in names : indexed.databases[s][x] # "none"}}
           kept == [indexed EXCEPT !.databases[s] = [d \in Db |-> IF d \in names THEN @[d] ELSE "none"],
                                   !.out = @ \cup again]
           rest == {[q EXCEPT !.here = @ /\ (q.server = s => q.db \in names \cup {NoDb})] : q \in Bench!Rest(r)}
           once == closedOnce \cup (IF bench.activeDatabase[s] \in names THEN {} ELSE {s})
<1>1. Bench!Becomes(kept, rest) /\ closedOnce' = once /\ strayed' = strayed
    BY DEF Bench!ReindexAnswered
<1>2. s \in Server /\ Bench!Rest(r) \in SUBSET Bench!Request
    BY <1>0 DEF Bench!Request, Bench!Rest
<1>3. rest \in SUBSET Bench!Request
    <2>1. ASSUME NEW q \in Bench!Request, NEW x \in BOOLEAN PROVE [q EXCEPT !.here = x] \in Bench!Request
        BY DEF Bench!Request
    <2>2. ASSUME NEW q \in Bench!Rest(r)
          PROVE [q EXCEPT !.here = @ /\ (q.server = s => q.db \in names \cup {NoDb})] \in Bench!Request
        <3> DEFINE x == q.here /\ (q.server = s => q.db \in names \cup {NoDb})
        <3>1. q \in Bench!Request /\ x \in BOOLEAN
            BY <1>2
        <3>2. [q EXCEPT !.here = x] \in Bench!Request
            BY <2>1, <3>1
        <3>3. QED BY <3>2
    <2>3. QED BY <2>2
<1>4. /\ b \in Benches /\ SameActive(bench, b) /\ b.databases = bench.databases
      /\ b.route = bench.route /\ b.db = bench.db /\ b.known = bench.known
      /\ b.activeDbServerId = bench.activeDbServerId
      /\ b.databaseIndex = [bench.databaseIndex EXCEPT ![s] = new]
      /\ MapsKept(b, closedOnce) /\ StillHeld(bench, b)
    BY <1>2, Indexed
<1> HIDE DEF b, s
<1>5. Settling(b, indexed, closedOnce)
    BY <1>0, <1>4, Settles
<1> HIDE DEF indexed
<1>6. indexed \in Benches /\ MapsKept(indexed, closedOnce) /\ ActiveHeld(indexed, closedOnce)
      /\ NameSeen(indexed) /\ SamePath(b, indexed)
    BY <1>5 DEF Settling, BenchFit
<1>7. bench.activeDatabase[s] \in names => indexed.activeDatabase[s] \in names
    <2> SUFFICES ASSUME bench.activeDatabase[s] \in names, indexed.activeDatabase[s] \notin names PROVE FALSE
        OBVIOUS
    <2>1. Turned(b, indexed)
        BY <1>4, <1>5 DEF Settling, HeldKept, SameActive
    <2> DEFINE name == Bench!DbName(b)
    <2>2. b.activeDbServerId = s /\ name \notin names /\ name \notin {bench.seen, NoDb} /\ b.route # NoServer
          /\ Bench!ActiveFound(b)
        <3>1. b.activeDatabase = bench.activeDatabase /\ b.activeDatabase \in [Server -> Db \cup {NoDb}]
              /\ b.seen = bench.seen
            BY <1>4 DEF SameActive, Benches
        <3>2. indexed.activeDatabase = [b.activeDatabase EXCEPT ![b.activeDbServerId] = name]
              /\ name \notin {bench.seen, NoDb} /\ b.route # NoServer /\ Bench!ActiveFound(b)
            BY <2>1, <3>1 DEF Turned
        <3> HIDE DEF name
        <3>3. b.activeDbServerId = s
            BY <1>2, <3>1, <3>2
        <3>4. QED BY <1>2, <3>1, <3>2, <3>3
    <2>3. bench.seen = Bench!DbName(bench) /\ Bench!ActiveFound(bench)
        BY <1>0, <1>4, <2>2 DEF NameSeen, Bench!ActiveFound
    <2>4. CASE b.db # NoDb
        BY <1>4, <2>2, <2>3, <2>4 DEF Bench!DbName
    <2>5. CASE b.db = NoDb
        <3>1. name = Bench!DefaultDatabaseName(b, s) /\ Bench!DbName(bench) = Bench!DefaultDatabaseName(bench, s)
            BY <1>4, <2>2, <2>3, <2>5 DEF Bench!DbName
        <3>2. b.known /\ bench.known
            BY <2>2, <2>3, ZenonT(60) DEF Bench!ActiveFound
        <3>3. CASE InitDb[s] # NoDb
            BY <2>2, <2>3, <3>1, <3>2, <3>3 DEF Bench!DefaultDatabaseName
        <3>4. CASE InitDb[s] = NoDb
            <4>1. b.databaseIndex[s].names = names
                <5>1. bench.databaseIndex \in [Server -> Bench!Names]
                    BY <1>0 DEF Benches
                <5>2. QED BY <1>2, <1>4, <5>1
            <4>2. names # {} => (CHOOSE d \in names : TRUE) \in names
                OBVIOUS
            <4>3. name = IF names = {} THEN NoDb ELSE CHOOSE d \in names : TRUE
                BY <3>1, <3>2, <3>4, <4>1 DEF Bench!DefaultDatabaseName
            <4>4. QED BY <2>2, <4>2, <4>3
        <3>5. QED BY <3>3, <3>4
    <2>6. QED BY <2>4, <2>5
<1>8. /\ kept \in Benches /\ SamePath(indexed, kept) /\ SameActive(indexed, kept)
      /\ kept.databases = [indexed.databases EXCEPT ![s] = held]
    <2> DEFINE all == [indexed.databases EXCEPT ![s] = held]
               out == indexed.out \cup again
    <2>1. indexed.databases \in [Server -> [Db -> Bench!Held]] /\ indexed.out \in SUBSET Bench!Request
        BY <1>6 DEF Benches
    <2>2. held \in [Db -> Bench!Held]
        <3>1. indexed.databases[s] \in [Db -> Bench!Held] /\ "none" \in Bench!Held
            BY <1>2, <2>1 DEF Bench!Held
        <3>2. QED BY <3>1
    <2>3. kept = [indexed EXCEPT !.databases = all, !.out = out]
        <3> HIDE DEF again
        <3>1. QED BY <1>2, <1>6, <2>1 DEF Benches
    <2> HIDE DEF held
    <2>4. all \in [Server -> [Db -> Bench!Held]]
        BY <1>2, <2>1, <2>2
    <2>5. out \in SUBSET Bench!Request
        <3>1. again \in SUBSET Bench!Request
            <4>1. ASSUME NEW d \in Db PROVE [kind |-> "reload", server |-> s, db |-> d, here |-> TRUE] \in Bench!Request
                BY <1>2 DEF Bench!Request, Bench!Kind
            <4>2. QED BY <4>1
        <3> HIDE DEF again
        <3>2. QED BY <2>1, <3>1
    <2> HIDE DEF all, out, kept
    <2>6. kept \in Benches /\ SamePath(indexed, kept) /\ SameActive(indexed, kept) /\ kept.databases = all
        BY <1>6, <2>3, <2>4, <2>5 DEF Benches, SamePath, SameActive
    <2>7. QED BY <2>6 DEF all
<1> HIDE DEF kept
<1>9. BenchFit(kept, once)
    <2>1. MapsKept(kept, once)
        BY <1>6, <1>8 DEF SameActive, MapsKept
    <2>2. Bench!DbName(kept) = Bench!DbName(indexed) /\ Bench!ActiveFound(kept) = Bench!ActiveFound(indexed)
        BY <1>8, SameName
    <2>3. NameSeen(kept)
        BY <1>6, <1>8, <2>2 DEF NameSeen, SamePath, SameActive
    <2>4. ActiveHeld(kept, once)
        <3> DEFINE a == kept.activeDbServerId
                   d == kept.activeDatabase[a]
        <3> SUFFICES ASSUME Bench!ActiveFound(kept), a \notin once, d # NoDb
                     PROVE  kept.databases[a][d] # "none"
            BY DEF ActiveHeld
        <3>1. a \in Server /\ d \in Db
            BY <1>8 DEF Benches, Bench!ActiveFound
        <3>2. indexed.activeDbServerId = a /\ indexed.activeDatabase[a] = d
            BY <1>8 DEF SamePath, SameActive
        <3>3. indexed.databases[a][d] # "none"
            BY <1>6, <2>2, <3>2 DEF ActiveHeld
        <3>4. CASE a = s
            <4>1. d \in names
                BY <1>7, <3>2, <3>4
            <4>2. QED
                <5>1. indexed.databases \in [Server -> [Db -> Bench!Held]]
                    BY <1>6 DEF Benches
                <5> HIDE DEF a, d
                <5>2. QED BY <1>2, <1>8, <3>1, <3>3, <3>4, <4>1, <5>1
        <3>5. CASE a # s
            <4>1. indexed.databases \in [Server -> [Db -> Bench!Held]]
                BY <1>6 DEF Benches
            <4> HIDE DEF a, d, held
            <4>2. QED BY <1>2, <1>8, <3>1, <3>3, <3>5, <4>1
        <3>6. QED BY <3>4, <3>5
    <2>5. QED BY <1>8, <2>1, <2>3, <2>4 DEF BenchFit
<1>10. BenchWhole(bench', once, benchRequests') /\ SamePath(kept, bench')
    <2> HIDE DEF rest, once
    <2>1. QED BY <1>1, <1>3, <1>9, Becoming
<1>11. QED BY <1>0, <1>1, <1>4, <1>6, <1>8, <1>10, BenchFacts DEF BenchInv, Bench!RouteIsActive, SamePath

LEMMA LoadArrives ==
    ASSUME BenchInv, NEW r \in benchRequests, Bench!LoadAnswered(r)
    PROVE  BenchInv'
<1>0. bench \in Benches /\ MapsKept(bench, closedOnce) /\ ActiveHeld(bench, closedOnce)
      /\ benchRequests \in SUBSET Bench!Request /\ strayed \in BOOLEAN /\ BenchFit(bench, closedOnce)
    BY BenchFacts
<1> DEFINE s == r.server
           loaded == [bench EXCEPT !.databases[s][r.db] = "loaded"]
           given == Bench!SetActiveDatabase(loaded, s, r.db)
           active == Bench!Settled(bench, given)
           there == [active EXCEPT !.activeDbServerId = s]
           c == Bench!Settled(active, there)
<1>1. /\ IF s \in bench.maps
         THEN Bench!Becomes(c, Bench!Rest(r)) /\ strayed' = (strayed \/ bench.route \notin {s, NoServer})
         ELSE Bench!Becomes(bench, Bench!Rest(r)) /\ UNCHANGED strayed
      /\ UNCHANGED closedOnce
    BY DEF Bench!LoadAnswered
<1>2. s \in Server /\ r.db \in Db \cup {NoDb} /\ Bench!Rest(r) \in SUBSET Bench!Request
    BY <1>0 DEF Bench!Request, Bench!Rest
<1>3. CASE s \notin bench.maps
    <2>1. BenchWhole(bench', closedOnce, benchRequests') /\ SamePath(bench, bench')
        BY <1>0, <1>1, <1>2, <1>3, Becoming
    <2>2. QED BY <1>0, <1>1, <1>3, <2>1, BenchFacts DEF BenchInv, Bench!RouteIsActive, SamePath
<1>4. CASE s \in bench.maps
    <2>1. /\ loaded \in Benches /\ SamePath(bench, loaded) /\ SameActive(bench, loaded)
          /\ StillHeld(bench, loaded) /\ MapsKept(loaded, closedOnce)
        <3> DEFINE held == [bench.databases EXCEPT ![s][r.db] = "loaded"]
        <3>1. bench.databases \in [Server -> [Db -> Bench!Held]] /\ "loaded" \in Bench!Held
            BY <1>0 DEF Benches, Bench!Held
        <3>2. held \in [Server -> [Db -> Bench!Held]]
              /\ \A t \in Server, d \in Db : bench.databases[t][d] # "none" => held[t][d] # "none"
            <4> HIDE DEF s
            <4>1. QED BY <1>2, <3>1
        <3>3. loaded = [bench EXCEPT !.databases = held]
            BY <1>0 DEF Benches
        <3> HIDE DEF held, loaded
        <3>4. loaded \in Benches /\ SamePath(bench, loaded) /\ SameActive(bench, loaded) /\ loaded.databases = held
            BY <1>0, <3>2, <3>3 DEF Benches, SamePath, SameActive
        <3>5. QED BY <1>0, <3>2, <3>4 DEF StillHeld, MapsKept, SameActive
    <2> HIDE DEF loaded
    <2>2. /\ given \in Benches /\ SamePath(loaded, given) /\ given.databases = loaded.databases
          /\ MapsKept(given, closedOnce)
        BY <1>2, <2>1, Activates
    <2> HIDE DEF given
    <2>3. StillHeld(bench, given)
        BY <2>1, <2>2 DEF StillHeld
    <2>4. Settling(given, active, closedOnce)
        BY <1>0, <2>2, <2>3, Settles
    <2> HIDE DEF active
    <2>5. active \in Benches /\ MapsKept(active, closedOnce) /\ ActiveHeld(active, closedOnce)
          /\ SamePath(given, active)
        BY <2>4 DEF Settling, BenchFit
    <2>6. there \in Benches /\ SameActive(active, there) /\ there.databases = active.databases
          /\ there.route = active.route /\ there.activeDbServerId = s
        BY <1>2, <2>5 DEF Benches, SameActive
    <2> HIDE DEF there
    <2>7. MapsKept(there, closedOnce) /\ StillHeld(active, there)
        BY <2>5, <2>6 DEF MapsKept, SameActive, StillHeld
    <2>8. Settling(there, c, closedOnce)
        BY <2>5, <2>6, <2>7, Settles
    <2>9. BenchFit(c, closedOnce) /\ SamePath(there, c)
        BY <2>8 DEF Settling
    <2>10. Bench!Becomes(c, Bench!Rest(r)) /\ closedOnce' = closedOnce
           /\ strayed' = (strayed \/ bench.route \notin {s, NoServer})
        BY <1>1, <1>4
    <2> HIDE DEF c
    <2>11. BenchWhole(bench', closedOnce, benchRequests') /\ SamePath(c, bench')
        BY <1>2, <2>9, <2>10, Becoming
    <2>12. bench'.route = bench.route /\ bench'.activeDbServerId = s
        BY <2>1, <2>2, <2>5, <2>6, <2>9, <2>11 DEF SamePath
    <2>13. ~strayed' => bench.route \in {s, NoServer}
        <3>1. strayed' = (strayed \/ bench.route \notin {s, NoServer})
            BY <2>10
        <3>2. QED BY <3>1, Zenon
    <2>14. strayed' \in BOOLEAN
        BY <2>10
    <2>15. QED BY <2>10, <2>11, <2>12, <2>13, <2>14 DEF BenchInv, Bench!RouteIsActive
<1>5. QED BY <1>3, <1>4

\* The answers that only tell what is held of a database.
LEMMA HeldOnly ==
    ASSUME BenchInv, NEW b, NEW rest \in SUBSET Bench!Request, NEW s \in Server, NEW d \in Db \cup {NoDb},
           NEW state \in Bench!Held \ {"none"},
           b = bench \/ b = [bench EXCEPT !.databases[s][d] = state] \/ b = [bench EXCEPT !.dbIndexLoadState = "error"],
           Bench!Becomes(b, rest), UNCHANGED <<strayed, closedOnce>>
    PROVE  BenchInv'
<1>0. bench \in Benches /\ BenchFit(bench, closedOnce) /\ strayed \in BOOLEAN
    BY BenchFacts
<1>1. b \in Benches /\ SamePath(bench, b) /\ SameActive(bench, b) /\ StillHeld(bench, b)
    <2>1. CASE b = bench
        BY <1>0, <2>1 DEF SamePath, SameActive, StillHeld
    <2>2. CASE b = [bench EXCEPT !.dbIndexLoadState = "error"]
        BY <1>0, <2>2 DEF SamePath, SameActive, StillHeld, Benches, Bench!LoadState
    <2>3. CASE b = [bench EXCEPT !.databases[s][d] = state]
        <3> DEFINE held == [bench.databases EXCEPT ![s][d] = state]
        <3>1. bench.databases \in [Server -> [Db -> Bench!Held]]
            BY <1>0 DEF Benches
        <3>2. held \in [Server -> [Db -> Bench!Held]]
              /\ \A t \in Server, x \in Db : bench.databases[t][x] # "none" => held[t][x] # "none"
            BY <3>1
        <3>3. b = [bench EXCEPT !.databases = held]
            BY <1>0, <2>3 DEF Benches
        <3> HIDE DEF held
        <3>4. b \in Benches /\ SamePath(bench, b) /\ SameActive(bench, b) /\ b.databases = held
            BY <1>0, <3>2, <3>3 DEF Benches, SamePath, SameActive
        <3>5. QED BY <3>2, <3>4 DEF StillHeld
    <2>4. QED BY <2>1, <2>2, <2>3
<1>2. BenchFit(b, closedOnce)
    <2>1. Bench!DbName(b) = Bench!DbName(bench) /\ Bench!ActiveFound(b) = Bench!ActiveFound(bench)
        BY <1>1, SameName
    <2>2. MapsKept(b, closedOnce) /\ NameSeen(b)
        BY <1>0, <1>1, <2>1 DEF BenchFit, SamePath, SameActive, MapsKept, NameSeen
    <2>3. ActiveHeld(b, closedOnce)
        <3> DEFINE a == b.activeDbServerId
                   x == b.activeDatabase[a]
        <3> SUFFICES ASSUME Bench!ActiveFound(b), a \notin closedOnce, x # NoDb
                     PROVE  b.databases[a][x] # "none"
            BY DEF ActiveHeld
        <3>1. a \in Server /\ x \in Db
            BY <1>1 DEF Benches, Bench!ActiveFound
        <3>2. bench.databases[a][x] # "none"
            BY <1>0, <1>1, <2>1 DEF BenchFit, SamePath, SameActive, ActiveHeld
        <3>3. QED BY <1>1, <3>1, <3>2 DEF StillHeld
    <2>4. QED BY <1>1, <2>2, <2>3 DEF BenchFit
<1>3. BenchWhole(bench', closedOnce, benchRequests') /\ SamePath(b, bench')
    BY <1>2, Becoming
<1>4. QED BY <1>0, <1>1, <1>3, BenchFacts DEF BenchInv, Bench!RouteIsActive, SamePath

LEMMA BenchAnswers ==
    ASSUME BenchInv, NEW s \in Server, NEW d \in Db \cup {NoDb}, Bench!BenchAnswered(Bench!Kind, s, d)
    PROVE  BenchInv'
<1>1. PICK r \in benchRequests :
          /\ r.server = s /\ r.db = d
          /\ \/ \E names \in SUBSET Db \ {{}} : Bench!IndexAnswered(r, names) \/ Bench!ReindexAnswered(r, names)
             \/ Bench!IndexFailed(r) \/ Bench!ReindexFailed(r)
             \/ Bench!LoadAnswered(r) \/ Bench!LoadFailed(r)
             \/ Bench!ReloadAnswered(r) \/ Bench!ReloadFailed(r)
    BY DEF Bench!BenchAnswered
<1>2. benchRequests \in SUBSET Bench!Request /\ Bench!Rest(r) \in SUBSET Bench!Request
    BY BenchFacts DEF Bench!Rest
<1>3. "failed" \in Bench!Held \ {"none"} /\ "loaded" \in Bench!Held \ {"none"}
    BY DEF Bench!Held
<1>4. ASSUME NEW names \in SUBSET Db, Bench!IndexAnswered(r, names) \/ Bench!ReindexAnswered(r, names)
      PROVE  BenchInv'
    BY <1>4, IndexArrives, ReindexArrives
<1>5. CASE Bench!IndexFailed(r)
    BY <1>5, IndexBreaks
<1>6. CASE Bench!ReindexFailed(r)
    <2> DEFINE b == [bench EXCEPT !.dbIndexLoadState = "error"]
    <2>1. Bench!Becomes(b, Bench!Rest(r)) /\ UNCHANGED <<strayed, closedOnce>>
        BY <1>6 DEF Bench!ReindexFailed
    <2>2. b = [bench EXCEPT !.dbIndexLoadState = "error"]
        OBVIOUS
    <2> HIDE DEF b
    <2>3. QED BY <1>2, <1>3, <2>1, <2>2, HeldOnly
<1>7. CASE Bench!LoadAnswered(r)
    BY <1>7, LoadArrives
<1>8. CASE Bench!LoadFailed(r)
    <2> DEFINE b == IF r.here THEN [bench EXCEPT !.databases[s][d] = "failed"] ELSE bench
    <2>1. Bench!Becomes(b, Bench!Rest(r)) /\ UNCHANGED <<strayed, closedOnce>>
        BY <1>1, <1>8 DEF Bench!LoadFailed
    <2>2. b = bench \/ b = [bench EXCEPT !.databases[s][d] = "failed"]
        OBVIOUS
    <2> HIDE DEF b
    <2>3. QED BY <1>2, <1>3, <2>1, <2>2, HeldOnly
<1>9. CASE Bench!ReloadAnswered(r)
    <2> DEFINE b == IF s \in bench.maps THEN [bench EXCEPT !.databases[s][d] = "loaded"] ELSE bench
               rest == IF s \in bench.maps
                       THEN {[q EXCEPT !.here = @ /\ ~(q.kind = "load" /\ q.server = r.server /\ q.db = r.db)]
                                : q \in Bench!Rest(r)}
                       ELSE Bench!Rest(r)
    <2>1. Bench!Becomes(b, rest) /\ UNCHANGED <<strayed, closedOnce>>
        BY <1>1, <1>9 DEF Bench!ReloadAnswered
    <2>2. b = bench \/ b = [bench EXCEPT !.databases[s][d] = "loaded"]
        OBVIOUS
    <2>3. rest \in SUBSET Bench!Request
        <3>1. ASSUME NEW q \in Bench!Request, NEW x \in BOOLEAN PROVE [q EXCEPT !.here = x] \in Bench!Request
            BY DEF Bench!Request
        <3>2. ASSUME NEW q \in Bench!Rest(r)
              PROVE [q EXCEPT !.here = @ /\ ~(q.kind = "load" /\ q.server = r.server /\ q.db = r.db)] \in Bench!Request
            <4> DEFINE x == q.here /\ ~(q.kind = "load" /\ q.server = r.server /\ q.db = r.db)
            <4>1. q \in Bench!Request /\ x \in BOOLEAN
                BY <1>2
            <4>2. [q EXCEPT !.here = x] \in Bench!Request
                BY <3>1, <4>1
            <4>3. QED BY <4>2
        <3>3. QED BY <1>2, <3>2
    <2> HIDE DEF b, rest
    <2>4. QED BY <1>3, <2>1, <2>2, <2>3, HeldOnly
<1>10. CASE Bench!ReloadFailed(r)
    <2>1. Bench!Becomes(bench, Bench!Rest(r)) /\ UNCHANGED <<strayed, closedOnce>>
        BY <1>10 DEF Bench!ReloadFailed
    <2>2. QED BY <1>2, <1>3, <2>1, HeldOnly
<1>11. QED BY <1>1, <1>4, <1>5, <1>6, <1>7, <1>8, <1>9, <1>10

LEMMA BenchStep ==
    ASSUME BenchInv, Bench!BenchNext
    PROVE  BenchInv'
<1>1. CASE \E s \in Server, d \in Db \cup {NoDb} : Bench!Goto(s, d)
    BY <1>1, Goes
<1>2. CASE Bench!Leave
    BY <1>2, Leaves
<1>3. CASE Bench!CloseDbServer
    BY <1>3, Closes
<1>4. CASE Bench!ReloadDbServer \/ \E d \in Db : Bench!ReloadDatabase(d)
    BY <1>4, Reloads
<1>5. CASE Bench!BenchLogout
    BY <1>5, LogsOut
<1>6. CASE Bench!ServersKnown
    BY <1>6, KnownOnes
<1>7. CASE \E s \in Server, d \in Db \cup {NoDb} : Bench!BenchAnswered(Bench!Kind, s, d)
    BY <1>7, BenchAnswers
<1>8. QED BY <1>1, <1>2, <1>3, <1>4, <1>5, <1>6, <1>7 DEF Bench!BenchNext

-----------------------------------------------------------------------------
(* Induction, and sequences of sequences                                   *)

\* A set of numbers with zero and with the successor of each member holds all numbers.
LEMMA AllNumbers ==
    ASSUME NEW T, 0 \in T, \A n \in Nat : n \in T => n + 1 \in T
    PROVE  Nat \subseteq T
<1> DEFINE Missing == Nat \ T
<1>1. SUFFICES ASSUME Missing # {} PROVE FALSE
    OBVIOUS
<1>2. PICK n \in Missing : \A m \in Missing : n <= m
    BY <1>1, Least
<1>3. n # 0 /\ n - 1 \in Nat
    BY <1>2
<1>4. n - 1 \in T
    BY <1>2, <1>3
<1>5. QED BY <1>2, <1>3, <1>4

LEMMA GreatestId ==
    ASSUME NEW S \in SUBSET Nat, S # {}, NEW b \in Nat, \A x \in S : x <= b
    PROVE  Tabs!Max(S) \in S /\ \A x \in S : x <= Tabs!Max(S)
<1> DEFINE Bounds == {n \in Nat : \A x \in S : x <= n}
<1>1. PICK n \in Bounds : \A m \in Bounds : n <= m
    <2>1. Bounds \subseteq Nat /\ Bounds # {}
        OBVIOUS
    <2> HIDE DEF Bounds
    <2>2. QED BY <2>1, Least
<1>2. n \in S
    <2>1. SUFFICES ASSUME n \notin S PROVE FALSE
        OBVIOUS
    <2>2. PICK x \in S : TRUE
        OBVIOUS
    <2>3. n - 1 \in Nat /\ ~(n <= n - 1)
        BY <2>1, <2>2
    <2>4. n - 1 \in Bounds
        BY <2>1, <2>3
    <2>5. QED BY <1>1, <2>3, <2>4
<1>3. \A x \in S : n >= x
    OBVIOUS
<1>4. Tabs!Max(S) \in S /\ \A x \in S : Tabs!Max(S) >= x
    BY <1>2, <1>3 DEF Tabs!Max
<1>5. QED BY <1>4

\* The function that FlattenSeq computes with.
Flat(f, seqs, n) == f = [i \in 1..n |-> IF i = 1 THEN seqs[i] ELSE f[i - 1] \o seqs[i]]

LEMMA FlatExists ==
    ASSUME NEW seqs, NEW n \in Nat
    PROVE  \E f : Flat(f, seqs, n)
<1> DEFINE T == {k \in Nat : \E f : Flat(f, seqs, k)}
<1>1. 0 \in T
    <2>1. Flat([i \in 1..0 |-> 0], seqs, 0)
        BY DEF Flat
    <2>2. QED BY <2>1
<1>2. ASSUME NEW k \in Nat, k \in T PROVE k + 1 \in T
    <2>1. PICK f : Flat(f, seqs, k)
        BY <1>2
    <2> DEFINE g == [i \in 1..(k + 1) |-> IF i = 1 THEN seqs[i] ELSE f[i - 1] \o seqs[i]]
    <2>2. ASSUME NEW i \in 1..(k + 1), i # 1 PROVE g[i - 1] = f[i - 1]
        <3>1. i - 1 \in 1..k /\ i - 1 \in 1..(k + 1)
            BY <2>2
        <3>2. QED BY <2>1, <3>1 DEF Flat
    <2>3. g = [i \in 1..(k + 1) |-> IF i = 1 THEN seqs[i] ELSE g[i - 1] \o seqs[i]]
        BY <2>2
    <2> HIDE DEF g
    <2>4. Flat(g, seqs, k + 1)
        BY <2>3, Zenon DEF Flat
    <2>5. QED BY <2>4
<1> HIDE DEF T
<1>3. Nat \subseteq T
    BY <1>1, <1>2, AllNumbers
<1>4. QED BY <1>3 DEF T

\* Sequences that hold nothing twice, and nothing in common.
Apart(seqs) ==
    /\ \A m \in DOMAIN seqs : \A i, j \in DOMAIN seqs[m] : seqs[m][i] = seqs[m][j] => i = j
    /\ \A m, n \in DOMAIN seqs : m # n =>
           \A i \in DOMAIN seqs[m], j \in DOMAIN seqs[n] : seqs[m][i] # seqs[n][j]

\* What flat holds of the first n of the sequences.
Holds(flat, seqs, n) ==
    /\ \A m \in 1..n : \A j \in DOMAIN seqs[m] : \E i \in DOMAIN flat : flat[i] = seqs[m][j]
    /\ \A i \in DOMAIN flat : \E m \in 1..n : \E j \in DOMAIN seqs[m] : flat[i] = seqs[m][j]
    /\ \A i, j \in DOMAIN flat : flat[i] = flat[j] => i = j

LEMMA Joined ==
    ASSUME NEW S, NEW flat \in Seq(S), NEW seqs \in Seq(Seq(S)), Apart(seqs),
           NEW n \in Nat, n + 1 <= Len(seqs), Holds(flat, seqs, n)
    PROVE  flat \o seqs[n + 1] \in Seq(S) /\ Holds(flat \o seqs[n + 1], seqs, n + 1)
<1> DEFINE t == seqs[n + 1]
           both == flat \o t
<1>1. n + 1 \in DOMAIN seqs /\ t \in Seq(S) /\ DOMAIN seqs = 1..Len(seqs) /\ Len(seqs) \in Nat
    OBVIOUS
<1>2. \A i, j \in DOMAIN t : t[i] = t[j] => i = j
    BY <1>1 DEF Apart
<1>3. \A m \in 1..n : \A i \in DOMAIN seqs[m], j \in DOMAIN t : seqs[m][i] # t[j]
    <2>1. \A m \in 1..n : m \in DOMAIN seqs /\ m # n + 1
        BY <1>1
    <2>2. QED BY <1>1, <2>1 DEF Apart
<1> HIDE DEF t
<1>4. /\ both \in Seq(S) /\ Len(flat) \in Nat /\ Len(t) \in Nat /\ Len(both) = Len(flat) + Len(t)
      /\ DOMAIN flat = 1..Len(flat) /\ DOMAIN t = 1..Len(t) /\ DOMAIN both = 1..(Len(flat) + Len(t))
      /\ \A i \in 1..(Len(flat) + Len(t)) : both[i] = IF i <= Len(flat) THEN flat[i] ELSE t[i - Len(flat)]
    BY <1>1
<1> HIDE DEF both
<1>5. \A i \in 1..Len(flat) : i \in DOMAIN both /\ both[i] = flat[i]
    BY <1>4
<1>6. ASSUME NEW j \in 1..Len(t)
      PROVE  Len(flat) + j \in DOMAIN both /\ both[Len(flat) + j] = t[j]
    <2>1. /\ Len(flat) + j \in 1..(Len(flat) + Len(t)) /\ ~(Len(flat) + j <= Len(flat))
          /\ (Len(flat) + j) - Len(flat) = j
        BY <1>4
    <2>2. QED BY <1>4, <2>1
<1>7. ASSUME NEW i \in DOMAIN both
      PROVE  \/ i \in 1..Len(flat) /\ both[i] = flat[i]
             \/ i - Len(flat) \in 1..Len(t) /\ both[i] = t[i - Len(flat)]
    <2>1. i \in 1..(Len(flat) + Len(t)) /\ both[i] = IF i <= Len(flat) THEN flat[i] ELSE t[i - Len(flat)]
        BY <1>4
    <2>2. CASE i <= Len(flat)
        BY <1>4, <2>1, <2>2
    <2>3. CASE ~(i <= Len(flat))
        <3>1. i - Len(flat) \in 1..Len(t)
            BY <1>4, <2>1, <2>3
        <3>2. QED BY <2>1, <2>3, <3>1
    <2>4. QED BY <2>2, <2>3
<1>8. ASSUME NEW m \in 1..(n + 1), NEW j \in DOMAIN seqs[m]
      PROVE  \E i \in DOMAIN both : both[i] = seqs[m][j]
    <2>1. CASE m \in 1..n
        <3>1. PICK i \in DOMAIN flat : flat[i] = seqs[m][j]
            BY <2>1 DEF Holds
        <3>2. QED BY <1>4, <1>5, <3>1
    <2>2. CASE m = n + 1
        BY <1>4, <1>6, <2>2 DEF t
    <2>3. QED BY <2>1, <2>2
<1>9. ASSUME NEW i \in DOMAIN both
      PROVE  \E m \in 1..(n + 1) : \E j \in DOMAIN seqs[m] : both[i] = seqs[m][j]
    <2>1. CASE i \in 1..Len(flat) /\ both[i] = flat[i]
        <3>1. PICK m \in 1..n : \E j \in DOMAIN seqs[m] : flat[i] = seqs[m][j]
            BY <1>4, <2>1 DEF Holds
        <3>2. m \in 1..(n + 1)
            OBVIOUS
        <3>3. QED BY <2>1, <3>1, <3>2
    <2>2. CASE i - Len(flat) \in 1..Len(t) /\ both[i] = t[i - Len(flat)]
        <3>1. n + 1 \in 1..(n + 1)
            OBVIOUS
        <3>2. QED BY <1>4, <2>2, <3>1 DEF t
    <2>3. QED BY <1>7, <2>1, <2>2
<1>10. \A i \in DOMAIN flat, j \in DOMAIN t : flat[i] # t[j]
    <2>1. SUFFICES ASSUME NEW i \in DOMAIN flat, NEW j \in DOMAIN t, flat[i] = t[j] PROVE FALSE
        OBVIOUS
    <2>2. PICK m \in 1..n : \E k \in DOMAIN seqs[m] : flat[i] = seqs[m][k]
        BY DEF Holds
    <2>3. PICK k \in DOMAIN seqs[m] : flat[i] = seqs[m][k]
        BY <2>2
    <2>4. QED BY <1>3, <2>1, <2>3
<1>11. ASSUME NEW i \in DOMAIN both, NEW j \in DOMAIN both, both[i] = both[j] PROVE i = j
    <2>1. CASE i \in 1..Len(flat) /\ both[i] = flat[i] /\ j \in 1..Len(flat) /\ both[j] = flat[j]
        BY <1>4, <1>11, <2>1 DEF Holds
    <2>2. CASE /\ i - Len(flat) \in 1..Len(t) /\ both[i] = t[i - Len(flat)]
               /\ j - Len(flat) \in 1..Len(t) /\ both[j] = t[j - Len(flat)]
        <3>1. i - Len(flat) = j - Len(flat)
            BY <1>2, <1>4, <1>11, <2>2
        <3>2. QED BY <1>4, <3>1
    <2>3. QED BY <1>4, <1>7, <1>10, <1>11, <2>1, <2>2
<1>12. Holds(both, seqs, n + 1)
    BY <1>8, <1>9, <1>11 DEF Holds
<1>13. QED BY <1>4, <1>12 DEF both, t

LEMMA Flattened ==
    ASSUME NEW S, NEW seqs \in Seq(Seq(S)), Apart(seqs)
    PROVE  Tabs!FlattenSeq(seqs) \in Seq(S) /\ Holds(Tabs!FlattenSeq(seqs), seqs, Len(seqs))
<1> DEFINE n == Len(seqs)
           f == CHOOSE f : Flat(f, seqs, n)
<1>1. n \in Nat
    OBVIOUS
<1>2. CASE n = 0
    <2>1. seqs = <<>> /\ Tabs!FlattenSeq(seqs) = <<>>
        BY <1>2 DEF Tabs!FlattenSeq
    <2>2. Holds(<<>>, seqs, 0) /\ <<>> \in Seq(S)
        BY DEF Holds
    <2>3. QED BY <1>2, <2>1, <2>2
<1>3. CASE n # 0
    <2> HIDE DEF n
    <2>1. Flat(f, seqs, n)
        BY <1>1, FlatExists, ZenonT(60)
    <2>2. Tabs!FlattenSeq(seqs) = f[n]
        BY <1>1, <1>3, <2>1, ZenonT(60) DEF Tabs!FlattenSeq, Flat, n
    <2>3. f = [i \in 1..n |-> IF i = 1 THEN seqs[i] ELSE f[i - 1] \o seqs[i]]
        BY <2>1, Zenon DEF Flat
    <2> HIDE DEF f
    <2>4. seqs[1] \in Seq(S) /\ Holds(seqs[1], seqs, 1) /\ 1 \in 1..n
        <3>1. 1 \in DOMAIN seqs
            BY <1>1, <1>3 DEF n
        <3>2. \A i, j \in DOMAIN seqs[1] : seqs[1][i] = seqs[1][j] => i = j
            BY <3>1 DEF Apart
        <3>3. QED BY <1>1, <1>3, <3>1, <3>2 DEF Holds
    <2>5. f[1] \in Seq(S) /\ Holds(f[1], seqs, 1)
        BY <2>3, <2>4
    <2> DEFINE T == {k \in Nat : k + 1 <= n => f[k + 1] \in Seq(S) /\ Holds(f[k + 1], seqs, k + 1)}
    <2>6. 0 \in T
        BY <2>5
    <2>7. ASSUME NEW k \in Nat, k \in T PROVE k + 1 \in T
        <3>1. SUFFICES ASSUME (k + 1) + 1 <= n
                       PROVE  f[(k + 1) + 1] \in Seq(S) /\ Holds(f[(k + 1) + 1], seqs, (k + 1) + 1)
            OBVIOUS
        <3>2. f[k + 1] \in Seq(S) /\ Holds(f[k + 1], seqs, k + 1)
            BY <1>1, <2>7, <3>1
        <3>3. PICK i \in 1..n : i = (k + 1) + 1
            BY <1>1, <3>1
        <3>4. i # 1 /\ i - 1 = k + 1
            BY <3>3
        <3>5. f[(k + 1) + 1] = f[k + 1] \o seqs[(k + 1) + 1]
            BY <2>3, <3>3, <3>4
        <3>6. k + 1 \in Nat /\ (k + 1) + 1 <= Len(seqs)
            BY <3>1 DEF n
        <3>7. QED BY <3>2, <3>5, <3>6, Joined
    <2> HIDE DEF T
    <2>8. Nat \subseteq T
        BY <2>6, <2>7, AllNumbers
    <2>9. PICK k \in Nat : k + 1 = n
        <3>1. n - 1 \in Nat /\ (n - 1) + 1 = n
            BY <1>1, <1>3
        <3>2. QED BY <3>1
    <2>10. k \in T
        BY <2>8
    <2>11. f[n] \in Seq(S) /\ Holds(f[n], seqs, n)
        BY <1>1, <2>9, <2>10 DEF T
    <2>12. QED BY <2>2, <2>11 DEF n
<1>4. QED BY <1>2, <1>3

-----------------------------------------------------------------------------
(* The query editors of a server                                           *)

\* The objects of a database, one for each time it was read.
IsHistory(o) ==
    /\ o \in Seq(Tabs!Object) /\ Len(o) <= MaxReloads + 1
    /\ \A n \in DOMAIN o : Len(o[n].editors) <= MaxTabs + 1

EditorsTyped ==
    /\ DOMAIN objects = Base /\ \A b \in Base : IsHistory(objects[b])
    /\ order \in Seq(Base) /\ Tabs!ToSet(order) = {b \in Base : objects[b] # <<>>}
    /\ Tabs!IsInjective(order)
    /\ activeBase \in Base \cup {NoBase}
    /\ fetches \in SUBSET Tabs!Fetch
    /\ astray \in BOOLEAN
    /\ \A f \in fetches : objects[f.base] # <<>> /\ (f.kind = "reload" => Len(objects[f.base]) <= MaxReloads)
    /\ \A f, g \in fetches : f.base = g.base => f = g

BenchCurrent(o) == o[Len(o)]
Copies(o) == \E j \in DOMAIN BenchCurrent(o).editors : BenchCurrent(o).editors[j].home # Len(o)

(* The editors in place are of the object in place, or all of the one that *)
(* it has replaced, which has the same active editor.                      *)
Homes(o) ==
    \/ ~Copies(o)
    \/ /\ Len(o) > 1 /\ o[Len(o) - 1].activeQueryId = BenchCurrent(o).activeQueryId
       /\ \A j \in DOMAIN BenchCurrent(o).editors :
              /\ BenchCurrent(o).editors[j].home = Len(o) - 1
              /\ \E k \in DOMAIN o[Len(o) - 1].editors :
                     o[Len(o) - 1].editors[k].id = BenchCurrent(o).editors[j].id

Sound(o) ==
    /\ \A j \in DOMAIN BenchCurrent(o).editors : ~BenchCurrent(o).editors[j].isClosed
    /\ \A i, j \in DOMAIN BenchCurrent(o).editors : BenchCurrent(o).editors[i].id = BenchCurrent(o).editors[j].id => i = j
    /\ \/ BenchCurrent(o).editors = <<>>
       \/ \E j \in DOMAIN BenchCurrent(o).editors : BenchCurrent(o).editors[j].id = BenchCurrent(o).activeQueryId
    /\ Homes(o)

EditorsInv == EditorsTyped /\ (~astray => \A b \in Base : objects[b] # <<>> => Sound(objects[b]))

LEMMA EditorBounds == MaxTabs \in Nat /\ MaxReloads \in Nat /\ NoBase \notin Base
BY TabAssumption DEF Tabs!EditorsAssumption

LEMMA HistoryFacts ==
    ASSUME NEW o, IsHistory(o), o # <<>>
    PROVE  /\ Len(o) \in Nat \ {0} /\ DOMAIN o = 1..Len(o) /\ Len(o) \in DOMAIN o
           /\ Len(o) \in Tabs!Number
           /\ \A n \in DOMAIN o :
                  /\ o[n] \in Tabs!Object /\ o[n].editors \in Seq(Tabs!Editor)
                  /\ o[n].activeQueryId \in 0..(MaxTabs + 1)
                  /\ Len(o[n].editors) \in Nat /\ Len(o[n].editors) <= MaxTabs + 1
                  /\ DOMAIN o[n].editors = 1..Len(o[n].editors)
                  /\ \A j \in DOMAIN o[n].editors :
                         /\ o[n].editors[j] \in Tabs!Editor
                         /\ o[n].editors[j].id \in 1..(MaxTabs + 1) /\ o[n].editors[j].home \in Nat \ {0}
<1>1. o \in Seq(Tabs!Object) /\ Len(o) \in Nat /\ DOMAIN o = 1..Len(o) /\ Len(o) # 0
    BY DEF IsHistory
<1>2. Len(o) <= MaxReloads + 1
    BY DEF IsHistory
<1>3. Len(o) \in Tabs!Number
    BY <1>1, <1>2, EditorBounds DEF Tabs!Number
<1>4. ASSUME NEW n \in DOMAIN o
      PROVE  /\ o[n] \in Tabs!Object /\ o[n].editors \in Seq(Tabs!Editor)
             /\ o[n].activeQueryId \in 0..(MaxTabs + 1)
             /\ Len(o[n].editors) \in Nat /\ Len(o[n].editors) <= MaxTabs + 1
             /\ DOMAIN o[n].editors = 1..Len(o[n].editors)
             /\ \A j \in DOMAIN o[n].editors :
                    /\ o[n].editors[j] \in Tabs!Editor
                    /\ o[n].editors[j].id \in 1..(MaxTabs + 1) /\ o[n].editors[j].home \in Nat \ {0}
    <2>1. o[n] \in Tabs!Object
        BY <1>1
    <2>2. o[n].editors \in Seq(Tabs!Editor) /\ o[n].activeQueryId \in 0..(MaxTabs + 1)
        BY <2>1 DEF Tabs!Object
    <2>3. Len(o[n].editors) \in Nat /\ Len(o[n].editors) <= MaxTabs + 1
          /\ DOMAIN o[n].editors = 1..Len(o[n].editors)
        BY <2>2 DEF IsHistory
    <2>4. \A j \in DOMAIN o[n].editors : o[n].editors[j] \in Tabs!Editor
        BY <2>2
    <2>5. \A e \in Tabs!Editor : e.id \in 1..(MaxTabs + 1) /\ e.home \in Nat \ {0}
        BY EditorBounds DEF Tabs!Editor, Tabs!Id, Tabs!Number
    <2>6. QED BY <2>1, <2>2, <2>3, <2>4, <2>5
<1>5. QED BY <1>1, <1>3, <1>4

LEMMA NextId ==
    ASSUME NEW x \in Tabs!Object
    PROVE  /\ Tabs!NextQueryId(x) \in Nat \ {0}
           /\ \A j \in DOMAIN x.editors : x.editors[j].id < Tabs!NextQueryId(x)
           /\ x.editors = <<>> => Tabs!NextQueryId(x) = 1
<1> DEFINE ids == {e.id : e \in Tabs!ToSet(x.editors)}
           S == {0} \cup ids
<1>1. x.editors \in Seq(Tabs!Editor)
    BY DEF Tabs!Object
<1>2. \A j \in DOMAIN x.editors : x.editors[j].id \in ids
    BY DEF Tabs!ToSet
<1>3. \A y \in ids : y \in Nat /\ y <= MaxTabs + 1
    <2>1. \A e \in Tabs!ToSet(x.editors) : e \in Tabs!Editor
        BY <1>1 DEF Tabs!ToSet
    <2>2. \A e \in Tabs!Editor : e.id \in Nat /\ e.id <= MaxTabs + 1
        BY EditorBounds DEF Tabs!Editor, Tabs!Id
    <2>3. QED BY <2>1, <2>2
<1>4. S \in SUBSET Nat /\ S # {} /\ \A y \in S : y <= MaxTabs + 1
    BY <1>3, EditorBounds
<1>5. x.editors = <<>> => S = {0}
    BY DEF Tabs!ToSet
<1> HIDE DEF ids, S
<1>6. Tabs!Max(S) \in S /\ \A y \in S : y <= Tabs!Max(S)
    <2>1. MaxTabs + 1 \in Nat
        BY EditorBounds
    <2>2. QED BY <1>4, <2>1, GreatestId
<1>7. Tabs!NextQueryId(x) = 1 + Tabs!Max(S)
    BY DEF Tabs!NextQueryId, S, ids
<1>8. Tabs!Max(S) \in Nat
    BY <1>4, <1>6
<1>9. \A j \in DOMAIN x.editors : x.editors[j].id \in S /\ x.editors[j].id \in Nat
    BY <1>2, <1>3 DEF S
<1>10. QED BY <1>5, <1>6, <1>7, <1>8, <1>9

\* A query is added to an object, as to its home.
LEMMA AddsTo ==
    ASSUME NEW x \in Tabs!Object, NEW h \in Tabs!Number, Tabs!NextQueryId(x) \in Tabs!Id
    PROVE  LET y == Tabs!WithQuery(x, h)
               new == Tabs!NewEditor(Tabs!NextQueryId(x), h) IN
           /\ y \in Tabs!Object /\ Len(y.editors) = Len(x.editors) + 1
           /\ y.activeQueryId = Tabs!NextQueryId(x)
           /\ \A j \in DOMAIN y.editors : y.editors[j] = IF j = Len(x.editors) + 1 THEN new ELSE x.editors[j]
           /\ new.id = Tabs!NextQueryId(x) /\ new.home = h /\ new.isClosed = FALSE
<1> DEFINE y == Tabs!WithQuery(x, h)
           new == Tabs!NewEditor(Tabs!NextQueryId(x), h)
<1>1. new \in Tabs!Editor /\ new.id = Tabs!NextQueryId(x) /\ new.home = h /\ new.isClosed = FALSE
    BY DEF Tabs!NewEditor, Tabs!Editor
<1>2. y.editors = Append(x.editors, new) /\ y.activeQueryId = Tabs!NextQueryId(x)
      /\ y = [editors |-> Append(x.editors, new), activeQueryId |-> Tabs!NextQueryId(x)]
    BY DEF Tabs!WithQuery
<1> HIDE DEF y, new
<1>3. x.editors \in Seq(Tabs!Editor)
    BY DEF Tabs!Object
<1>4. y.editors \in Seq(Tabs!Editor) /\ Len(y.editors) = Len(x.editors) + 1
      /\ \A j \in DOMAIN y.editors : y.editors[j] = IF j = Len(x.editors) + 1 THEN new ELSE x.editors[j]
    BY <1>1, <1>2, <1>3
<1>5. Tabs!NextQueryId(x) \in 0..(MaxTabs + 1)
    BY EditorBounds DEF Tabs!Id
<1>6. y \in Tabs!Object
    BY <1>2, <1>4, <1>5 DEF Tabs!Object
<1>7. QED BY <1>1, <1>2, <1>4, <1>6 DEF y, new

LEMMA QueryPut ==
    ASSUME NEW o, IsHistory(o), NEW n \in DOMAIN o, Len(o[n].editors) <= MaxTabs,
           Tabs!NextQueryId(o[n]) \in Tabs!Id
    PROVE  LET p == [o EXCEPT ![n] = Tabs!WithQuery(@, n)] IN
           /\ IsHistory(p) /\ Len(p) = Len(o) /\ p # <<>>
           /\ /\ Sound(o)
              /\ n = Len(o) \/ \E j \in DOMAIN BenchCurrent(o).editors : BenchCurrent(o).editors[j].home = n
              /\ Copies(o) => Tabs!NextQueryId(o[n]) = BenchCurrent(o).activeQueryId
              => Sound(p)
<1> DEFINE y == Tabs!WithQuery(o[n], n)
           id == Tabs!NextQueryId(o[n])
           new == Tabs!NewEditor(id, n)
           p == [o EXCEPT ![n] = y]
<1>0. o # <<>>
    <2>1. o \in Seq(Tabs!Object)
        BY DEF IsHistory
    <2>2. QED BY <2>1
<1>1. /\ Len(o) \in Nat \ {0} /\ DOMAIN o = 1..Len(o) /\ Len(o) \in DOMAIN o
      /\ \A m \in DOMAIN o :
             /\ o[m] \in Tabs!Object /\ Len(o[m].editors) \in Nat /\ Len(o[m].editors) <= MaxTabs + 1
             /\ o[m].editors \in Seq(Tabs!Editor) /\ DOMAIN o[m].editors = 1..Len(o[m].editors)
    BY <1>0, HistoryFacts
<1>2. n \in Tabs!Number
    <2>1. Len(o) <= MaxReloads + 1
        BY DEF IsHistory
    <2>2. QED BY <1>1, <2>1, EditorBounds DEF Tabs!Number
<1>3. /\ y \in Tabs!Object /\ Len(y.editors) = Len(o[n].editors) + 1 /\ y.activeQueryId = id
      /\ \A j \in DOMAIN y.editors : y.editors[j] = IF j = Len(o[n].editors) + 1 THEN new ELSE o[n].editors[j]
      /\ new.id = id /\ new.home = n /\ new.isClosed = FALSE
    <2>1. o[n] \in Tabs!Object
        BY <1>1
    <2>2. QED BY <1>2, <2>1, AddsTo, ZenonT(60)
<1>4. id \in Nat /\ \A j \in DOMAIN o[n].editors : o[n].editors[j].id < id
    BY <1>1, NextId
<1> HIDE DEF y, id, new
<1>5. o \in Seq(Tabs!Object)
    BY DEF IsHistory
<1>6. p \in Seq(Tabs!Object) /\ Len(p) = Len(o) /\ DOMAIN p = DOMAIN o
      /\ \A m \in DOMAIN o : p[m] = IF m = n THEN y ELSE o[m]
    BY <1>1, <1>3, <1>5
<1> HIDE DEF p
<1>7. IsHistory(p) /\ p # <<>>
    <2>1. Len(p) <= MaxReloads + 1
        BY <1>6 DEF IsHistory
    <2>2. Len(y.editors) <= MaxTabs + 1
        BY <1>1, <1>3, EditorBounds
    <2>3. \A m \in DOMAIN p : Len(p[m].editors) <= MaxTabs + 1
        BY <1>1, <1>6, <2>2
    <2>4. p # <<>>
        BY <1>1, <1>6
    <2>5. QED BY <1>6, <2>1, <2>3, <2>4 DEF IsHistory
<1>8. ASSUME Sound(o),
             n = Len(o) \/ \E j \in DOMAIN BenchCurrent(o).editors : BenchCurrent(o).editors[j].home = n,
             Copies(o) => id = BenchCurrent(o).activeQueryId
      PROVE  Sound(p)
    <2>1. ~Copies(o)
        <3> SUFFICES ASSUME Copies(o) PROVE FALSE
            OBVIOUS
        <3>1. PICK j \in DOMAIN BenchCurrent(o).editors : BenchCurrent(o).editors[j].id = id
            <4>1. BenchCurrent(o).editors # <<>>
                BY DEF Copies
            <4>2. QED BY <1>8, <4>1 DEF Sound
        <3>2. CASE n = Len(o)
            BY <1>1, <1>3, <1>4, <3>1, <3>2 DEF BenchCurrent
        <3>3. CASE n # Len(o)
            <4>1. n = Len(o) - 1
                BY <1>8, <3>3 DEF Sound, Homes
            <4>2. PICK k \in DOMAIN o[n].editors : o[n].editors[k].id = id
                BY <1>8, <3>1, <4>1 DEF Sound, Homes
            <4>3. QED BY <1>4, <4>2
        <3>4. QED BY <3>2, <3>3
    <2>2. n = Len(o)
        BY <1>8, <2>1 DEF Copies
    <2>3. BenchCurrent(p) = y /\ BenchCurrent(o) = o[n]
        BY <1>1, <1>6, <2>2 DEF BenchCurrent
    <2>4. DOMAIN y.editors = 1..(Len(o[n].editors) + 1)
        <3>1. y.editors \in Seq(Tabs!Editor)
            BY <1>3 DEF Tabs!Object
        <3>2. QED BY <1>3, <3>1
    <2>5. \A j \in DOMAIN y.editors :
              \/ j = Len(o[n].editors) + 1 /\ y.editors[j] = new
              \/ j \in DOMAIN o[n].editors /\ y.editors[j] = o[n].editors[j]
        BY <1>1, <1>3, <2>4
    <2>6. \A j \in DOMAIN o[n].editors : ~o[n].editors[j].isClosed /\ o[n].editors[j].home = n
        BY <1>8, <2>1, <2>2, <2>3 DEF Sound, Copies
    <2>7. \A j \in DOMAIN y.editors : ~y.editors[j].isClosed /\ y.editors[j].home = n
        BY <1>3, <2>5, <2>6
    <2>8. \A i, j \in DOMAIN y.editors : y.editors[i].id = y.editors[j].id => i = j
        <3>1. \A i, j \in DOMAIN o[n].editors : o[n].editors[i].id = o[n].editors[j].id => i = j
            BY <1>8, <2>3 DEF Sound
        <3>2. \A j \in DOMAIN o[n].editors : o[n].editors[j].id # id
            BY <1>1, <1>4
        <3>3. QED BY <1>3, <2>5, <3>1, <3>2
    <2>9. \E j \in DOMAIN y.editors : y.editors[j].id = y.activeQueryId
        <3>1. Len(o[n].editors) + 1 \in DOMAIN y.editors
            BY <1>1, <2>4
        <3>2. QED BY <1>3, <3>1
    <2>10. ~Copies(p)
        BY <1>6, <2>2, <2>3, <2>7 DEF Copies
    <2>11. QED BY <2>3, <2>7, <2>8, <2>9, <2>10 DEF Sound, Homes
<1>9. QED BY <1>6, <1>7, <1>8 DEF p, y, id

\* An editor becomes the active one of an object.
WithActive(o, h, id) == [o EXCEPT ![h].activeQueryId = id]

LEMMA ActivePut ==
    ASSUME NEW o, IsHistory(o), o # <<>>, NEW h, NEW id \in 1..(MaxTabs + 1)
    PROVE  LET p == WithActive(o, h, id) IN
           /\ IsHistory(p) /\ Len(p) = Len(o) /\ p # <<>> /\ DOMAIN p = DOMAIN o
           /\ \A m \in DOMAIN o : /\ p[m].editors = o[m].editors
                                  /\ p[m].activeQueryId = IF m = h THEN id ELSE o[m].activeQueryId
<1> DEFINE p == WithActive(o, h, id)
<1>1. /\ Len(o) \in Nat \ {0} /\ DOMAIN o = 1..Len(o)
      /\ \A m \in DOMAIN o : o[m] \in Tabs!Object /\ Len(o[m].editors) <= MaxTabs + 1
    BY HistoryFacts
<1>2. ASSUME NEW x \in Tabs!Object
      PROVE  /\ [x EXCEPT !.activeQueryId = id] \in Tabs!Object
             /\ [x EXCEPT !.activeQueryId = id].editors = x.editors
             /\ [x EXCEPT !.activeQueryId = id].activeQueryId = id
    BY EditorBounds DEF Tabs!Object
<1>3. o \in Seq(Tabs!Object)
    BY DEF IsHistory
<1>4. DOMAIN p = 1..Len(o) /\ \A m \in DOMAIN o : p[m] = IF m = h THEN [o[m] EXCEPT !.activeQueryId = id] ELSE o[m]
    BY <1>1, <1>3 DEF WithActive
<1>5. p = [m \in 1..Len(o) |-> p[m]]
    BY <1>1, <1>3 DEF WithActive
<1> HIDE DEF p
<1>6. \A m \in DOMAIN o :
          /\ p[m] \in Tabs!Object /\ p[m].editors = o[m].editors
          /\ p[m].activeQueryId = IF m = h THEN id ELSE o[m].activeQueryId
    BY <1>1, <1>2, <1>4
<1>7. p \in Seq(Tabs!Object) /\ Len(p) = Len(o)
    BY <1>1, <1>4, <1>5, <1>6
<1>8. IsHistory(p) /\ p # <<>>
    <2>1. Len(p) <= MaxReloads + 1
        BY <1>7 DEF IsHistory
    <2>2. QED BY <1>1, <1>4, <1>6, <1>7, <2>1 DEF IsHistory
<1>9. QED BY <1>1, <1>4, <1>6, <1>7, <1>8 DEF p

LEMMA SoundPut ==
    ASSUME NEW o, IsHistory(o), o # <<>>, Sound(o), NEW j \in DOMAIN BenchCurrent(o).editors,
           Copies(o) => BenchCurrent(o).editors[j].id = BenchCurrent(o).activeQueryId
    PROVE  Sound([o EXCEPT ![BenchCurrent(o).editors[j].home].activeQueryId = BenchCurrent(o).editors[j].id])
<1> DEFINE e == BenchCurrent(o).editors[j]
           p == [o EXCEPT ![e.home].activeQueryId = e.id]
<1>1. /\ Len(o) \in Nat \ {0} /\ DOMAIN o = 1..Len(o) /\ Len(o) \in DOMAIN o
    BY HistoryFacts
<1>2. e.id \in 1..(MaxTabs + 1)
    BY <1>1, HistoryFacts DEF BenchCurrent
<1>3. /\ Len(p) = Len(o) /\ DOMAIN p = DOMAIN o
      /\ \A m \in DOMAIN o : /\ p[m].editors = o[m].editors
                             /\ p[m].activeQueryId = IF m = e.home THEN e.id ELSE o[m].activeQueryId
    <2> DEFINE h == e.home
               id == e.id
    <2>1. p = WithActive(o, h, id)
        BY DEF WithActive
    <2>2. id \in 1..(MaxTabs + 1)
        BY <1>2
    <2> HIDE DEF p, h, id
    <2>3. /\ Len(p) = Len(o) /\ DOMAIN p = DOMAIN o
          /\ \A m \in DOMAIN o : /\ p[m].editors = o[m].editors
                                 /\ p[m].activeQueryId = IF m = h THEN id ELSE o[m].activeQueryId
        BY <2>1, <2>2, ActivePut
    <2>4. QED BY <2>3 DEF h, id
<1>4. e.home = Len(o) \/ (Copies(o) /\ e.home = Len(o) - 1 /\ Len(o) > 1 /\ e.id = BenchCurrent(o).activeQueryId)
    BY DEF Sound, Homes, Copies
<1>5. j \in DOMAIN BenchCurrent(o).editors /\ e = BenchCurrent(o).editors[j]
    OBVIOUS
<1> HIDE DEF e, p
<1>6. BenchCurrent(p).editors = BenchCurrent(o).editors /\ BenchCurrent(p).activeQueryId = e.id
    BY <1>1, <1>3, <1>4 DEF BenchCurrent
<1>7. Homes(p)
    <2>1. CASE ~Copies(o)
        BY <1>3, <1>6, <2>1 DEF Homes, Copies
    <2>2. CASE Copies(o)
        <3>1. /\ Len(o) > 1 /\ o[Len(o) - 1].activeQueryId = BenchCurrent(o).activeQueryId
              /\ \A k \in DOMAIN BenchCurrent(o).editors :
                     /\ BenchCurrent(o).editors[k].home = Len(o) - 1
                     /\ \E l \in DOMAIN o[Len(o) - 1].editors :
                            o[Len(o) - 1].editors[l].id = BenchCurrent(o).editors[k].id
            BY <2>2 DEF Sound, Homes
        <3>2. Len(o) - 1 \in DOMAIN o
            BY <1>1, <3>1
        <3>3. p[Len(o) - 1].editors = o[Len(o) - 1].editors /\ p[Len(o) - 1].activeQueryId = e.id
            BY <1>3, <1>5, <2>2, <3>1, <3>2
        <3>4. QED BY <1>3, <1>6, <3>1, <3>3 DEF Homes
    <2>3. QED BY <2>1, <2>2
<1>8. Sound(p)
    BY <1>5, <1>6, <1>7 DEF Sound
<1>9. QED BY <1>8 DEF p, e

Tab == [base : Base, at : Nat]

LEMMA TheRow ==
    ASSUME EditorsTyped
    PROVE  /\ Tabs!Row \in Seq(Tab)
           /\ \A i, j \in DOMAIN Tabs!Row : Tabs!Row[i] = Tabs!Row[j] => i = j
           /\ \A t : t \in Tabs!ToSet(Tabs!Row) <=>
                         t \in Tab /\ objects[t.base] # <<>> /\ t.at \in DOMAIN Tabs!Tabs(t.base)
<1> DEFINE seqs == [m \in DOMAIN order |-> [j \in DOMAIN Tabs!Tabs(order[m]) |-> [base |-> order[m], at |-> j]]]
<1>1. Len(order) \in Nat /\ DOMAIN order = 1..Len(order) /\ \A m \in DOMAIN order : order[m] \in Base
    BY DEF EditorsTyped
<1>2. \A m \in DOMAIN order : objects[order[m]] # <<>>
    <2>1. \A m \in DOMAIN order : order[m] \in Tabs!ToSet(order)
        BY DEF Tabs!ToSet
    <2>2. QED BY <2>1 DEF EditorsTyped
<1>3. ASSUME NEW b \in Base, objects[b] # <<>>
      PROVE  Len(Tabs!Tabs(b)) \in Nat /\ DOMAIN Tabs!Tabs(b) = 1..Len(Tabs!Tabs(b))
    <2>1. IsHistory(objects[b])
        BY DEF EditorsTyped
    <2>2. QED BY <1>3, <2>1, HistoryFacts DEF Tabs!Tabs, Tabs!Last
<1>4. ASSUME NEW m \in DOMAIN order
      PROVE  /\ seqs[m] \in Seq(Tab) /\ DOMAIN seqs[m] = DOMAIN Tabs!Tabs(order[m])
             /\ \A j \in DOMAIN seqs[m] : seqs[m][j] = [base |-> order[m], at |-> j]
    <2> DEFINE b == order[m]
               n == Len(Tabs!Tabs(b))
    <2>1. b \in Base /\ n \in Nat /\ DOMAIN Tabs!Tabs(b) = 1..n
        BY <1>1, <1>2, <1>3
    <2>2. seqs[m] = [j \in DOMAIN Tabs!Tabs(b) |-> [base |-> b, at |-> j]]
        OBVIOUS
    <2> HIDE DEF b, n, seqs
    <2>3. \A j \in 1..n : [base |-> b, at |-> j] \in Tab
        BY <2>1 DEF Tab
    <2>4. [j \in 1..n |-> [base |-> b, at |-> j]] \in Seq(Tab)
        BY <2>1, <2>3
    <2>5. seqs[m] \in Seq(Tab) /\ DOMAIN seqs[m] = DOMAIN Tabs!Tabs(b)
          /\ \A j \in DOMAIN seqs[m] : seqs[m][j] = [base |-> b, at |-> j]
        BY <2>1, <2>2, <2>4
    <2>6. QED BY <2>5 DEF b
<1>5. DOMAIN seqs = DOMAIN order
    OBVIOUS
<1> HIDE DEF seqs
<1>6. seqs \in Seq(Seq(Tab)) /\ Len(seqs) = Len(order)
    <2>1. seqs = [m \in 1..Len(order) |-> seqs[m]]
        BY <1>1 DEF seqs
    <2>2. QED BY <1>1, <1>4, <1>5, <2>1
<1>7. Apart(seqs)
    <2>1. ASSUME NEW m \in DOMAIN seqs, NEW i \in DOMAIN seqs[m], NEW j \in DOMAIN seqs[m], seqs[m][i] = seqs[m][j]
          PROVE  i = j
        <3>1. [base |-> order[m], at |-> i] = [base |-> order[m], at |-> j]
            BY <1>4, <1>5, <2>1
        <3>2. QED BY <3>1
    <2>2. ASSUME NEW m \in DOMAIN seqs, NEW n \in DOMAIN seqs, m # n,
                 NEW i \in DOMAIN seqs[m], NEW j \in DOMAIN seqs[n]
          PROVE  seqs[m][i] # seqs[n][j]
        <3>1. order[m] # order[n]
            BY <1>5, <2>2 DEF EditorsTyped, Tabs!IsInjective
        <3>2. seqs[m][i] = [base |-> order[m], at |-> i] /\ seqs[n][j] = [base |-> order[n], at |-> j]
            BY <1>4, <1>5
        <3>3. QED BY <3>1, <3>2
    <2>3. QED BY <2>1, <2>2 DEF Apart
<1>8. Tabs!Row \in Seq(Tab) /\ Holds(Tabs!Row, seqs, Len(order))
    <2>1. Tabs!Row = Tabs!FlattenSeq(seqs)
        BY DEF Tabs!Row, seqs
    <2>2. QED BY <1>6, <1>7, <2>1, Flattened
<1>9. \A i, j \in DOMAIN Tabs!Row : Tabs!Row[i] = Tabs!Row[j] => i = j
    BY <1>8 DEF Holds
<1>10. ASSUME NEW t \in Tabs!ToSet(Tabs!Row)
       PROVE  t \in Tab /\ objects[t.base] # <<>> /\ t.at \in DOMAIN Tabs!Tabs(t.base)
    <2>1. PICK i \in DOMAIN Tabs!Row : t = Tabs!Row[i]
        BY DEF Tabs!ToSet
    <2>2. PICK m \in 1..Len(order) : \E j \in DOMAIN seqs[m] : t = seqs[m][j]
        BY <1>8, <2>1 DEF Holds
    <2>3. PICK j \in DOMAIN seqs[m] : t = seqs[m][j]
        BY <2>2
    <2>4. m \in DOMAIN order
        BY <1>1
    <2>5. t = [base |-> order[m], at |-> j] /\ j \in DOMAIN Tabs!Tabs(order[m]) /\ seqs[m] \in Seq(Tab)
        BY <1>4, <2>3, <2>4
    <2>6. t.base = order[m] /\ t.at = j
        BY <2>5
    <2>7. t \in Tab
        BY <1>8, <2>1
    <2>8. QED BY <1>2, <2>4, <2>5, <2>6, <2>7
<1>11. ASSUME NEW t \in Tab, objects[t.base] # <<>>, t.at \in DOMAIN Tabs!Tabs(t.base)
       PROVE  t \in Tabs!ToSet(Tabs!Row)
    <2>1. t.base \in Base /\ t = [base |-> t.base, at |-> t.at]
        BY DEF Tab
    <2>2. t.base \in Tabs!ToSet(order)
        BY <1>11, <2>1 DEF EditorsTyped
    <2>3. PICK m \in DOMAIN order : order[m] = t.base
        BY <2>2 DEF Tabs!ToSet
    <2>4. t.at \in DOMAIN seqs[m] /\ seqs[m][t.at] = t
        BY <1>4, <1>11, <2>1, <2>3
    <2>5. m \in 1..Len(order)
        BY <1>1
    <2>6. PICK i \in DOMAIN Tabs!Row : Tabs!Row[i] = t
        BY <1>8, <2>4, <2>5 DEF Holds
    <2>7. QED BY <2>6 DEF Tabs!ToSet
<1>12. QED BY <1>8, <1>9, <1>10, <1>11

\* Of a tab: the history of its database, and its editor.
LEMMA TabFacts ==
    ASSUME EditorsTyped, NEW t \in Tabs!ToSet(Tabs!Row)
    PROVE  LET o == objects[t.base] IN
           /\ t.base \in Base /\ IsHistory(o) /\ o # <<>>
           /\ t.at \in DOMAIN BenchCurrent(o).editors /\ Tabs!EditorAt(t) = BenchCurrent(o).editors[t.at]
           /\ Tabs!EditorAt(t).id \in 1..(MaxTabs + 1)
           /\ Tabs!Tabs(t.base) = BenchCurrent(o).editors /\ Tabs!Place(t.base) = Len(o)
           /\ Tabs!HasCopies(t.base) <=> Copies(o)
           /\ t = [base |-> t.base, at |-> t.at]
<1> DEFINE o == objects[t.base]
<1>1. t \in Tab /\ o # <<>> /\ t.at \in DOMAIN Tabs!Tabs(t.base)
    BY TheRow
<1>2. t.base \in Base /\ t = [base |-> t.base, at |-> t.at]
    BY <1>1 DEF Tab
<1>3. IsHistory(o)
    BY <1>2 DEF EditorsTyped
<1>4. Tabs!Tabs(t.base) = BenchCurrent(o).editors /\ Tabs!Place(t.base) = Len(o)
    BY DEF Tabs!Tabs, Tabs!Last, Tabs!Place, BenchCurrent
<1>5. Tabs!EditorAt(t) = BenchCurrent(o).editors[t.at]
    BY <1>4 DEF Tabs!EditorAt
<1>6. Tabs!EditorAt(t).id \in 1..(MaxTabs + 1)
    BY <1>1, <1>3, <1>4, <1>5, HistoryFacts DEF BenchCurrent
<1>7. Tabs!HasCopies(t.base) <=> Copies(o)
    BY <1>4 DEF Tabs!HasCopies, Copies
<1>8. QED BY <1>1, <1>2, <1>3, <1>4, <1>5, <1>6, <1>7

\* What is put in place of the objects of databases that are loaded.
LEMMA Puts ==
    ASSUME EditorsInv,
           DOMAIN objects' = Base, order' = order,
           \A b \in Base : IsHistory(objects'[b]) /\ (objects'[b] = <<>> <=> objects[b] = <<>>),
           activeBase' \in Base \cup {NoBase},
           fetches' \subseteq fetches,
           \A f \in fetches' : f.kind = "reload" => Len(objects'[f.base]) <= MaxReloads,
           astray' \in BOOLEAN, astray => astray',
           ~astray' => \A b \in Base : objects'[b] # objects[b] => Sound(objects'[b])
    PROVE  EditorsInv'
<1>1. EditorsTyped'
    <2>1. Tabs!ToSet(order)' = {b \in Base : objects'[b] # <<>>}
        <3>1. {b \in Base : objects'[b] # <<>>} = {b \in Base : objects[b] # <<>>}
            OBVIOUS
        <3>2. Tabs!ToSet(order)' = Tabs!ToSet(order)
            BY DEF Tabs!ToSet
        <3>3. QED BY <3>1, <3>2 DEF EditorsInv, EditorsTyped
    <2>2. \A f \in fetches' : f \in fetches /\ f.base \in Base
        BY DEF EditorsInv, EditorsTyped, Tabs!Fetch
    <2>3. \A f \in fetches' : objects'[f.base] # <<>>
        BY <2>2 DEF EditorsInv, EditorsTyped
    <2>4. Tabs!IsInjective(order)'
        BY DEF EditorsInv, EditorsTyped, Tabs!IsInjective
    <2>5. order' \in Seq(Base) /\ fetches' \in SUBSET Tabs!Fetch
          /\ \A f, g \in fetches' : f.base = g.base => f = g
        BY DEF EditorsInv, EditorsTyped
    <2>6. QED BY <2>1, <2>3, <2>4, <2>5 DEF EditorsTyped
<1>2. ASSUME ~astray', NEW b \in Base, objects'[b] # <<>> PROVE Sound(objects'[b])
    <2>1. CASE objects'[b] # objects[b]
        BY <1>2, <2>1
    <2>2. CASE objects'[b] = objects[b]
        BY <1>2, <2>2 DEF EditorsInv
    <2>3. QED BY <2>1, <2>2
<1>3. QED BY <1>1, <1>2 DEF EditorsInv

\* The same for one database.
LEMMA PutsOne ==
    ASSUME EditorsInv, NEW b \in Base, objects[b] # <<>>, NEW o, IsHistory(o), o # <<>>,
           objects' = [objects EXCEPT ![b] = o], order' = order,
           activeBase' \in Base \cup {NoBase},
           fetches' \subseteq fetches,
           \A f \in fetches' : f.base = b /\ f.kind = "reload" => Len(o) <= MaxReloads,
           astray' \in BOOLEAN, astray => astray', ~astray' => Sound(o)
    PROVE  EditorsInv'
<1>1. DOMAIN objects = Base /\ \A c \in Base : IsHistory(objects[c])
    BY DEF EditorsInv, EditorsTyped
<1>2. DOMAIN objects' = Base /\ \A c \in Base : objects'[c] = IF c = b THEN o ELSE objects[c]
    BY <1>1
<1>3. \A c \in Base : IsHistory(objects'[c]) /\ (objects'[c] = <<>> <=> objects[c] = <<>>)
    BY <1>1, <1>2
<1>4. \A f \in fetches' : f.base \in Base /\ (f.kind = "reload" => Len(objects[f.base]) <= MaxReloads)
    BY DEF EditorsInv, EditorsTyped, Tabs!Fetch
<1>5. \A f \in fetches' : f.kind = "reload" => Len(objects'[f.base]) <= MaxReloads
    BY <1>2, <1>4
<1>6. ~astray' => \A c \in Base : objects'[c] # objects[c] => Sound(objects'[c])
    BY <1>2
<1>7. QED BY <1>2, <1>3, <1>5, <1>6, Puts

LEMMA Unloaded ==
    /\ Tabs!NewObject \in Tabs!Object /\ Tabs!NewObject.editors = <<Tabs!NewEditor(1, 1)>>
    /\ IsHistory(<<Tabs!NewObject>>) /\ Len(<<Tabs!NewObject>>) = 1 /\ Sound(<<Tabs!NewObject>>)
<1> DEFINE e == Tabs!NewEditor(1, 1)
           x == Tabs!NewObject
<1>1. e \in Tabs!Editor /\ e.id = 1 /\ e.home = 1 /\ e.isClosed = FALSE
    BY EditorBounds DEF Tabs!NewEditor, Tabs!Editor, Tabs!Id, Tabs!Number
<1>2. x = [editors |-> <<e>>, activeQueryId |-> 1]
    BY DEF Tabs!NewObject
<1> HIDE DEF e, x
<1>3. <<e>> \in Seq(Tabs!Editor) /\ 1 \in 0..(MaxTabs + 1)
    BY <1>1, EditorBounds
<1>4. x \in Tabs!Object /\ x.editors = <<e>> /\ x.activeQueryId = 1
    BY <1>2, <1>3 DEF Tabs!Object
<1>5. IsHistory(<<x>>) /\ Len(<<x>>) = 1
    BY <1>4, EditorBounds DEF IsHistory
<1>6. BenchCurrent(<<x>>) = x
    BY DEF BenchCurrent
<1>7. Sound(<<x>>)
    BY <1>1, <1>4, <1>5, <1>6 DEF Sound, Homes, Copies
<1>8. QED BY <1>4, <1>5, <1>7 DEF x, e

LEMMA Opens ==
    ASSUME EditorsInv, NEW b \in Base, Tabs!OpenBase(b)
    PROVE  EditorsInv'
<1> DEFINE o == <<Tabs!NewObject>>
           f == [kind |-> "load", base |-> b]
<1>0. EditorsTyped /\ IsHistory(o) /\ o # <<>> /\ Sound(o)
    BY Unloaded DEF EditorsInv
<1>1. /\ ~astray /\ b \notin Tabs!ToSet(order) /\ activeBase' = b
      /\ objects' = [objects EXCEPT ![b] = o] /\ order' = Append(order, b)
      /\ fetches' = fetches \cup {f} /\ astray' = astray
    BY DEF Tabs!OpenBase, Tabs!Loaded
<1> HIDE DEF o
<1>2. objects[b] = <<>>
    BY <1>0, <1>1 DEF EditorsTyped
<1>3. DOMAIN objects' = Base /\ \A c \in Base : objects'[c] = IF c = b THEN o ELSE objects[c]
    BY <1>0, <1>1 DEF EditorsTyped
<1>4. \A c \in Base : IsHistory(objects'[c])
    BY <1>0, <1>3 DEF EditorsTyped
<1>5. /\ order \in Seq(Base) /\ order' \in Seq(Base) /\ Len(order) \in Nat /\ Len(order') = Len(order) + 1
      /\ DOMAIN order = 1..Len(order) /\ DOMAIN order' = 1..(Len(order) + 1)
      /\ \A i \in 1..Len(order) : order'[i] = order[i]
      /\ order'[Len(order) + 1] = b
    BY <1>0, <1>1 DEF EditorsTyped
<1>6. \A i \in DOMAIN order' : i \in DOMAIN order \/ i = Len(order) + 1
    BY <1>5
<1>7. Tabs!ToSet(order') = Tabs!ToSet(order) \cup {b}
    <2>1. \A i \in DOMAIN order : i \in DOMAIN order'
        BY <1>5
    <2>2. Len(order) + 1 \in DOMAIN order'
        BY <1>5
    <2>3. QED BY <1>5, <1>6, <2>1, <2>2 DEF Tabs!ToSet
<1>8. Tabs!ToSet(order') = {c \in Base : objects'[c] # <<>>}
    <2>1. Tabs!ToSet(order) = {c \in Base : objects[c] # <<>>}
        BY <1>0 DEF EditorsTyped
    <2>2. QED BY <1>0, <1>3, <1>7, <2>1
<1>9. Tabs!IsInjective(order')
    <2>1. \A i \in DOMAIN order : order[i] \in Tabs!ToSet(order)
        BY DEF Tabs!ToSet
    <2>2. \A i, j \in DOMAIN order : order[i] = order[j] => i = j
        BY <1>0 DEF EditorsTyped, Tabs!IsInjective
    <2>3. \A i, j \in DOMAIN order' : order'[i] = order'[j] => i = j
        BY <1>1, <1>5, <1>6, <2>1, <2>2
    <2>4. QED BY <2>3 DEF Tabs!IsInjective
<1>10. f \in Tabs!Fetch /\ f.base = b /\ f.kind = "load"
    BY DEF Tabs!Fetch
<1> HIDE DEF f
<1>11. \A g \in fetches : g.base # b /\ g.base \in Base
    BY <1>0, <1>2 DEF EditorsTyped, Tabs!Fetch
<1>12. /\ fetches' \in SUBSET Tabs!Fetch
       /\ \A g \in fetches' : objects'[g.base] # <<>> /\ (g.kind = "reload" => Len(objects'[g.base]) <= MaxReloads)
       /\ \A g, h \in fetches' : g.base = h.base => g = h
    BY <1>0, <1>1, <1>3, <1>10, <1>11 DEF EditorsTyped
<1>13. EditorsTyped'
    <2>1. Tabs!ToSet(order)' = Tabs!ToSet(order') /\ (Tabs!IsInjective(order)' <=> Tabs!IsInjective(order'))
        BY DEF Tabs!ToSet, Tabs!IsInjective
    <2>2. activeBase' \in Base \cup {NoBase} /\ astray' \in BOOLEAN
        BY <1>0, <1>1 DEF EditorsTyped
    <2>3. QED BY <1>3, <1>4, <1>5, <1>8, <1>9, <1>12, <2>1, <2>2 DEF EditorsTyped
<1>14. ASSUME NEW c \in Base, objects'[c] # <<>> PROVE Sound(objects'[c])
    BY <1>0, <1>1, <1>3, <1>14 DEF EditorsInv
<1>15. QED BY <1>13, <1>14 DEF EditorsInv

LEMMA LoadedHistory ==
    ASSUME EditorsInv, NEW b \in Base, objects[b] # <<>>
    PROVE  LET o == objects[b] IN
           /\ IsHistory(o) /\ (~astray => Sound(o)) /\ Len(o) \in DOMAIN o
           /\ Tabs!Tabs(b) = BenchCurrent(o).editors /\ Tabs!Place(b) = Len(o)
           /\ Tabs!HasCopies(b) <=> Copies(o)
           /\ \A f \in fetches : f.base = b /\ f.kind = "reload" => Len(o) <= MaxReloads
<1>1. IsHistory(objects[b]) /\ (~astray => Sound(objects[b]))
    BY DEF EditorsInv, EditorsTyped
<1>2. Len(objects[b]) \in DOMAIN objects[b]
    BY <1>1, HistoryFacts
<1>3. Tabs!Tabs(b) = BenchCurrent(objects[b]).editors /\ Tabs!Place(b) = Len(objects[b])
    BY DEF Tabs!Tabs, Tabs!Last, Tabs!Place, BenchCurrent
<1>4. Tabs!HasCopies(b) <=> Copies(objects[b])
    BY <1>3 DEF Tabs!HasCopies, Copies
<1>5. QED BY <1>1, <1>2, <1>3, <1>4 DEF EditorsInv, EditorsTyped

LEMMA LoadedBases ==
    ASSUME EditorsInv, NEW b \in Base
    PROVE  b \in Tabs!Loaded <=> objects[b] # <<>>
BY DEF EditorsInv, EditorsTyped, Tabs!Loaded

\* Nothing but which database is active changes.
LEMMA OnlyActive ==
    ASSUME EditorsInv, objects' = objects, order' = order, activeBase' \in Base \cup {NoBase},
           fetches' \subseteq fetches, astray' = astray
    PROVE  EditorsInv'
<1>1. /\ DOMAIN objects' = Base
      /\ \A b \in Base : IsHistory(objects'[b]) /\ (objects'[b] = <<>> <=> objects[b] = <<>>)
      /\ \A f \in fetches' : f.kind = "reload" => Len(objects'[f.base]) <= MaxReloads
      /\ astray' \in BOOLEAN /\ (astray => astray')
      /\ ~astray' => \A b \in Base : objects'[b] # objects[b] => Sound(objects'[b])
    BY DEF EditorsInv, EditorsTyped
<1>2. QED BY <1>1, Puts

LEMMA GoesTo ==
    ASSUME EditorsInv, NEW b \in Base, NEW fromTree \in BOOLEAN, Tabs!GoTo(b, fromTree)
    PROVE  EditorsInv'
<1> DEFINE o == objects[b]
           n == Len(o)
           p == [o EXCEPT ![n] = Tabs!WithQuery(@, n)]
<1>0. o # <<>> /\ ~astray
    BY LoadedBases DEF Tabs!GoTo
<1>1. /\ IsHistory(o) /\ Sound(o) /\ n \in DOMAIN o
      /\ Tabs!Tabs(b) = BenchCurrent(o).editors /\ Tabs!Place(b) = n
      /\ \A f \in fetches : f.base = b /\ f.kind = "reload" => n <= MaxReloads
    BY <1>0, LoadedHistory
<1>2. /\ activeBase' = b /\ order' = order /\ fetches' = fetches /\ astray' = astray
      /\ objects' = IF fromTree /\ Tabs!Tabs(b) = <<>>
                    THEN [objects EXCEPT ![b][Tabs!Place(b)] = Tabs!WithQuery(@, Tabs!Place(b))] ELSE objects
    BY DEF Tabs!GoTo
<1>3. CASE fromTree /\ Tabs!Tabs(b) = <<>>
    <2>1. o[n] \in Tabs!Object /\ o[n].editors = <<>>
        BY <1>0, <1>1, <1>3, HistoryFacts DEF BenchCurrent
    <2>2. Tabs!NextQueryId(o[n]) \in Tabs!Id /\ Len(o[n].editors) <= MaxTabs
        BY <2>1, NextId, EditorBounds DEF Tabs!Id
    <2>3. IsHistory(p) /\ Len(p) = n /\ p # <<>> /\ (Sound(o) /\ ~Copies(o) => Sound(p))
        BY <1>1, <2>2, QueryPut
    <2>4. Sound(p)
        BY <1>1, <1>3, <2>3 DEF Copies
    <2>5. objects' = [objects EXCEPT ![b] = p]
        BY <1>1, <1>2, <1>3
    <2> HIDE DEF p, o, n
    <2>6. activeBase' \in Base \cup {NoBase} /\ fetches' \subseteq fetches /\ astray' \in BOOLEAN
          /\ (astray => astray')
        BY <1>2 DEF EditorsInv, EditorsTyped
    <2>7. \A f \in fetches' : f.base = b /\ f.kind = "reload" => Len(p) <= MaxReloads
        BY <1>1, <1>2, <2>3
    <2>8. objects[b] # <<>>
        BY <1>0 DEF o
    <2>9. QED BY <1>2, <2>3, <2>4, <2>5, <2>6, <2>7, <2>8, PutsOne
<1>4. CASE ~(fromTree /\ Tabs!Tabs(b) = <<>>)
    <2>1. objects' = objects
        BY <1>2, <1>4
    <2>2. QED BY <1>2, <2>1, OnlyActive
<1>5. QED BY <1>3, <1>4

LEMMA ClicksTab ==
    ASSUME EditorsInv, NEW t \in Tabs!ToSet(Tabs!Row), Tabs!ClickTab(t)
    PROVE  EditorsInv'
<1> DEFINE b == t.base
           o == objects[b]
           e == BenchCurrent(o).editors[t.at]
           p == [o EXCEPT ![e.home].activeQueryId = e.id]
<1>0. EditorsTyped
    BY DEF EditorsInv
<1>1. /\ b \in Base /\ IsHistory(o) /\ o # <<>> /\ t.at \in DOMAIN BenchCurrent(o).editors
      /\ Tabs!EditorAt(t) = e /\ e.id \in 1..(MaxTabs + 1) /\ (Tabs!HasCopies(b) <=> Copies(o))
    BY <1>0, TabFacts, ZenonT(60)
<1>2. /\ ~astray /\ activeBase' = b /\ order' = order /\ fetches' = fetches
      /\ objects' = [objects EXCEPT ![b] = p]
      /\ astray' = (Copies(o) /\ e.id # BenchCurrent(o).activeQueryId)
    <2>1. /\ ~astray /\ activeBase' = b /\ order' = order /\ fetches' = fetches
          /\ objects' = [objects EXCEPT ![b][e.home].activeQueryId = e.id]
          /\ astray' = Tabs!StraysTo(b, e.id)
        BY <1>1, ZenonT(60) DEF Tabs!ClickTab, Tabs!SetActive
    <2>2. Tabs!StraysTo(b, e.id) = (Copies(o) /\ e.id # BenchCurrent(o).activeQueryId)
        BY <1>1 DEF Tabs!StraysTo, Tabs!Last, BenchCurrent
    <2>3. QED BY <2>1, <2>2, ZenonT(60)
<1>3. IsHistory(p) /\ Len(p) = Len(o) /\ p # <<>>
    <2> DEFINE h == e.home
               id == e.id
    <2>1. id \in 1..(MaxTabs + 1)
        BY <1>1
    <2>2. IsHistory(o) /\ o # <<>>
        BY <1>1
    <2> HIDE DEF o, e, h, id
    <2>3. p = WithActive(o, h, id)
        BY DEF WithActive, h, id
    <2> HIDE DEF p
    <2>4. QED BY <2>1, <2>2, <2>3, ActivePut
<1>4. ASSUME ~astray' PROVE Sound(p)
    <2>1. Copies(o) => e.id = BenchCurrent(o).activeQueryId
        BY <1>2, <1>4, ZenonT(60)
    <2>2. Sound(o)
        BY <1>1, <1>2, LoadedHistory, ZenonT(60)
    <2>3. QED BY <1>1, <2>1, <2>2, SoundPut, ZenonT(60)
<1>5. \A f \in fetches' : f.base = b /\ f.kind = "reload" => Len(p) <= MaxReloads
    BY <1>1, <1>2, <1>3, LoadedHistory, ZenonT(60)
<1>6. activeBase' \in Base \cup {NoBase} /\ fetches' \subseteq fetches /\ astray' \in BOOLEAN /\ (astray => astray')
    BY <1>1, <1>2, ZenonT(60)
<1> HIDE DEF p, e
<1>7. QED BY <1>1, <1>2, <1>3, <1>4, <1>5, <1>6, PutsOne

LEMMA AddsQuery ==
    ASSUME EditorsInv, NEW b \in Base, objects[b] # <<>>, NEW n \in DOMAIN objects[b],
           n = Len(objects[b])
              \/ \E j \in DOMAIN BenchCurrent(objects[b]).editors : BenchCurrent(objects[b]).editors[j].home = n,
           Tabs!AddQuery(b, n)
    PROVE  EditorsInv'
<1> DEFINE o == objects[b]
           p == [o EXCEPT ![n] = Tabs!WithQuery(@, n)]
<1>1. /\ IsHistory(o) /\ (Tabs!HasCopies(b) <=> Copies(o))
      /\ \A f \in fetches : f.base = b /\ f.kind = "reload" => Len(o) <= MaxReloads
    BY LoadedHistory
<1>2. /\ ~astray /\ Tabs!HasRoom(o[n]) /\ objects' = [objects EXCEPT ![b] = p]
      /\ activeBase' = b /\ order' = order /\ fetches' = fetches
      /\ astray' = (Copies(o) /\ Tabs!NextQueryId(o[n]) # BenchCurrent(o).activeQueryId)
    <2>1. /\ ~astray /\ Tabs!HasRoom(o[n]) /\ objects' = [objects EXCEPT ![b] = p]
          /\ activeBase' = b /\ order' = order /\ fetches' = fetches
          /\ astray' = Tabs!StraysTo(b, Tabs!NextQueryId(o[n]))
        BY DEF Tabs!AddQuery
    <2>2. Tabs!StraysTo(b, Tabs!NextQueryId(o[n])) = (Copies(o) /\ Tabs!NextQueryId(o[n]) # BenchCurrent(o).activeQueryId)
        BY <1>1 DEF Tabs!StraysTo, Tabs!Last, BenchCurrent
    <2>3. QED BY <2>1, <2>2
<1>3. Len(o[n].editors) <= MaxTabs /\ Tabs!NextQueryId(o[n]) \in Tabs!Id
    <2>1. Len(o[n].editors) \in Nat
        BY <1>1, HistoryFacts
    <2>2. QED BY <1>2, <2>1, EditorBounds DEF Tabs!HasRoom
<1>4. /\ IsHistory(p) /\ Len(p) = Len(o) /\ p # <<>>
      /\ /\ Sound(o)
         /\ n = Len(o) \/ \E j \in DOMAIN BenchCurrent(o).editors : BenchCurrent(o).editors[j].home = n
         /\ Copies(o) => Tabs!NextQueryId(o[n]) = BenchCurrent(o).activeQueryId
         => Sound(p)
    BY <1>1, <1>3, QueryPut
<1>5. ASSUME ~astray' PROVE Sound(p)
    <2>1. Copies(o) => Tabs!NextQueryId(o[n]) = BenchCurrent(o).activeQueryId
        BY <1>2, <1>5, Zenon
    <2>2. Sound(o)
        BY <1>2, LoadedHistory
    <2> HIDE DEF p, o
    <2>3. n = Len(o) \/ \E j \in DOMAIN BenchCurrent(o).editors : BenchCurrent(o).editors[j].home = n
        BY DEF o
    <2>4. QED BY <1>4, <2>1, <2>2, <2>3
<1>6. \A f \in fetches' : f.base = b /\ f.kind = "reload" => Len(p) <= MaxReloads
    BY <1>1, <1>2, <1>4
<1>7. activeBase' \in Base \cup {NoBase} /\ fetches' \subseteq fetches /\ astray' \in BOOLEAN /\ (astray => astray')
    BY <1>2
<1> HIDE DEF p
<1>8. QED BY <1>2, <1>4, <1>5, <1>6, <1>7, PutsOne

LEMMA AddsTab ==
    ASSUME EditorsInv, Tabs!NewTab
    PROVE  EditorsInv'
<1>1. PICK t \in Tabs!ActiveTabs : Tabs!AddQuery(t.base, Tabs!EditorAt(t).home)
    BY DEF Tabs!NewTab
<1>2. t \in Tabs!ToSet(Tabs!Row)
    BY DEF Tabs!ActiveTabs
<1> DEFINE o == objects[t.base]
           e == Tabs!EditorAt(t)
           n == e.home
<1>3. /\ t.base \in Base /\ IsHistory(o) /\ o # <<>>
      /\ t.at \in DOMAIN BenchCurrent(o).editors /\ e = BenchCurrent(o).editors[t.at]
    BY <1>2, TabFacts, ZenonT(60) DEF EditorsInv
<1>4. Sound(o)
    BY <1>1, <1>3, ZenonT(60) DEF Tabs!AddQuery, EditorsInv
<1> HIDE DEF e
<1>5. n = Len(o) \/ (Len(o) > 1 /\ n = Len(o) - 1)
    BY <1>3, <1>4, ZenonT(60) DEF Sound, Homes, Copies
<1>6. Len(o) \in Nat \ {0} /\ DOMAIN o = 1..Len(o)
    BY <1>3, HistoryFacts
<1> HIDE DEF n, o
<1>7. n \in DOMAIN o
    BY <1>5, <1>6
<1>8. \E j \in DOMAIN BenchCurrent(o).editors : BenchCurrent(o).editors[j].home = n
    BY <1>3 DEF n
<1>9. Tabs!AddQuery(t.base, n)
    BY <1>1 DEF n, e
<1>10. QED BY <1>3, <1>7, <1>8, <1>9, AddsQuery DEF o

LEMMA ShowsQuery ==
    ASSUME EditorsInv, NEW b \in Base, Tabs!ShowInEditor(b)
    PROVE  EditorsInv'
<1> DEFINE n == Tabs!Place(b)
<1>1. objects[b] # <<>> /\ Tabs!AddQuery(b, n)
    BY LoadedBases DEF Tabs!ShowInEditor
<1>2. n = Len(objects[b]) /\ n \in DOMAIN objects[b]
    BY <1>1, LoadedHistory
<1> HIDE DEF n
<1>3. QED BY <1>1, <1>2, AddsQuery

LEMMA ReloadsBase ==
    ASSUME EditorsInv, NEW b \in Base, Tabs!ReloadBase(b)
    PROVE  EditorsInv'
<1> DEFINE f == [kind |-> "reload", base |-> b]
<1>0. EditorsTyped
    BY DEF EditorsInv
<1>1. /\ b \in Tabs!Loaded /\ Tabs!Place(b) <= MaxReloads /\ \A g \in fetches : g.base # b
      /\ fetches' = fetches \cup {f} /\ objects' = objects /\ order' = order
      /\ activeBase' = activeBase /\ astray' = astray
    BY DEF Tabs!ReloadBase
<1>2. objects[b] # <<>> /\ Len(objects[b]) <= MaxReloads
    BY <1>1, LoadedBases DEF Tabs!Place
<1>3. f \in Tabs!Fetch /\ f.base = b
    BY DEF Tabs!Fetch
<1> HIDE DEF f
<1>4. /\ fetches' \in SUBSET Tabs!Fetch
      /\ \A g \in fetches' : objects'[g.base] # <<>> /\ (g.kind = "reload" => Len(objects'[g.base]) <= MaxReloads)
      /\ \A g, h \in fetches' : g.base = h.base => g = h
    BY <1>0, <1>1, <1>2, <1>3 DEF EditorsTyped
<1>5. EditorsTyped'
    <2>1. (Tabs!ToSet(order))' = Tabs!ToSet(order) /\ (Tabs!IsInjective(order)' <=> Tabs!IsInjective(order))
        BY <1>1 DEF Tabs!ToSet, Tabs!IsInjective
    <2>2. QED BY <1>0, <1>1, <1>4, <2>1 DEF EditorsTyped
<1>6. QED BY <1>1, <1>5 DEF EditorsInv

LEMMA FetchFacts ==
    ASSUME EditorsInv, NEW f \in fetches
    PROVE  /\ f.base \in Base /\ objects[f.base] # <<>> /\ IsHistory(objects[f.base])
           /\ f.kind = "reload" => Len(objects[f.base]) <= MaxReloads
           /\ \A g \in fetches \ {f} : g.base # f.base
BY DEF EditorsInv, EditorsTyped, Tabs!Fetch

LEMMA LoadsBase ==
    ASSUME EditorsInv, NEW f \in fetches, Tabs!BaseLoaded(f)
    PROVE  EditorsInv'
<1> DEFINE o == <<Tabs!NewObject>>
           b == f.base
<1>1. /\ objects' = [objects EXCEPT ![b] = o] /\ order' = order /\ activeBase' = b
      /\ fetches' = fetches \ {f} /\ astray' = astray
    BY DEF Tabs!BaseLoaded
<1>2. IsHistory(o) /\ o # <<>> /\ Sound(o)
    BY Unloaded
<1>3. b \in Base /\ objects[b] # <<>> /\ \A g \in fetches \ {f} : g.base # b
    BY FetchFacts
<1>4. astray' \in BOOLEAN /\ (astray => astray')
    BY <1>1 DEF EditorsInv, EditorsTyped
<1> HIDE DEF o, b
<1>5. QED BY <1>1, <1>2, <1>3, <1>4, PutsOne

LEMMA CopyPut ==
    ASSUME NEW o, IsHistory(o), o # <<>>, Len(o) <= MaxReloads
    PROVE  LET p == Append(o, Tabs!CopyFrom(Tabs!Last(o), Len(o))) IN
           IsHistory(p) /\ p # <<>> /\ (Sound(o) => Sound(p))
<1> DEFINE n == Len(o)
           x == o[n]
           new == [j \in DOMAIN x.editors |-> Tabs!NewEditor(x.editors[j].id, n)]
           y == Tabs!CopyFrom(x, n)
           p == Append(o, y)
<1>1. /\ n \in Nat \ {0} /\ DOMAIN o = 1..n /\ n \in DOMAIN o /\ n \in Tabs!Number
      /\ x \in Tabs!Object /\ Len(x.editors) \in Nat /\ Len(x.editors) <= MaxTabs + 1
      /\ DOMAIN x.editors = 1..Len(x.editors)
      /\ \A j \in DOMAIN x.editors : x.editors[j] \in Tabs!Editor /\ x.editors[j].id \in 1..(MaxTabs + 1)
    BY HistoryFacts
<1>2. o \in Seq(Tabs!Object) /\ \A m \in DOMAIN o : Len(o[m].editors) <= MaxTabs + 1
    BY DEF IsHistory
<1>3. \A j \in DOMAIN x.editors :
          /\ Tabs!NewEditor(x.editors[j].id, n) \in Tabs!Editor
          /\ Tabs!NewEditor(x.editors[j].id, n).id = x.editors[j].id
          /\ Tabs!NewEditor(x.editors[j].id, n).home = n
          /\ Tabs!NewEditor(x.editors[j].id, n).isClosed = FALSE
    BY <1>1 DEF Tabs!NewEditor, Tabs!Editor, Tabs!Id
<1>4. y = [x EXCEPT !.editors = new]
    BY DEF Tabs!CopyFrom
<1>5. /\ new = [j \in 1..Len(x.editors) |-> new[j]] /\ DOMAIN new = DOMAIN x.editors
      /\ \A j \in DOMAIN x.editors : new[j] = Tabs!NewEditor(x.editors[j].id, n)
    BY <1>1
<1> HIDE DEF y
<1>6. p = Append(o, Tabs!CopyFrom(Tabs!Last(o), Len(o)))
    BY DEF y, Tabs!Last
<1> HIDE DEF p, new, x, n
<1>7. new \in Seq(Tabs!Editor) /\ Len(new) = Len(x.editors)
    <2> DEFINE l == Len(x.editors)
    <2>1. \A j \in 1..l : new[j] \in Tabs!Editor
        BY <1>1, <1>3, <1>5
    <2>2. l \in Nat /\ new = [j \in 1..l |-> new[j]]
        BY <1>1, <1>5
    <2> HIDE DEF l
    <2>3. new \in Seq(Tabs!Editor) /\ Len(new) = l
        BY <2>1, <2>2
    <2>4. QED BY <2>3 DEF l
<1>8. y \in Tabs!Object /\ y.editors = new /\ y.activeQueryId = x.activeQueryId
    BY <1>1, <1>4, <1>7 DEF Tabs!Object
<1>9. /\ p \in Seq(Tabs!Object) /\ Len(p) = n + 1 /\ DOMAIN p = 1..(n + 1)
      /\ p[n + 1] = y /\ \A m \in 1..n : p[m] = o[m]
    BY <1>1, <1>2, <1>8 DEF p, n
<1>10. Len(p) <= MaxReloads + 1
    <2>1. n <= MaxReloads
        BY DEF n
    <2>2. QED BY <1>1, <1>9, <2>1, EditorBounds
<1>11. IsHistory(p)
    <2>1. \A m \in 1..(n + 1) : m \in 1..n \/ m = n + 1
        BY <1>1
    <2>2. \A m \in DOMAIN p : Len(p[m].editors) <= MaxTabs + 1
        BY <1>1, <1>2, <1>7, <1>8, <1>9, <2>1
    <2>3. QED BY <1>9, <1>10, <2>2 DEF IsHistory
<1>12. BenchCurrent(o) = x /\ BenchCurrent(p) = y
    BY <1>9 DEF BenchCurrent, x, n
<1>13. ASSUME Sound(o) PROVE Sound(p)
    <2>1. \A j \in DOMAIN y.editors :
              /\ j \in DOMAIN x.editors /\ y.editors[j].id = x.editors[j].id
              /\ y.editors[j].home = n /\ y.editors[j].isClosed = FALSE
        <3>1. DOMAIN y.editors = DOMAIN x.editors /\ \A j \in DOMAIN x.editors : y.editors[j] = new[j]
            BY <1>5, <1>8
        <3>2. ASSUME NEW j \in DOMAIN x.editors
              PROVE  new[j].id = x.editors[j].id /\ new[j].home = n /\ new[j].isClosed = FALSE
            BY <1>3, <1>5
        <3>3. QED BY <3>1, <3>2
    <2>2. \A i, j \in DOMAIN y.editors : y.editors[i].id = y.editors[j].id => i = j
        <3>1. \A i, j \in DOMAIN x.editors : x.editors[i].id = x.editors[j].id => i = j
            BY <1>12, <1>13 DEF Sound
        <3>2. QED BY <2>1, <3>1
    <2>3. y.editors = <<>> \/ \E j \in DOMAIN y.editors : y.editors[j].id = y.activeQueryId
        <3>1. CASE x.editors = <<>>
            BY <1>1, <1>7, <1>8, <3>1
        <3>2. CASE x.editors # <<>>
            <4>1. PICK j \in DOMAIN x.editors : x.editors[j].id = x.activeQueryId
                BY <1>12, <1>13, <3>2 DEF Sound
            <4>2. j \in DOMAIN y.editors
                BY <1>5, <1>8
            <4>3. QED BY <1>8, <2>1, <4>1, <4>2
        <3>3. QED BY <3>1, <3>2
    <2>4. Homes(p)
        <3>1. Len(p) > 1 /\ Len(p) - 1 = n /\ p[n] = x
            BY <1>1, <1>9 DEF x
        <3>2. QED BY <1>8, <1>12, <2>1, <3>1 DEF Homes
    <2>5. QED BY <1>12, <2>1, <2>2, <2>3, <2>4 DEF Sound
<1>14. p # <<>>
    BY <1>1, <1>9
<1>15. QED BY <1>6, <1>11, <1>13, <1>14

LEMMA ReadsBase ==
    ASSUME EditorsInv, NEW f \in fetches, Tabs!BaseReloaded(f)
    PROVE  EditorsInv'
<1> DEFINE b == f.base
           o == objects[b]
           p == Append(o, Tabs!CopyFrom(Tabs!Last(o), Len(o)))
<1>1. /\ f.kind = "reload" /\ objects' = [objects EXCEPT ![b] = p] /\ order' = order
      /\ activeBase' = activeBase /\ fetches' = fetches \ {f} /\ astray' = astray
    BY DEF Tabs!BaseReloaded
<1>2. /\ b \in Base /\ o # <<>> /\ IsHistory(o) /\ Len(o) <= MaxReloads
      /\ \A g \in fetches \ {f} : g.base # b
    BY <1>1, FetchFacts
<1>3. ~astray => Sound(o)
    BY <1>2 DEF EditorsInv
<1> HIDE DEF o
<1>4. IsHistory(p) /\ p # <<>> /\ (Sound(o) => Sound(p))
    BY <1>2, CopyPut
<1>5. activeBase' \in Base \cup {NoBase} /\ astray' \in BOOLEAN /\ (astray => astray')
    BY <1>1 DEF EditorsInv, EditorsTyped
<1>6. objects[b] # <<>>
    BY <1>2 DEF o
<1> HIDE DEF p, b
<1>7. QED BY <1>1, <1>2, <1>3, <1>4, <1>5, <1>6, PutsOne

LEMMA DropsFetch ==
    ASSUME EditorsInv, NEW f \in fetches, Tabs!FetchFailed(f)
    PROVE  EditorsInv'
<1>1. /\ objects' = objects /\ order' = order /\ activeBase' = activeBase
      /\ fetches' \subseteq fetches /\ astray' = astray
    BY DEF Tabs!FetchFailed
<1>2. activeBase' \in Base \cup {NoBase}
    BY <1>1 DEF EditorsInv, EditorsTyped
<1>3. QED BY <1>1, <1>2, OnlyActive

\* No database is loaded, as at the start and after the server was closed.
NoTabs ==
    /\ objects = [b \in Base |-> <<>>] /\ order = <<>>
    /\ activeBase = NoBase /\ fetches = {} /\ astray \in BOOLEAN

LEMMA NoTabsInv == NoTabs => EditorsInv
<1>1. SUFFICES ASSUME NoTabs PROVE EditorsInv
    OBVIOUS
<1>2. /\ DOMAIN objects = Base /\ (\A b \in Base : objects[b] = <<>>) /\ order = <<>>
      /\ activeBase \in Base \cup {NoBase} /\ fetches = {} /\ astray \in BOOLEAN
    BY <1>1 DEF NoTabs
<1>3. \A b \in Base : IsHistory(objects[b])
    <2>1. IsHistory(<<>>)
        BY EditorBounds DEF IsHistory
    <2>2. QED BY <1>2, <2>1
<1>4. Tabs!ToSet(order) = {b \in Base : objects[b] # <<>>} /\ Tabs!IsInjective(order) /\ order \in Seq(Base)
    BY <1>2 DEF Tabs!ToSet, Tabs!IsInjective
<1>5. EditorsTyped
    BY <1>2, <1>3, <1>4 DEF EditorsTyped
<1>6. QED BY <1>2, <1>5 DEF EditorsInv

LEMMA NoTabsThen == NoTabs' => EditorsInv'
BY NoTabsInv, PTL

LEMMA EditorsStart == Tabs!EditorInit => EditorsInv
<1>1. Tabs!EditorInit => NoTabs
    BY DEF Tabs!EditorInit, NoTabs
<1>2. QED BY <1>1, NoTabsInv

\* A sequence without its element at a place.
LEMMA OneLess ==
    ASSUME NEW S, NEW s \in Seq(S), NEW at \in DOMAIN s
    PROVE  LET r == Tabs!RemoveAt(s, at) IN
           /\ r \in Seq(S) /\ Len(r) = Len(s) - 1
           /\ \A j \in DOMAIN r : IF j < at THEN j \in DOMAIN s /\ r[j] = s[j]
                                            ELSE j + 1 \in DOMAIN s /\ r[j] = s[j + 1]
           /\ \A j \in DOMAIN s : j # at => \E k \in DOMAIN r : r[k] = s[j]
<1> DEFINE L == Len(s)
           a == SubSeq(s, 1, at - 1)
           c == SubSeq(s, at + 1, L)
           r == Tabs!RemoveAt(s, at)
<1>1. L \in Nat /\ at \in 1..L /\ DOMAIN s = 1..L
    OBVIOUS
<1>2. r = a \o c
    BY DEF Tabs!RemoveAt
<1>3. a \in Seq(S) /\ Len(a) = at - 1 /\ \A j \in 1..(at - 1) : a[j] = s[j]
    BY <1>1
<1>4. c \in Seq(S) /\ Len(c) = L - at /\ \A j \in 1..(L - at) : c[j] = s[at + j]
    BY <1>1
<1> HIDE DEF a, c, r, L
<1>5. /\ r \in Seq(S) /\ Len(r) = (at - 1) + (L - at) /\ DOMAIN r = 1..((at - 1) + (L - at))
      /\ \A j \in 1..((at - 1) + (L - at)) : r[j] = IF j <= at - 1 THEN a[j] ELSE c[j - (at - 1)]
    <2>1. /\ r \in Seq(S) /\ Len(r) = Len(a) + Len(c) /\ DOMAIN r = 1..(Len(a) + Len(c))
          /\ \A j \in 1..(Len(a) + Len(c)) : r[j] = IF j <= Len(a) THEN a[j] ELSE c[j - Len(a)]
        BY <1>2, <1>3, <1>4, SMTT(60)
    <2>2. Len(a) = at - 1 /\ Len(c) = L - at
        BY <1>3, <1>4
    <2>3. QED BY <2>1, <2>2
<1>6. (at - 1) + (L - at) = L - 1
    BY <1>1
<1>7. ASSUME NEW j \in DOMAIN r
      PROVE  IF j < at THEN j \in DOMAIN s /\ r[j] = s[j] ELSE j + 1 \in DOMAIN s /\ r[j] = s[j + 1]
    <2>1. j \in 1..(L - 1) /\ r[j] = IF j <= at - 1 THEN a[j] ELSE c[j - (at - 1)]
        BY <1>5, <1>6
    <2>2. CASE j < at
        <3>1. j <= at - 1 /\ j \in 1..(at - 1) /\ j \in 1..L
            BY <1>1, <2>1, <2>2
        <3>2. QED BY <1>1, <1>3, <2>1, <2>2, <3>1
    <2>3. CASE ~(j < at)
        <3>1. /\ ~(j <= at - 1) /\ j - (at - 1) \in 1..(L - at) /\ at + (j - (at - 1)) = j + 1
              /\ j + 1 \in 1..L
            BY <1>1, <2>1, <2>3
        <3>2. r[j] = c[j - (at - 1)] /\ c[j - (at - 1)] = s[at + (j - (at - 1))]
            BY <1>4, <2>1, <3>1
        <3>3. QED BY <1>1, <2>3, <3>1, <3>2
    <2>4. QED BY <2>2, <2>3
<1>8. ASSUME NEW j \in DOMAIN s, j # at PROVE \E k \in DOMAIN r : r[k] = s[j]
    <2>1. CASE j < at
        <3>1. j \in DOMAIN r
            BY <1>1, <1>5, <1>6, <2>1
        <3>2. QED BY <1>7, <2>1, <3>1
    <2>2. CASE j > at
        <3>1. j - 1 \in DOMAIN r /\ ~(j - 1 < at) /\ (j - 1) + 1 = j
            BY <1>1, <1>5, <1>6, <2>2
        <3>2. r[j - 1] = s[(j - 1) + 1]
            BY <1>7, <3>1
        <3>3. QED BY <3>1, <3>2
    <2>3. QED BY <1>1, <1>8, <2>1, <2>2
<1>9. QED BY <1>5, <1>6, <1>7, <1>8 DEF r, L

\* An object is put in place of one of a history.
LEMMA ObjectPut ==
    ASSUME NEW o, IsHistory(o), o # <<>>, NEW n \in DOMAIN o,
           NEW y \in Tabs!Object, Len(y.editors) <= MaxTabs + 1
    PROVE  LET p == [o EXCEPT ![n] = y] IN
           /\ IsHistory(p) /\ Len(p) = Len(o) /\ p # <<>> /\ DOMAIN p = DOMAIN o
           /\ \A m \in DOMAIN o : p[m] = IF m = n THEN y ELSE o[m]
<1> DEFINE p == [o EXCEPT ![n] = y]
<1>1. o \in Seq(Tabs!Object) /\ \A m \in DOMAIN o : Len(o[m].editors) <= MaxTabs + 1
    BY DEF IsHistory
<1>2. p \in Seq(Tabs!Object) /\ Len(p) = Len(o) /\ DOMAIN p = DOMAIN o
      /\ \A m \in DOMAIN o : p[m] = IF m = n THEN y ELSE o[m]
    BY <1>1
<1> HIDE DEF p
<1>3. IsHistory(p)
    <2>1. Len(p) <= MaxReloads + 1
        BY <1>2 DEF IsHistory
    <2>2. \A m \in DOMAIN p : Len(p[m].editors) <= MaxTabs + 1
        BY <1>1, <1>2
    <2>3. QED BY <1>2, <2>1, <2>2 DEF IsHistory
<1>4. p # <<>>
    BY <1>1, <1>2
<1>5. QED BY <1>2, <1>3, <1>4 DEF p

\* The editor at a place is removed from the object in place.
LEMMA RemovePut ==
    ASSUME NEW o, IsHistory(o), o # <<>>, NEW at \in DOMAIN BenchCurrent(o).editors
    PROVE  LET q == [o EXCEPT ![Len(o)] = Tabs!RemovedFrom(@, at)] IN
           /\ IsHistory(q) /\ Len(q) = Len(o) /\ q # <<>>
           /\ BenchCurrent(q).editors = Tabs!RemoveAt(BenchCurrent(o).editors, at)
<1> DEFINE n == Len(o)
           x == o[n]
           r == Tabs!RemoveAt(x.editors, at)
           y == Tabs!RemovedFrom(x, at)
           q == [o EXCEPT ![n] = y]
<1>1. /\ n \in DOMAIN o /\ x \in Tabs!Object /\ x.editors \in Seq(Tabs!Editor)
      /\ Len(x.editors) \in Nat /\ Len(x.editors) <= MaxTabs + 1 /\ DOMAIN x.editors = 1..Len(x.editors)
      /\ x.activeQueryId \in 0..(MaxTabs + 1)
    BY HistoryFacts
<1>2. at \in DOMAIN x.editors
    BY DEF BenchCurrent
<1> HIDE DEF x
<1>3. r \in Seq(Tabs!Editor) /\ Len(r) = Len(x.editors) - 1
    BY <1>1, <1>2, OneLess
<1>4. (IF at > 1 THEN at - 2 ELSE x.activeQueryId) \in 0..(MaxTabs + 1)
    BY <1>1, <1>2, EditorBounds
<1>5. y = [editors |-> r, activeQueryId |-> IF at > 1 THEN at - 2 ELSE x.activeQueryId]
    BY DEF Tabs!RemovedFrom
<1> HIDE DEF r, y
<1>6. y \in Tabs!Object /\ y.editors = r
    BY <1>3, <1>4, <1>5 DEF Tabs!Object
<1>7. Len(y.editors) <= MaxTabs + 1
    BY <1>1, <1>3, <1>6, EditorBounds
<1> HIDE DEF n
<1>8. /\ IsHistory(q) /\ Len(q) = Len(o) /\ q # <<>> /\ q[n] = y
    BY <1>1, <1>6, <1>7, ObjectPut
<1>9. q = [o EXCEPT ![Len(o)] = Tabs!RemovedFrom(@, at)]
    BY DEF y, x, n
<1> HIDE DEF q
<1>10. BenchCurrent(q).editors = Tabs!RemoveAt(BenchCurrent(o).editors, at)
    BY <1>6, <1>8 DEF BenchCurrent, r, x, n
<1>11. QED BY <1>8, <1>9, <1>10

\* A copy is closed and stays.
LEMMA ClosedPut ==
    ASSUME NEW o, IsHistory(o), o # <<>>, NEW at \in DOMAIN BenchCurrent(o).editors
    PROVE  LET q == [o EXCEPT ![Len(o)].editors[at].isClosed = TRUE] IN
           IsHistory(q) /\ Len(q) = Len(o) /\ q # <<>>
<1> DEFINE n == Len(o)
           x == o[n]
           e == [x.editors[at] EXCEPT !.isClosed = TRUE]
           r == [x.editors EXCEPT ![at] = e]
           y == [x EXCEPT !.editors = r]
           q == [o EXCEPT ![n] = y]
<1>1. /\ n \in DOMAIN o /\ x \in Tabs!Object /\ x.editors \in Seq(Tabs!Editor)
      /\ Len(x.editors) \in Nat /\ Len(x.editors) <= MaxTabs + 1 /\ DOMAIN x.editors = 1..Len(x.editors)
      /\ \A j \in DOMAIN x.editors : x.editors[j] \in Tabs!Editor
    BY HistoryFacts
<1>2. at \in DOMAIN x.editors
    BY DEF BenchCurrent
<1>3. q = [o EXCEPT ![Len(o)].editors[at].isClosed = TRUE]
    OBVIOUS
<1> HIDE DEF x
<1>4. x.editors[at] \in Tabs!Editor
    BY <1>1, <1>2
<1>5. e \in Tabs!Editor
    BY <1>4 DEF Tabs!Editor
<1> HIDE DEF e
<1>6. r \in Seq(Tabs!Editor) /\ Len(r) = Len(x.editors)
    BY <1>1, <1>2, <1>5
<1> HIDE DEF r
<1>7. y \in Tabs!Object /\ y.editors = r
    BY <1>1, <1>6 DEF Tabs!Object
<1> HIDE DEF y
<1>8. Len(y.editors) <= MaxTabs + 1
    BY <1>1, <1>6, <1>7
<1> HIDE DEF n
<1>9. IsHistory(q) /\ Len(q) = Len(o) /\ q # <<>>
    BY <1>1, <1>7, <1>8, ObjectPut
<1> HIDE DEF q
<1>10. QED BY <1>3, <1>9

\* With a tab closed, another editor of the same object becomes the active one.
LEMMA SoundWithout ==
    ASSUME NEW o, IsHistory(o), o # <<>>, Sound(o), ~Copies(o),
           NEW at \in DOMAIN BenchCurrent(o).editors, NEW j \in DOMAIN BenchCurrent(o).editors, j # at,
           NEW q, IsHistory(q), Len(q) = Len(o), q # <<>>,
           BenchCurrent(q).editors = Tabs!RemoveAt(BenchCurrent(o).editors, at)
    PROVE  Sound(WithActive(q, BenchCurrent(o).editors[j].home, BenchCurrent(o).editors[j].id))
<1> DEFINE s == BenchCurrent(o).editors
           r == BenchCurrent(q).editors
           id == s[j].id
           h == s[j].home
           p == WithActive(q, h, id)
<1>1. /\ s \in Seq(Tabs!Editor) /\ DOMAIN s = 1..Len(s) /\ Len(o) \in DOMAIN o
      /\ \A k \in DOMAIN s : s[k].id \in 1..(MaxTabs + 1)
    BY HistoryFacts DEF BenchCurrent
<1>2. /\ \A k \in DOMAIN s : ~s[k].isClosed /\ s[k].home = Len(o)
      /\ \A k, l \in DOMAIN s : s[k].id = s[l].id => k = l
    BY DEF Sound, Copies
<1>3. at \in DOMAIN s /\ j \in DOMAIN s /\ id \in 1..(MaxTabs + 1)
    BY <1>1
<1>4. r = Tabs!RemoveAt(s, at)
    OBVIOUS
<1>5. h = Len(o) /\ Len(q) \in DOMAIN q
    BY <1>2, <1>3, HistoryFacts
<1> HIDE DEF s, r
<1>6. /\ \A k \in DOMAIN r : IF k < at THEN k \in DOMAIN s /\ r[k] = s[k]
                                       ELSE k + 1 \in DOMAIN s /\ r[k] = s[k + 1]
      /\ \E k \in DOMAIN r : r[k] = s[j]
      /\ DOMAIN r = 1..Len(r)
    <2>1. LET z == Tabs!RemoveAt(s, at) IN
          /\ z \in Seq(Tabs!Editor)
          /\ \A k \in DOMAIN z : IF k < at THEN k \in DOMAIN s /\ z[k] = s[k]
                                           ELSE k + 1 \in DOMAIN s /\ z[k] = s[k + 1]
          /\ \A l \in DOMAIN s : l # at => \E k \in DOMAIN z : z[k] = s[l]
        BY <1>1, <1>3, OneLess
    <2>2. QED BY <1>3, <1>4, <2>1
<1> HIDE DEF id, h, p
<1>7. /\ Len(p) = Len(q) /\ \A m \in DOMAIN q : /\ p[m].editors = q[m].editors
                                                /\ p[m].activeQueryId = IF m = h THEN id ELSE q[m].activeQueryId
    BY <1>3, ActivePut DEF p
<1>8. BenchCurrent(p).editors = r /\ BenchCurrent(p).activeQueryId = id
    BY <1>5, <1>7 DEF BenchCurrent, r
<1>9. \A k \in DOMAIN r : \E l \in DOMAIN s : r[k] = s[l] /\ l = IF k < at THEN k ELSE k + 1
    BY <1>6
<1>10. \A k \in DOMAIN r : ~r[k].isClosed /\ r[k].home = Len(o)
    BY <1>2, <1>9
<1>11. ASSUME NEW k \in DOMAIN r, NEW l \in DOMAIN r, r[k].id = r[l].id PROVE k = l
    <2>1. (IF k < at THEN k ELSE k + 1) = (IF l < at THEN l ELSE l + 1)
        BY <1>2, <1>9, <1>11
    <2>2. k \in Nat /\ l \in Nat /\ at \in Nat
        BY <1>1, <1>3, <1>6
    <2>3. QED BY <2>1, <2>2
<1>12. \E k \in DOMAIN r : r[k].id = id
    BY <1>6 DEF id
<1>13. ~Copies(p)
    BY <1>7, <1>8, <1>10 DEF Copies
<1>14. Sound(p)
    BY <1>8, <1>10, <1>11, <1>12, <1>13 DEF Sound, Homes
<1>15. QED BY <1>14 DEF p, h, id, s

\* The only editor of an object is removed.
LEMMA SoundEmptied ==
    ASSUME NEW o, IsHistory(o), o # <<>>, NEW at \in DOMAIN BenchCurrent(o).editors, Len(BenchCurrent(o).editors) <= 1,
           NEW q, BenchCurrent(q).editors = Tabs!RemoveAt(BenchCurrent(o).editors, at)
    PROVE  Sound(q)
<1> DEFINE s == BenchCurrent(o).editors
<1>1. s \in Seq(Tabs!Editor) /\ DOMAIN s = 1..Len(s) /\ Len(s) \in Nat
    BY HistoryFacts DEF BenchCurrent
<1>2. at \in DOMAIN s /\ Len(s) <= 1
    BY ZenonT(60)
<1> HIDE DEF s
<1>3. Tabs!RemoveAt(s, at) \in Seq(Tabs!Editor) /\ Len(Tabs!RemoveAt(s, at)) = Len(s) - 1
    BY <1>1, <1>2, OneLess, ZenonT(60)
<1>4. Tabs!RemoveAt(s, at) = <<>>
    BY <1>1, <1>2, <1>3
<1>5. BenchCurrent(q).editors = <<>>
    BY <1>4 DEF s
<1>6. QED BY <1>5 DEF Sound, Homes, Copies

\* What is left of the history of a database when one of its tabs is closed.
LEMMA ClosedIn ==
    ASSUME EditorsTyped, NEW t \in Tabs!ToSet(Tabs!Row)
    PROVE  \E q : /\ Tabs!Closed(t) = [objects EXCEPT ![t.base] = q]
                  /\ IsHistory(q) /\ Len(q) = Len(objects[t.base]) /\ q # <<>>
                  /\ ~Copies(objects[t.base]) =>
                         BenchCurrent(q).editors = Tabs!RemoveAt(BenchCurrent(objects[t.base]).editors, t.at)
<1> DEFINE o == objects[t.base]
           r == [o EXCEPT ![Len(o)] = Tabs!RemovedFrom(@, t.at)]
           c == [o EXCEPT ![Len(o)].editors[t.at].isClosed = TRUE]
<1>1. /\ IsHistory(o) /\ o # <<>> /\ t.at \in DOMAIN BenchCurrent(o).editors
      /\ Tabs!EditorAt(t) = BenchCurrent(o).editors[t.at] /\ Tabs!Place(t.base) = Len(o)
    BY TabFacts
<1>2. CASE Tabs!IsOfPlace(t)
    <2>1. Tabs!Closed(t) = [objects EXCEPT ![t.base] = r]
        BY <1>1, <1>2 DEF Tabs!Closed
    <2>2. /\ IsHistory(r) /\ Len(r) = Len(o) /\ r # <<>>
          /\ BenchCurrent(r).editors = Tabs!RemoveAt(BenchCurrent(o).editors, t.at)
        BY <1>1, RemovePut
    <2> HIDE DEF r
    <2>3. QED BY <2>1, <2>2
<1>3. CASE ~Tabs!IsOfPlace(t)
    <2>1. Tabs!Closed(t) = [objects EXCEPT ![t.base] = c]
        BY <1>1, <1>3, ZenonT(60) DEF Tabs!Closed
    <2>2. IsHistory(c) /\ Len(c) = Len(o) /\ c # <<>>
        BY <1>1, ClosedPut
    <2>3. Copies(o)
        BY <1>1, <1>3 DEF Tabs!IsOfPlace, Copies
    <2> HIDE DEF c
    <2>4. QED BY <2>1, <2>2, <2>3
<1>4. QED BY <1>2, <1>3

LEMMA ClosesTab ==
    ASSUME EditorsInv, NEW i \in DOMAIN Tabs!Row, Tabs!CloseTab(i)
    PROVE  EditorsInv'
<1> DEFINE t == Tabs!Row[i]
           k == Tabs!NextTab(i)
           u == Tabs!Row[k]
<1>0. EditorsTyped /\ ~astray
    BY DEF EditorsInv, Tabs!CloseTab
<1>1. /\ t \in Tabs!ToSet(Tabs!Row) /\ Len(Tabs!Row) \in Nat /\ DOMAIN Tabs!Row = 1..Len(Tabs!Row)
      /\ \A m, n \in DOMAIN Tabs!Row : Tabs!Row[m] = Tabs!Row[n] => m = n
    <2>1. Tabs!Row \in Seq(Tab)
        BY <1>0, TheRow
    <2>2. QED BY <1>0, <2>1, TheRow DEF Tabs!ToSet
<1>2. CASE Len(Tabs!Row) = 1
    <2>1. NoTabs'
        BY <1>0, <1>2 DEF Tabs!CloseTab, NoTabs, EditorsTyped
    <2>2. QED BY <2>1, NoTabsThen
<1>3. CASE Len(Tabs!Row) # 1
    <2> DEFINE b == t.base
               c == u.base
               o == objects[b]
               oc == objects[c]
               e == Tabs!EditorAt(u)
    <2>1. k \in DOMAIN Tabs!Row /\ k # i
        BY <1>1, <1>3 DEF Tabs!NextTab
    <2>2. u \in Tabs!ToSet(Tabs!Row) /\ u # t
        BY <1>1, <2>1 DEF Tabs!ToSet
    <2>3. /\ b \in Base /\ IsHistory(o) /\ o # <<>> /\ t.at \in DOMAIN BenchCurrent(o).editors
          /\ Tabs!Tabs(b) = BenchCurrent(o).editors /\ (Tabs!HasCopies(b) <=> Copies(o))
          /\ t = [base |-> t.base, at |-> t.at]
        BY <1>0, <1>1, TabFacts
    <2>4. /\ c \in Base /\ IsHistory(oc) /\ oc # <<>> /\ u.at \in DOMAIN BenchCurrent(oc).editors
          /\ e = BenchCurrent(oc).editors[u.at] /\ e.id \in 1..(MaxTabs + 1)
          /\ (Tabs!HasCopies(c) <=> Copies(oc)) /\ u = [base |-> u.base, at |-> u.at]
        BY <1>0, <2>2, TabFacts
    <2>5. /\ objects' = Tabs!SetActive(Tabs!Closed(t), u) /\ activeBase' = c
          /\ order' = order /\ fetches' = fetches
          /\ astray' = (Tabs!HasCopies(b) \/ Tabs!StraysTo(c, e.id) \/ (c # b /\ Len(Tabs!Tabs(b)) > 1))
        BY <1>3 DEF Tabs!CloseTab
    <2>6. PICK q : /\ Tabs!Closed(t) = [objects EXCEPT ![b] = q]
                   /\ IsHistory(q) /\ Len(q) = Len(o) /\ q # <<>>
                   /\ ~Copies(o) => BenchCurrent(q).editors = Tabs!RemoveAt(BenchCurrent(o).editors, t.at)
        BY <1>0, <1>1, ClosedIn
    <2> DEFINE before == IF c = b THEN q ELSE oc
               p == WithActive(before, e.home, e.id)
    <2>7. /\ DOMAIN objects' = Base
          /\ \A x \in Base : objects'[x] = IF x = c THEN p ELSE IF x = b THEN q ELSE objects[x]
        <3>1. DOMAIN objects = Base
            BY <1>0, ZenonT(60) DEF EditorsTyped
        <3>2. objects' = [[objects EXCEPT ![b] = q] EXCEPT ![c][e.home].activeQueryId = e.id]
            BY <2>5, <2>6 DEF Tabs!SetActive
        <3>3. DOMAIN [objects EXCEPT ![b] = q] = Base
              /\ \A x \in Base : [objects EXCEPT ![b] = q][x] = IF x = b THEN q ELSE objects[x]
            BY <2>3, <3>1, ZenonT(60)
        <3> DEFINE ob == [objects EXCEPT ![b] = q]
                   h == e.home
                   id == e.id
        <3>4. ob[c] = before
            BY <2>4, <3>3, ZenonT(60)
        <3>5. p = [ob[c] EXCEPT ![h].activeQueryId = id]
            BY <3>4 DEF WithActive
        <3> HIDE DEF ob, h, id, before, p, e
        <3>6. objects' = [ob EXCEPT ![c] = p]
            BY <3>2, <3>5 DEF ob, h, id
        <3>7. DOMAIN ob = Base /\ \A x \in Base : ob[x] = IF x = b THEN q ELSE objects[x]
            BY <3>3 DEF ob
        <3> HIDE DEF b, c
        <3>8. QED BY <2>4, <3>6, <3>7
    <2>8. IsHistory(before) /\ before # <<>> /\ Len(before) = Len(oc)
        BY <2>4, <2>6, ZenonT(60)
    <2>9. IsHistory(p) /\ p # <<>> /\ Len(p) = Len(oc)
        <3> DEFINE h == e.home
                   id == e.id
        <3>1. id \in 1..(MaxTabs + 1)
            BY <2>4
        <3>2. p = WithActive(before, h, id)
            OBVIOUS
        <3> HIDE DEF before, e, h, id, p
        <3>3. QED BY <2>8, <3>1, <3>2, ActivePut
    <2>10. \A x \in Base : /\ IsHistory(objects'[x]) /\ (objects'[x] = <<>> <=> objects[x] = <<>>)
                           /\ Len(objects'[x]) = Len(objects[x])
        <3> HIDE DEF p, before
        <3>1. ASSUME NEW x \in Base
              PROVE  /\ IsHistory(objects'[x]) /\ (objects'[x] = <<>> <=> objects[x] = <<>>)
                     /\ Len(objects'[x]) = Len(objects[x])
            <4>1. CASE x = c
                BY <2>4, <2>7, <2>9, <4>1
            <4>2. CASE x # c /\ x = b
                BY <2>3, <2>6, <2>7, <4>2
            <4>3. CASE x # c /\ x # b
                BY <1>0, <2>7, <4>3 DEF EditorsTyped
            <4>4. QED BY <4>1, <4>2, <4>3
        <3>2. QED BY <3>1
    <2>11. \A f \in fetches' : f.kind = "reload" => Len(objects'[f.base]) <= MaxReloads
        BY <1>0, <2>5, <2>10 DEF EditorsTyped, Tabs!Fetch
    <2>12. activeBase' \in Base \cup {NoBase} /\ astray' \in BOOLEAN /\ (astray => astray')
        BY <1>0, <2>4, <2>5, ZenonT(60)
    <2>13. ASSUME ~astray', NEW x \in Base, objects'[x] # objects[x] PROVE Sound(objects'[x])
        <3>1. ~Tabs!HasCopies(b) /\ ~Tabs!StraysTo(c, e.id) /\ ~(c # b /\ Len(Tabs!Tabs(b)) > 1)
            <4> HIDE DEF b, c, e
            <4>1. QED BY <2>5, <2>13, ZenonT(60)
        <3>2. ~Copies(o) /\ (Copies(oc) => e.id = BenchCurrent(oc).activeQueryId)
            BY <2>3, <2>4, <3>1, ZenonT(60) DEF Tabs!StraysTo, Tabs!Last, BenchCurrent
        <3>3. Sound(o) /\ Sound(oc)
            BY <1>0, <2>3, <2>4 DEF EditorsInv
        <3>4. BenchCurrent(q).editors = Tabs!RemoveAt(BenchCurrent(o).editors, t.at)
            BY <2>6, <3>2, ZenonT(60)
        <3>5. CASE c = b
            <4>1. u.at # t.at
                BY <2>2, <2>3, <2>4, <3>5
            <4>2. u.at \in DOMAIN BenchCurrent(o).editors /\ e = BenchCurrent(o).editors[u.at]
                BY <2>4, <3>5
            <4>3. Sound(WithActive(q, BenchCurrent(o).editors[u.at].home, BenchCurrent(o).editors[u.at].id))
                <5> DEFINE at == t.at
                           j == u.at
                <5> HIDE DEF o, at, j
                <5>1. at \in DOMAIN BenchCurrent(o).editors /\ j \in DOMAIN BenchCurrent(o).editors /\ j # at
                    BY <2>3, <4>1, <4>2 DEF at, j
                <5>2. BenchCurrent(q).editors = Tabs!RemoveAt(BenchCurrent(o).editors, at)
                    BY <3>4 DEF at
                <5>3. Sound(WithActive(q, BenchCurrent(o).editors[j].home, BenchCurrent(o).editors[j].id))
                    BY <2>3, <2>6, <3>2, <3>3, <5>1, <5>2, SoundWithout
                <5>4. QED BY <5>3 DEF j
            <4>4. p = WithActive(q, BenchCurrent(o).editors[u.at].home, BenchCurrent(o).editors[u.at].id)
                BY <3>5, <4>2
            <4> HIDE DEF p
            <4>5. x = c
                BY <2>7, <2>13, <3>5
            <4>6. QED BY <2>7, <4>3, <4>4, <4>5, ZenonT(60)
        <3>6. CASE c # b
            <4>1. Len(BenchCurrent(o).editors) <= 1
                <5>1. Len(BenchCurrent(o).editors) \in Nat
                    BY <2>3, HistoryFacts DEF BenchCurrent
                <5>2. QED BY <2>3, <3>1, <3>6, <5>1
            <4>2. Sound(q)
                <5> DEFINE at == t.at
                <5> HIDE DEF o, at
                <5>1. at \in DOMAIN BenchCurrent(o).editors /\ BenchCurrent(q).editors = Tabs!RemoveAt(BenchCurrent(o).editors, at)
                    BY <2>3, <3>4 DEF at
                <5>2. QED BY <2>3, <4>1, <5>1, SoundEmptied
            <4>3. Sound(p)
                <5> DEFINE j == u.at
                <5>1. p = WithActive(oc, BenchCurrent(oc).editors[j].home, BenchCurrent(oc).editors[j].id)
                    BY <2>4, <3>6, ZenonT(60)
                <5>2. j \in DOMAIN BenchCurrent(oc).editors
                      /\ (Copies(oc) => BenchCurrent(oc).editors[j].id = BenchCurrent(oc).activeQueryId)
                    BY <2>4, <3>2, ZenonT(60)
                <5> HIDE DEF oc, j, p
                <5>3. Sound([oc EXCEPT ![BenchCurrent(oc).editors[j].home].activeQueryId = BenchCurrent(oc).editors[j].id])
                    BY <2>4, <3>3, <5>2, SoundPut
                <5>4. QED BY <5>1, <5>3, Zenon DEF WithActive
            <4> HIDE DEF p
            <4>4. x = c \/ x = b
                BY <2>7, <2>13
            <4>5. QED BY <2>7, <3>6, <4>2, <4>3, <4>4
        <3>7. QED BY <3>5, <3>6
    <2>14. QED BY <2>5, <2>7, <2>10, <2>11, <2>12, <2>13, Puts
<1>4. QED BY <1>2, <1>3

LEMMA EditorsStep ==
    ASSUME EditorsInv, Tabs!EditorNext
    PROVE  EditorsInv'
<1>1. CASE \E b \in Base : Tabs!OpenBase(b) \/ Tabs!ReloadBase(b) \/ Tabs!ShowInEditor(b)
    BY <1>1, Opens, ReloadsBase, ShowsQuery
<1>2. CASE \E b \in Base, fromTree \in BOOLEAN : Tabs!GoTo(b, fromTree)
    BY <1>2, GoesTo
<1>3. CASE \E i \in DOMAIN Tabs!Row : Tabs!CloseTab(i)
    BY <1>3, ClosesTab
<1>4. CASE \E t \in Tabs!ToSet(Tabs!Row) : Tabs!ClickTab(t)
    BY <1>4, ClicksTab
<1>5. CASE Tabs!NewTab
    BY <1>5, AddsTab
<1>6. CASE \E f \in fetches : Tabs!BaseLoaded(f) \/ Tabs!BaseReloaded(f) \/ Tabs!FetchFailed(f)
    BY <1>6, LoadsBase, ReadsBase, DropsFetch
<1>7. QED BY <1>1, <1>2, <1>3, <1>4, <1>5, <1>6 DEF Tabs!EditorNext

\* In a sound object the editor that is active is the one that is shown.
LEMMA ActiveShown ==
    ASSUME EditorsInv, ~astray, NEW t \in Tabs!ToSet(Tabs!Row)
    PROVE  /\ t \in Tabs!ActiveTabs <=> t \in Tabs!Rendered
           /\ t \in Tabs!Rendered <=>
                  t.base = activeBase
                  /\ BenchCurrent(objects[t.base]).editors[t.at].id = BenchCurrent(objects[t.base]).activeQueryId
<1> DEFINE o == objects[t.base]
           e == BenchCurrent(o).editors[t.at]
<1>1. /\ t.base \in Base /\ IsHistory(o) /\ o # <<>> /\ t.at \in DOMAIN BenchCurrent(o).editors
      /\ Tabs!EditorAt(t) = e
    BY TabFacts DEF EditorsInv
<1>2. Sound(o)
    BY <1>1, ZenonT(60) DEF EditorsInv
<1>3. ~e.isClosed /\ o[e.home].activeQueryId = BenchCurrent(o).activeQueryId
    <2>1. ~e.isClosed
        BY <1>1, <1>2, ZenonT(60) DEF Sound
    <2>2. e.home = Len(o) \/ (e.home = Len(o) - 1 /\ o[Len(o) - 1].activeQueryId = BenchCurrent(o).activeQueryId)
        BY <1>1, <1>2, ZenonT(60) DEF Sound, Homes, Copies
    <2>3. QED BY <2>1, <2>2 DEF BenchCurrent
<1>4. t \in Tabs!Rendered <=> t.base = activeBase /\ e.id = BenchCurrent(o).activeQueryId
    BY <1>1 DEF Tabs!Rendered, Tabs!Last, BenchCurrent
<1>5. t \in Tabs!ActiveTabs <=> activeBase = t.base /\ ~e.isClosed /\ e.id = o[e.home].activeQueryId
    BY <1>1 DEF Tabs!ActiveTabs, Tabs!IsActive
<1>6. QED BY <1>3, <1>4, <1>5

LEMMA EditorsKept == EditorsInv => Tabs!ActiveTabIsRendered
<1>1. SUFFICES ASSUME EditorsInv, ~astray
               PROVE  /\ Tabs!ActiveTabs = Tabs!Rendered /\ Tabs!Cardinality(Tabs!ActiveTabs) <= 1
                      /\ activeBase \in Tabs!Loaded =>
                             (Tabs!Tabs(activeBase) = <<>> \/ Tabs!ActiveTabs # {})
    BY DEF Tabs!ActiveTabIsRendered
<1>2. Tabs!ActiveTabs = Tabs!Rendered
    <2>1. \A t \in Tabs!ActiveTabs : t \in Tabs!ToSet(Tabs!Row)
        BY DEF Tabs!ActiveTabs
    <2>2. \A t \in Tabs!Rendered : t \in Tabs!ToSet(Tabs!Row)
        BY DEF Tabs!Rendered
    <2>3. QED BY <1>1, <2>1, <2>2, ActiveShown
<1>3. ASSUME NEW t \in Tabs!Rendered, NEW u \in Tabs!Rendered PROVE t = u
    <2>1. t \in Tabs!ToSet(Tabs!Row) /\ u \in Tabs!ToSet(Tabs!Row)
        BY DEF Tabs!Rendered
    <2> DEFINE o == objects[activeBase]
    <2>2. /\ t.base = activeBase /\ BenchCurrent(o).editors[t.at].id = BenchCurrent(o).activeQueryId
          /\ u.base = activeBase /\ BenchCurrent(o).editors[u.at].id = BenchCurrent(o).activeQueryId
        BY <1>1, <2>1, ActiveShown
    <2>3. /\ t.base \in Base /\ o # <<>> /\ t.at \in DOMAIN BenchCurrent(o).editors
          /\ u.at \in DOMAIN BenchCurrent(o).editors
          /\ t = [base |-> t.base, at |-> t.at] /\ u = [base |-> u.base, at |-> u.at]
        BY <1>1, <2>1, <2>2, TabFacts DEF EditorsInv
    <2>4. Sound(o)
        BY <1>1, <2>2, <2>3 DEF EditorsInv
    <2>5. t.at = u.at
        BY <2>2, <2>3, <2>4 DEF Sound
    <2>6. QED BY <2>2, <2>3, <2>5
<1>4. Tabs!Cardinality(Tabs!Rendered) <= 1
    <2>1. CASE Tabs!Rendered = {}
        <3>1. Cardinality({}) = 0
            BY FS_EmptySet
        <3>2. QED BY <2>1, <3>1 DEF Tabs!Cardinality, Cardinality
    <2>2. CASE Tabs!Rendered # {}
        <3>1. PICK t \in Tabs!Rendered : TRUE
            BY <2>2
        <3>2. Tabs!Rendered = {t}
            BY <1>3, <3>1
        <3>3. Cardinality({t}) = 1
            BY FS_Singleton
        <3>4. QED BY <3>2, <3>3 DEF Tabs!Cardinality, Cardinality
    <2>3. QED BY <2>1, <2>2
<1>5. ASSUME activeBase \in Tabs!Loaded, Tabs!Tabs(activeBase) # <<>>
      PROVE  Tabs!Rendered # {}
    <2> DEFINE o == objects[activeBase]
    <2>1. activeBase \in Base /\ o # <<>>
        BY <1>1, <1>5, EditorBounds DEF EditorsInv, EditorsTyped, Tabs!Loaded
    <2>2. Sound(o) /\ Tabs!Tabs(activeBase) = BenchCurrent(o).editors /\ IsHistory(o)
        BY <1>1, <2>1, LoadedHistory
    <2>3. PICK j \in DOMAIN BenchCurrent(o).editors : BenchCurrent(o).editors[j].id = BenchCurrent(o).activeQueryId
        BY <1>5, <2>2 DEF Sound
    <2> DEFINE t == [base |-> activeBase, at |-> j]
    <2>4. j \in Nat
        BY <2>1, <2>2, <2>3, HistoryFacts DEF BenchCurrent
    <2>5. t \in Tab /\ t.base = activeBase /\ t.at = j
        BY <2>1, <2>4 DEF Tab
    <2> HIDE DEF t
    <2>6. t \in Tabs!ToSet(Tabs!Row)
        BY <1>1, <2>1, <2>2, <2>3, <2>5, TheRow DEF EditorsInv
    <2>7. t \in Tabs!Rendered
        BY <1>1, <2>3, <2>5, <2>6, ActiveShown
    <2>8. QED BY <2>7
<1>6. QED BY <1>2, <1>4, <1>5

-----------------------------------------------------------------------------
(* The runs of an editor                                                   *)

RunsInv ==
    /\ Runs!RunTypeOK
    /\ Runs!RunIsShown
    /\ ~overlapped => \A r \in runs :
           /\ runs = {r} /\ r.number = started
           /\ r.type = "raw_query" => queries = Runs!NoRun

LEMMA RunsStep ==
    ASSUME RunsInv, Runs!RunNext
    PROVE  RunsInv'
<1> USE DEF RunsInv, Runs!RunTypeOK, Runs!RunIsShown, Runs!Run, Runs!NoRun, Runs!ResultType
<1>0. MaxRuns \in Nat \ {0}
    BY TabAssumption DEF Runs!EditorRunsAssumption
<1>1. ASSUME NEW type \in Runs!ResultType, Runs!StartRun(type) PROVE RunsInv'
    <2> DEFINE new == [number |-> started + 1, type |-> type]
    <2>1. /\ started < MaxRuns /\ started' = started + 1 /\ requestState' = "requested"
          /\ runs' = runs \cup {new} /\ queries' \in {Runs!NoRun, queries} /\ UNCHANGED results
          /\ type = "raw_query" => queries' = Runs!NoRun
          /\ overlapped' = (overlapped \/ runs # {})
        BY <1>1 DEF Runs!StartRun
    <2>2. new.number = started + 1 /\ new.type = type
        OBVIOUS
    <2>3. started' \in 0..MaxRuns
        BY <1>0, <2>1
    <2>4. \A r \in [number : 1..started, type : Runs!ResultType] : r \in [number : 1..(started + 1), type : Runs!ResultType]
        BY <1>0
    <2>5. new \in [number : 1..(started + 1), type : Runs!ResultType]
        BY <1>0
    <2>6. Runs!RunTypeOK'
        BY <2>1, <2>3, <2>4, <2>5
    <2>7. QED BY <2>1, <2>2, <2>6, <1>0
<1>2. ASSUME NEW r \in runs, Runs!RunAnswered(r) PROVE RunsInv'
    <2>1. /\ runs' = runs \ {r} /\ UNCHANGED <<started, overlapped>> /\ requestState' = "success"
          /\ results' = r.number /\ queries' \in {r.number, queries}
          /\ r.type = "raw_query" => queries' = queries
          /\ r.type = "multi_query" => queries' = r.number
        BY <1>2 DEF Runs!RunAnswered
    <2>2. r.number \in 1..started /\ r.type \in Runs!ResultType
        OBVIOUS
    <2>3. Runs!RunTypeOK'
        BY <1>0, <2>1, <2>2
    <2>4. ~overlapped => runs = {r} /\ r.number = started /\ (r.type = "raw_query" => queries = Runs!NoRun)
        OBVIOUS
    <2>5. runs = {r} => runs' = {}
        BY <2>1
    <2>6. r.type = "raw_query" \/ r.type = "multi_query"
        BY <2>2
    <2>7. QED BY <2>1, <2>3, <2>4, <2>5, <2>6
<1>3. ASSUME NEW r \in runs, Runs!RunFailed(r) PROVE RunsInv'
    <2>1. /\ runs' = runs \ {r} /\ UNCHANGED <<queries, results, started, overlapped>>
          /\ requestState' = "error"
        BY <1>3 DEF Runs!RunFailed
    <2>2. Runs!RunTypeOK'
        BY <1>0, <2>1
    <2>3. ~overlapped => runs = {r}
        OBVIOUS
    <2>4. runs = {r} => runs' = {}
        BY <2>1
    <2>5. QED BY <2>1, <2>2, <2>3, <2>4
<1>4. ASSUME Runs!CopyEditor PROVE RunsInv'
    BY <1>0, <1>4 DEF Runs!CopyEditor, Runs!NewEditor
<1>5. QED BY <1>1, <1>2, <1>3, <1>4 DEF Runs!RunNext

LEMMA RunsInit == TabInit => RunsInv
<1>1. TabInit => Runs!RunInit
    BY DEF TabInit
<1>2. Runs!RunInit => RunsInv
    <2> SUFFICES ASSUME requestState = "none", queries = 0, results = 0, runs = {}, started = 0, overlapped = FALSE
                 PROVE  RunsInv
        BY DEF Runs!RunInit, Runs!NoRun
    <2>1. MaxRuns \in Nat \ {0}
        BY TabAssumption DEF Runs!EditorRunsAssumption
    <2>2. Runs!RunTypeOK
        <3>1. 0 \in 0..MaxRuns /\ 0 \in Runs!Run \cup {Runs!NoRun}
            BY <2>1 DEF Runs!NoRun
        <3>2. QED BY <3>1 DEF Runs!RunTypeOK
    <2>3. QED BY <2>2 DEF RunsInv, Runs!RunIsShown
<1>3. QED BY <1>1, <1>2

-----------------------------------------------------------------------------
(* The parts in the tab                                                    *)

\* A step of the tab is one of the part that is played, and leaves the other parts as they are.
LEMMA BenchInTab ==
    ASSUME [TabNext]_tabVars, part = "workbench"
    PROVE  Bench!BenchNext \/ UNCHANGED benchVars
BY DEF TabNext, In, tabVars

LEMMA EditorsInTab ==
    ASSUME [TabNext]_tabVars, part = "editors"
    PROVE  Tabs!EditorNext \/ UNCHANGED editorVars
BY DEF TabNext, In, tabVars

LEMMA RunsInTab ==
    ASSUME [TabNext]_tabVars, part = "runs"
    PROVE  Runs!RunNext \/ UNCHANGED runVars
BY DEF TabNext, In, tabVars

LEMMA BenchKept == BenchInv => Bench!RouteIsActive /\ Bench!ActiveIsHeld
<1>1. ASSUME BenchInv PROVE Bench!ActiveIsHeld
    <2>1. ActiveHeld(bench, closedOnce)
        BY <1>1 DEF BenchInv, BenchWhole, BenchFit
    <2>2. QED BY <2>1 DEF ActiveHeld, Bench!ActiveIsHeld
<1>2. QED BY <1>1 DEF BenchInv

LEMMA BenchRests ==
    ASSUME BenchInv, UNCHANGED benchVars
    PROVE  BenchInv'
BY DEF benchVars, BenchInv, Bench!RouteIsActive

LEMMA EditorsRest ==
    ASSUME EditorsInv, UNCHANGED editorVars
    PROVE  EditorsInv'
<1>1. /\ objects' = objects /\ order' = order /\ activeBase' = activeBase
      /\ fetches' = fetches /\ astray' = astray
    BY DEF editorVars
<1>2. activeBase' \in Base \cup {NoBase}
    BY <1>1 DEF EditorsInv, EditorsTyped
<1>3. QED BY <1>1, <1>2, OnlyActive

-----------------------------------------------------------------------------
(* The objects of the databases are a function                             *)

IsTable(f) == f = [b \in Base |-> f[b]]

LEMMA OneChanged ==
    ASSUME NEW f, IsTable(f), NEW b, NEW x
    PROVE  IsTable([f EXCEPT ![b] = x])
BY DEF IsTable

LEMMA ObjectsStayTable ==
    ASSUME IsTable(objects), Tabs!EditorNext
    PROVE  IsTable(objects')
<1>1. \A b, x : IsTable([objects EXCEPT ![b] = x])
    BY OneChanged
<1>2. ASSUME NEW t PROVE IsTable(Tabs!Closed(t))
    <2> DEFINE o == objects[t.base]
               n == Tabs!Place(t.base)
               j == t.at
               removed == [o EXCEPT ![n] = Tabs!RemovedFrom(o[n], j)]
               marked == [o EXCEPT ![n].editors[j].isClosed = TRUE]
    <2>1. Tabs!Closed(t) = [objects EXCEPT ![t.base] = removed] \/ Tabs!Closed(t) = [objects EXCEPT ![t.base] = marked]
        BY Zenon DEF Tabs!Closed
    <2> HIDE DEF removed, marked
    <2>2. IsTable([objects EXCEPT ![t.base] = removed])
        BY OneChanged
    <2>3. IsTable([objects EXCEPT ![t.base] = marked])
        BY OneChanged
    <2>4. QED BY <2>1, <2>2, <2>3, Zenon
<1>3. ASSUME NEW f, IsTable(f), NEW t PROVE IsTable(Tabs!SetActive(f, t))
    <2> DEFINE e == Tabs!EditorAt(t)
               turned == [f[t.base] EXCEPT ![e.home].activeQueryId = e.id]
    <2>1. Tabs!SetActive(f, t) = [f EXCEPT ![t.base] = turned]
        BY Zenon DEF Tabs!SetActive
    <2> HIDE DEF turned
    <2>2. IsTable([f EXCEPT ![t.base] = turned])
        BY <1>3, OneChanged
    <2>3. QED BY <2>1, <2>2, Zenon
<1>4. ASSUME NEW b, Tabs!OpenBase(b) \/ Tabs!ReloadBase(b) PROVE IsTable(objects')
    <2>1. objects' = [objects EXCEPT ![b] = <<Tabs!NewObject>>] \/ objects' = objects
        BY <1>4 DEF Tabs!OpenBase, Tabs!ReloadBase
    <2>2. IsTable([objects EXCEPT ![b] = <<Tabs!NewObject>>])
        BY OneChanged
    <2>3. QED BY <2>1, <2>2, Zenon
<1>5. ASSUME NEW b, NEW n, NEW query, objects' = [objects EXCEPT ![b][n] = query] PROVE IsTable(objects')
    <2> DEFINE longer == [objects[b] EXCEPT ![n] = query]
    <2>1. objects' = [objects EXCEPT ![b] = longer]
        BY <1>5, Zenon
    <2> HIDE DEF longer
    <2>2. IsTable([objects EXCEPT ![b] = longer])
        BY OneChanged
    <2>3. QED BY <2>1, <2>2, Zenon
<1>6. ASSUME NEW b, NEW n, Tabs!AddQuery(b, n) PROVE IsTable(objects')
    <2>1. objects' = [objects EXCEPT ![b][n] = Tabs!WithQuery(objects[b][n], n)]
        BY <1>6, Zenon DEF Tabs!AddQuery
    <2>2. QED BY <2>1, <1>5
<1>7. ASSUME NEW b, NEW fromTree, Tabs!GoTo(b, fromTree) PROVE IsTable(objects')
    <2> DEFINE n == Tabs!Place(b)
    <2>1. objects' = [objects EXCEPT ![b][n] = Tabs!WithQuery(objects[b][n], n)] \/ objects' = objects
        BY <1>7, Zenon DEF Tabs!GoTo
    <2> HIDE DEF n
    <2>2. QED BY <2>1, <1>5
<1>8. ASSUME NEW i, Tabs!CloseTab(i) PROVE IsTable(objects')
    <2> DEFINE t == Tabs!Row[i]
               next == Tabs!Row[Tabs!NextTab(i)]
    <2>1. objects' = [b \in Base |-> <<>>] \/ objects' = Tabs!SetActive(Tabs!Closed(t), next)
        BY <1>8, Zenon DEF Tabs!CloseTab
    <2> HIDE DEF t, next
    <2>2. IsTable([b \in Base |-> <<>>])
        BY DEF IsTable
    <2>3. IsTable(Tabs!SetActive(Tabs!Closed(t), next))
        BY <1>2, <1>3
    <2>4. QED BY <2>1, <2>2, <2>3, Zenon
<1>9. ASSUME NEW t, Tabs!ClickTab(t) PROVE IsTable(objects')
    <2>1. objects' = Tabs!SetActive(objects, t)
        BY <1>9, Zenon DEF Tabs!ClickTab
    <2>2. IsTable(Tabs!SetActive(objects, t))
        BY <1>3
    <2>3. QED BY <2>1, <2>2, Zenon
<1>10. ASSUME NEW f, Tabs!BaseLoaded(f) \/ Tabs!BaseReloaded(f) \/ Tabs!FetchFailed(f) PROVE IsTable(objects')
    <2> DEFINE again == Append(objects[f.base], Tabs!CopyFrom(Tabs!Last(objects[f.base]), Len(objects[f.base])))
    <2>1. \/ objects' = [objects EXCEPT ![f.base] = <<Tabs!NewObject>>]
          \/ objects' = [objects EXCEPT ![f.base] = again]
          \/ objects' = objects
        BY <1>10 DEF Tabs!BaseLoaded, Tabs!BaseReloaded, Tabs!FetchFailed
    <2> HIDE DEF again
    <2>2. IsTable([objects EXCEPT ![f.base] = <<Tabs!NewObject>>]) /\ IsTable([objects EXCEPT ![f.base] = again])
        BY <1>1
    <2>3. QED BY <2>1, <2>2, Zenon
<1>11. QED BY <1>4, <1>6, <1>7, <1>8, <1>9, <1>10 DEF Tabs!EditorNext, Tabs!NewTab, Tabs!ShowInEditor

LEMMA EditorsTypes == EditorsInv /\ IsTable(objects) => Tabs!EditorTypeOK
<1> SUFFICES ASSUME EditorsTyped, IsTable(objects) PROVE Tabs!EditorTypeOK
    BY DEF EditorsInv
<1>1. \A b \in Base : objects[b] \in Seq(Tabs!Object)
    BY DEF EditorsTyped, IsHistory
<1>2. objects \in [Base -> Seq(Tabs!Object)]
    BY <1>1 DEF IsTable
<1>3. QED BY <1>2 DEF EditorsTyped, Tabs!EditorTypeOK

\* Only servers are noted as closed.
LEMMA ClosedServers ==
    ASSUME BenchInv, closedOnce \in SUBSET Server, Bench!BenchNext
    PROVE  closedOnce' \in SUBSET Server
<1>1. bench \in Benches /\ benchRequests \in SUBSET Bench!Request
    BY DEF BenchInv, BenchWhole, BenchFit
<1>2. CASE Bench!CloseDbServer
    <2>1. bench.activeDbServerId \in Server
        BY <1>1, <1>2 DEF Bench!CloseDbServer, Bench!ActiveFound, Benches
    <2>2. closedOnce' = closedOnce \cup {bench.activeDbServerId}
        BY <1>2 DEF Bench!CloseDbServer
    <2>3. QED BY <2>1, <2>2
<1>3. ASSUME NEW r \in benchRequests, NEW names, Bench!ReindexAnswered(r, names) PROVE closedOnce' \in SUBSET Server
    <2>1. r.server \in Server
        BY <1>1 DEF Bench!Request
    <2>2. closedOnce' = closedOnce \cup (IF bench.activeDatabase[r.server] \in names THEN {} ELSE {r.server})
        BY <1>3 DEF Bench!ReindexAnswered
    <2>3. QED BY <2>1, <2>2
<1>4. ASSUME NEW r, NEW names, \/ Bench!IndexAnswered(r, names) \/ Bench!IndexFailed(r) \/ Bench!ReindexFailed(r)
                              \/ Bench!LoadAnswered(r) \/ Bench!LoadFailed(r)
                              \/ Bench!ReloadAnswered(r) \/ Bench!ReloadFailed(r)
      PROVE  closedOnce' = closedOnce
    BY <1>4 DEF Bench!IndexAnswered, Bench!IndexFailed, Bench!ReindexFailed, Bench!LoadAnswered,
                Bench!LoadFailed, Bench!ReloadAnswered, Bench!ReloadFailed
<1>5. ASSUME NEW s, NEW d, Bench!BenchAnswered(Bench!Kind, s, d) PROVE closedOnce' \in SUBSET Server
    <2>1. PICK r \in benchRequests :
              \/ \E names : Bench!IndexAnswered(r, names) \/ Bench!ReindexAnswered(r, names)
              \/ Bench!IndexFailed(r) \/ Bench!ReindexFailed(r)
              \/ Bench!LoadAnswered(r) \/ Bench!LoadFailed(r)
              \/ Bench!ReloadAnswered(r) \/ Bench!ReloadFailed(r)
        BY <1>5, Zenon DEF Bench!BenchAnswered
    <2>2. QED BY <2>1, <1>3, <1>4
<1>6. ASSUME NEW s, NEW d, Bench!Goto(s, d) PROVE closedOnce' = closedOnce
    BY <1>6 DEF Bench!Goto
<1>7. ASSUME NEW d, Bench!ReloadDatabase(d) PROVE closedOnce' = closedOnce
    BY <1>7 DEF Bench!ReloadDatabase
<1>8. ASSUME Bench!Leave \/ Bench!ReloadDbServer \/ Bench!BenchLogout \/ Bench!ServersKnown
      PROVE  closedOnce' \in {closedOnce, {}}
    BY <1>8 DEF Bench!Leave, Bench!ReloadDbServer, Bench!BenchLogout, Bench!ServersKnown
<1>9. QED BY <1>2, <1>5, <1>6, <1>7, <1>8 DEF Bench!BenchNext

LEMMA BenchTypes == BenchInv /\ closedOnce \in SUBSET Server => Bench!BenchTypeOK
<1> SUFFICES ASSUME BenchInv, closedOnce \in SUBSET Server PROVE Bench!BenchTypeOK
    OBVIOUS
<1>1. bench \in Benches /\ bench.out = {}
    BY DEF BenchInv, BenchWhole, BenchFit
<1>2. bench \in [route : Server \cup {NoServer}, db : Db \cup {NoDb}, seen : Db \cup {NoDb},
                 known : BOOLEAN, activeDbServerId : Server \cup {NoServer},
                 dbIndexLoadState : Bench!LoadState, databaseIndex : [Server -> Bench!Names],
                 activeDatabase : [Server -> Db \cup {NoDb}],
                 maps : SUBSET Server, databases : [Server -> [Db -> Bench!Held]], out : {{}}]
    BY <1>1 DEF Benches
<1>3. QED BY <1>2 DEF BenchInv, BenchWhole, Bench!BenchTypeOK


-----------------------------------------------------------------------------
(* The parts in the tab                                                    *)

\* What holds of the part that is played.
EditorPartInv ==
    /\ part \in Part
    /\ part = "workbench" => BenchInv /\ closedOnce \in SUBSET Server
    /\ part = "editors" => EditorsInv /\ IsTable(objects)
    /\ part = "runs" => RunsInv

LEMMA EditorPartStarts == TabInit => EditorPartInv
<1> SUFFICES ASSUME TabInit PROVE EditorPartInv
    OBVIOUS
<1>1. part \in Part /\ Tabs!EditorInit
    <2>1. part \in Part
        BY Zenon DEF TabInit
    <2>2. Tabs!EditorInit
        BY Zenon DEF TabInit
    <2>3. QED BY <2>1, <2>2
<1>2. IsTable(objects)
    BY <1>1 DEF Tabs!EditorInit, IsTable
<1>3. closedOnce \in SUBSET Server
    <2>1. Bench!BenchInit
        BY Zenon DEF TabInit
    <2>2. QED BY <2>1 DEF Bench!BenchInit
<1>4. QED BY <1>1, <1>2, <1>3, BenchStarts, EditorsStart, RunsInit DEF EditorPartInv

LEMMA EditorPartStep == EditorPartInv /\ [TabNext]_tabVars => EditorPartInv'
<1> SUFFICES ASSUME EditorPartInv, [TabNext]_tabVars PROVE EditorPartInv'
    OBVIOUS
<1>1. part' = part
    BY PartStays
<1>2. ASSUME part = "workbench" PROVE BenchInv' /\ closedOnce' \in SUBSET Server
    <2>1. BenchInv /\ closedOnce \in SUBSET Server
        BY <1>2 DEF EditorPartInv
    <2>2. CASE UNCHANGED benchVars
        <3>1. closedOnce' = closedOnce
            BY <2>2 DEF benchVars
        <3>2. QED BY <2>1, <2>2, <3>1, BenchRests
    <2>3. CASE Bench!BenchNext
        BY <2>1, <2>3, BenchStep, ClosedServers
    <2>4. QED BY <1>2, <2>2, <2>3, BenchInTab
<1>3. ASSUME part = "editors" PROVE EditorsInv' /\ IsTable(objects')
    <2>1. EditorsInv /\ IsTable(objects)
        BY <1>3 DEF EditorPartInv
    <2>2. CASE UNCHANGED editorVars
        <3>1. objects' = objects
            BY <2>2 DEF editorVars
        <3>2. QED BY <2>1, <2>2, <3>1, EditorsRest
    <2>3. CASE Tabs!EditorNext
        BY <2>1, <2>3, EditorsStep, ObjectsStayTable
    <2>4. QED BY <1>3, <2>2, <2>3, EditorsInTab
<1>4. ASSUME part = "runs" PROVE RunsInv'
    <2>1. RunsInv
        BY <1>4 DEF EditorPartInv
    <2>2. CASE UNCHANGED runVars
        BY <2>1, <2>2 DEF runVars, RunsInv, Runs!RunTypeOK, Runs!RunIsShown
    <2>3. QED BY <1>4, <2>1, <2>2, RunsInTab, RunsStep
<1>5. IsTable(objects)' <=> IsTable(objects')
    BY DEF IsTable
<1>6. QED BY <1>1, <1>2, <1>3, <1>4, <1>5 DEF EditorPartInv

LEMMA EditorPartInvariant == TabSpec => []EditorPartInv
BY EditorPartStarts, EditorPartStep, PTL DEF TabSpec

(* In no part does the tab ever come into a state that the types of the    *)
(* part do not allow, whatever order answers come in and however many      *)
(* there are: no counter, list or table leaves its bounds, and the numbers *)
(* of the objects of a group do not run out.                               *)
THEOREM TabTypesAlways == TabSpec => []TabTypeOK
<1>1. part \in {"workbench", "editors", "runs"} /\ EditorPartInv => TabTypeOK
    <2>1. ASSUME part = "workbench", BenchInv, closedOnce \in SUBSET Server PROVE TabTypeOK
        BY <2>1, BenchTypes, Zenon DEF TabTypeOK
    <2>2. ASSUME part = "editors", EditorsInv, IsTable(objects) PROVE TabTypeOK
        BY <2>2, EditorsTypes, Zenon DEF TabTypeOK
    <2>3. ASSUME part = "runs", RunsInv PROVE TabTypeOK
        BY <2>3, Zenon DEF TabTypeOK, RunsInv
    <2>4. QED BY <2>1, <2>2, <2>3 DEF EditorPartInv
<1>2. EditorPartInv /\ (part \in Part \ {"workbench", "editors", "runs"} => TabTypeOK) => TabTypeOK
    <2>1. EditorPartInv => part \in Part
        BY DEF EditorPartInv
    <2>2. QED BY <1>1, <2>1
<1>3. QED BY <1>2, EditorPartInvariant, PartTypesAlways, PTL

(* The workbench shows the server of its path, whatever order the answers  *)
(* come in, unless an answer for another server came in between or a list  *)
(* of databases failed; and the active database of the server it shows is  *)
(* held, while that server stays open and its list does not drop it.       *)
THEOREM WorkbenchAgreesAlways == TabSpec => []WorkbenchAgrees
<1>1. EditorPartInv => WorkbenchAgrees
    BY BenchKept DEF EditorPartInv, WorkbenchAgrees
<1>2. QED BY <1>1, EditorPartInvariant, PTL

(* The one tab that is marked as active is the editor that is shown,       *)
(* through any sequence of opening, closing, loading and reloading         *)
(* databases, until an editor acts on an object that was replaced; and an  *)
(* editor shows the outcome of its last run, unless runs overlapped.       *)
THEOREM EditorsAgreeAlways == TabSpec => []EditorsAgree
<1>1. EditorPartInv => EditorsAgree
    <2>1. RunsInv => Runs!RunIsShown
        BY DEF RunsInv
    <2>2. QED BY <2>1, EditorsKept DEF EditorPartInv, EditorsAgree
<1>2. QED BY <1>1, EditorPartInvariant, PTL
=============================================================================
