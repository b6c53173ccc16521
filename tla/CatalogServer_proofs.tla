------------------------- MODULE CatalogServer_proofs -------------------------
(***************************************************************************)
(* Proofs about CatalogServer, for every number of connections, writes and *)
(* restarts: the type invariant, that a generation names one catalog, and  *)
(* that a confirmed catalog is never followed by an older one.             *)
(***************************************************************************)
EXTENDS CatalogServer, TLAPS

LEMMA CatalogTypes ==
    /\ NoCatalog \in ActiveCatalog
    /\ NoReload \in ReloadState
    /\ NoConn \in ConnState
BY ServerAssumption
DEF NoCatalog, NoReload, NoConn, ActiveCatalog, ReloadState, ConnState, Write

LEMMA ConnTypes ==
    ASSUME NEW conn \in ConnState, NEW pc \in {"closed", "read", "lookup", "drain"},
           NEW catalog \in ActiveCatalog
    PROVE  /\ conn.catalog \in ActiveCatalog
           /\ [conn EXCEPT !.pc = pc] \in ConnState
           /\ [pc |-> pc, catalog |-> catalog] \in ConnState
BY DEF ConnState

LEMMA InitType == Init => TypeOK
BY CatalogTypes, ServerAssumption DEF Init, TypeOK, Write

LEMMA NextType == TypeOK /\ [Next]_vars => TypeOK'
<1> SUFFICES ASSUME TypeOK, [Next]_vars PROVE TypeOK'
  OBVIOUS
<1>1. CASE AgentWrites
  BY <1>1, ServerAssumption DEF AgentWrites, TypeOK, Write
<1>2. CASE Start
  BY <1>2 DEF Start, LoadInitial, StartWatcher, TypeOK, watcherVars, ActiveCatalog
<1>3. CASE ForwardEvent
  BY <1>3, ServerAssumption DEF ForwardEvent, TypeOK
<1>4. CASE ReloadBuild
  <2>1. requests' \in 0 .. Capacity
    BY <1>4, ServerAssumption DEF ReloadBuild, TypeOK
  <2>2. [pc |-> "swap", next |-> generation + 1, write |-> file] \in ReloadState
    BY DEF TypeOK, ReloadState
  <2> QED
    BY <1>4, <2>1, <2>2 DEF ReloadBuild, TypeOK
<1>5. CASE ReloadSwap
  <2>1. [reload EXCEPT !.pc = "store"] \in ReloadState
    BY DEF TypeOK, ReloadState
  <2>2. [generation |-> reload.next, write |-> reload.write] \in ActiveCatalog
    BY DEF TypeOK, ReloadState, ActiveCatalog
  <2> QED
    BY <1>5, <2>1, <2>2 DEF ReloadSwap, TypeOK
<1>6. CASE ReloadStore
  <2>1. reload.next \in Nat
    BY DEF TypeOK, ReloadState
  <2> QED
    BY <1>6, <2>1, CatalogTypes DEF ReloadStore, TypeOK
<1>7. CASE Crash
  BY <1>7, CatalogTypes, ServerAssumption DEF Crash, TypeOK
<1>8. CASE ServeVersion
  BY <1>8 DEF ServeVersion, VersionSnapshot, TypeOK, watcherVars, ActiveCatalog
<1>9. ASSUME NEW c \in Conn, NEW conn \in ConnState,
             conns' = [conns EXCEPT ![c] = conn],
             UNCHANGED <<file, main, registry, watcherVars, confirmed, crashes>>
      PROVE  TypeOK'
  BY <1>9 DEF TypeOK, watcherVars
<1>10. ASSUME NEW c \in Conn,
              Accept(c) \/ Get(c) \/ GetReturns(c) \/ RejectWrite(c) \/ DrainReturns(c)
                \/ IdleTimeout(c) \/ ClientCloses(c)
       PROVE  TypeOK'
  <2>1. conns[c] \in ConnState /\ registry \in ActiveCatalog
    BY DEF TypeOK
  <2>2. CASE Accept(c)
    BY <1>9, <2>1, <2>2, ConnTypes, Zenon DEF Accept, ForConnection
  <2>3. CASE Get(c)
    <3> DEFINE new == [pc |-> "lookup",
                       catalog |-> IF registry.generation # conns[c].catalog.generation
                                   THEN registry ELSE conns[c].catalog]
    <3>1. new \in ConnState
      BY <2>1, ConnTypes, Zenon
    <3>2. /\ conns' = [conns EXCEPT ![c] = new]
          /\ UNCHANGED <<file, main, registry, watcherVars, confirmed, crashes>>
      BY <2>3 DEF Get, TypeOK
    <3> HIDE DEF new
    <3> QED
      BY <1>9, <3>1, <3>2, Zenon
  <2>4. CASE GetReturns(c) \/ DrainReturns(c)
    <3>1. /\ conns' = [conns EXCEPT ![c] = [conns[c] EXCEPT !.pc = "read"]]
          /\ UNCHANGED <<file, main, registry, watcherVars, confirmed, crashes>>
      BY <2>4 DEF GetReturns, DrainReturns, TypeOK
    <3> QED
      BY <1>9, <2>1, <3>1, ConnTypes, Zenon
  <2>5. CASE RejectWrite(c)
    <3>1. /\ conns' = [conns EXCEPT ![c] = [conns[c] EXCEPT !.pc = "drain"]]
          /\ UNCHANGED <<file, main, registry, watcherVars, confirmed, crashes>>
      BY <2>5 DEF RejectWrite, TypeOK
    <3> QED
      BY <1>9, <2>1, <3>1, ConnTypes, Zenon
  <2>6. CASE IdleTimeout(c) \/ ClientCloses(c)
    BY <1>9, <2>6, CatalogTypes DEF IdleTimeout, ClientCloses, Drop
  <2> QED
    BY <1>10, <2>2, <2>3, <2>4, <2>5, <2>6
<1>11. CASE UNCHANGED vars
  BY <1>11 DEF vars, watcherVars, TypeOK
<1> QED
  BY <1>1, <1>2, <1>3, <1>4, <1>5, <1>6, <1>7, <1>8, <1>10, <1>11 DEF Next, Watcher

\* The variables of CatalogServer keep their types.
THEOREM ServerTypeCorrect == Spec => []TypeOK
BY InitType, NextType, PTL DEF Spec

-----------------------------------------------------------------------------

LEMMA InitCatalog == Init => CatalogInv
<1> SUFFICES ASSUME Init PROVE CatalogInv
  OBVIOUS
<1>1. \A c \in Conn : conns[c].pc = "closed"
  BY Zenon DEF Init, NoConn
<1>2. registry.generation = 0 /\ reload.pc = "idle"
  BY DEF Init, NoCatalog, NoReload
<1> QED
  BY <1>1, <1>2 DEF Init, CatalogInv

LEMMA NextCatalog == TypeOK /\ CatalogInv /\ [Next]_vars => CatalogInv'
<1> SUFFICES ASSUME TypeOK, CatalogInv, [Next]_vars PROVE CatalogInv'
  OBVIOUS
<1> USE ServerAssumption
<1>1. CASE AgentWrites
  BY <1>1 DEF AgentWrites, TypeOK, CatalogInv, Write, ActiveCatalog, ReloadState
<1>2. CASE LoadInitial
  BY <1>2 DEF LoadInitial, TypeOK, CatalogInv, Write, watcherVars, NoCatalog
<1>3. CASE StartWatcher
  BY <1>3 DEF StartWatcher, TypeOK, CatalogInv, watcherVars
<1>4. CASE ForwardEvent
  BY <1>4 DEF ForwardEvent, TypeOK, CatalogInv
<1>5. CASE ReloadBuild
  <2>1. CASE ~Opens(file)
    BY <1>5, <2>1 DEF ReloadBuild, TypeOK, CatalogInv
  <2>2. CASE Opens(file)
    BY <1>5, <2>2 DEF ReloadBuild, TypeOK, CatalogInv, Write
  <2> QED
    BY <2>1, <2>2
<1>6. CASE ReloadSwap
  <2>1. reload.next = generation + 1 /\ reload.write \in Write /\ generation \in Nat
    BY <1>6 DEF ReloadSwap, TypeOK, CatalogInv, ReloadState
  <2>2. /\ registry'.generation = generation + 1 /\ registry'.write = reload.write
        /\ reload'.pc = "store" /\ reload'.next = reload.next /\ reload'.write = reload.write
    BY <1>6, <2>1 DEF ReloadSwap, TypeOK, ReloadState
  <2>3. \A c \in Conn : conns[c].pc # "closed" =>
            conns[c].catalog.generation \in Nat /\ conns[c].catalog.generation <= generation
    BY <1>6 DEF ReloadSwap, TypeOK, CatalogInv, ConnState, ActiveCatalog
  <2>4. confirmed <= reload.write
    BY <1>6 DEF ReloadSwap, TypeOK, CatalogInv, Write, ActiveCatalog, ReloadState
  <2> QED
    BY <1>6, <2>1, <2>2, <2>3, <2>4 DEF ReloadSwap, CatalogInv
<1>7. CASE ReloadStore
  BY <1>7 DEF ReloadStore, TypeOK, CatalogInv, NoReload
<1>8. CASE Crash
  <2>1. \A c \in Conn : conns'[c].pc = "closed"
    BY <1>8 DEF Crash, NoConn
  <2>2. registry'.generation = 0 /\ reload'.pc = "idle"
    BY <1>8 DEF Crash, NoCatalog, NoReload
  <2> QED
    BY <1>8, <2>1, <2>2 DEF Crash, CatalogInv
<1>9. CASE ServeVersion
  BY <1>9 DEF ServeVersion, VersionSnapshot, TypeOK, CatalogInv, watcherVars, Write, ActiveCatalog
<1>10. ASSUME NEW c \in Conn, NEW conn,
              conns' = [conns EXCEPT ![c] = conn],
              UNCHANGED <<file, main, registry, watcherVars, confirmed, crashes>>,
              conn.pc # "closed" =>
                 /\ main # "down"
                 /\ conn.catalog.generation <= registry.generation
                 /\ conn.catalog.generation = registry.generation => conn.catalog = registry
       PROVE  CatalogInv'
  BY <1>10 DEF TypeOK, CatalogInv, watcherVars
<1>11. ASSUME NEW c \in Conn, Accept(c) PROVE CatalogInv'
  <2> DEFINE new == [pc |-> "read", catalog |-> registry]
  <2>1. /\ conns' = [conns EXCEPT ![c] = new]
        /\ UNCHANGED <<file, main, registry, watcherVars, confirmed, crashes>>
        /\ main # "down"
    BY <1>11 DEF Accept, Listening, ForConnection
  <2>2. /\ new.catalog.generation <= registry.generation
        /\ new.catalog.generation = registry.generation => new.catalog = registry
    BY DEF TypeOK, ActiveCatalog
  <2> HIDE DEF new
  <2> QED
    BY <1>10, <2>1, <2>2, Zenon
<1>12. ASSUME NEW c \in Conn, Get(c) PROVE CatalogInv'
  <2> DEFINE new == [pc |-> "lookup",
                     catalog |-> IF registry.generation # conns[c].catalog.generation
                                 THEN registry ELSE conns[c].catalog]
  <2>1. conns' = [conns EXCEPT ![c] = new]
    BY <1>12 DEF Get, TypeOK
  <2>2. /\ main # "down"
        /\ new.catalog.generation <= registry.generation
        /\ new.catalog.generation = registry.generation => new.catalog = registry
    BY <1>12 DEF Get, TypeOK, CatalogInv, ActiveCatalog
  <2>3. UNCHANGED <<file, main, registry, watcherVars, confirmed, crashes>>
    BY <1>12 DEF Get
  <2> HIDE DEF new
  <2> QED
    BY <1>10, <2>1, <2>2, <2>3, Zenon
<1>13. ASSUME NEW c \in Conn, NEW pc \in {"read", "drain"}, conns[c].pc # "closed",
              conns' = [conns EXCEPT ![c].pc = pc],
              UNCHANGED <<file, main, registry, watcherVars, confirmed, crashes>>
       PROVE  CatalogInv'
  <2> DEFINE new == [conns[c] EXCEPT !.pc = pc]
  <2>1. conns' = [conns EXCEPT ![c] = new]
    BY <1>13 DEF TypeOK
  <2>2. new.catalog = conns[c].catalog
    BY DEF TypeOK, ConnState
  <2>3. /\ main # "down"
        /\ new.catalog.generation <= registry.generation
        /\ new.catalog.generation = registry.generation => new.catalog = registry
    BY <1>13, <2>2 DEF CatalogInv
  <2> HIDE DEF new
  <2> QED
    BY <1>10, <1>13, <2>1, <2>3, Zenon
<1>14. ASSUME NEW c \in Conn, GetReturns(c) \/ RejectWrite(c) \/ DrainReturns(c)
       PROVE  CatalogInv'
  BY <1>13, <1>14 DEF GetReturns, RejectWrite, DrainReturns
<1>15. ASSUME NEW c \in Conn, IdleTimeout(c) \/ ClientCloses(c) PROVE CatalogInv'
  BY <1>10, <1>15, Zenon DEF IdleTimeout, ClientCloses, Drop, NoConn
<1>16. CASE UNCHANGED vars
  BY <1>16 DEF vars, watcherVars, CatalogInv
<1> QED
  BY <1>1, <1>2, <1>3, <1>4, <1>5, <1>6, <1>7, <1>8, <1>9, <1>11, <1>12, <1>14, <1>15, <1>16
  DEF Next, Watcher, Start

LEMMA CatalogInvariant == Spec => [](TypeOK /\ CatalogInv)
BY InitType, NextType, InitCatalog, NextCatalog, PTL DEF Spec

\* PerConnectionCatalogLookup::get may compare generations instead of catalogs, for
\* any number of connections, reloads and restarts.
THEOREM GenerationsNameCatalogs == Spec => []GenerationNamesCatalog
<1>1. CatalogInv => GenerationNamesCatalog
  BY DEF CatalogInv, GenerationNamesCatalog
<1> QED
  BY <1>1, CatalogInvariant, PTL

\* After GET /version has answered with a catalog, every lookup that starts reads
\* from that catalog or a newer one.
THEOREM ConfirmationIsFinal == Spec => ConfirmedSticks
<1> DEFINE Fresh == \A c \in Conn : conns[c].pc = "read" /\ conns'[c].pc = "lookup"
                       => conns'[c].catalog.write >= confirmed
<1>1. TypeOK /\ CatalogInv /\ [Next]_vars => [Fresh]_vars
  <2> SUFFICES ASSUME TypeOK, CatalogInv, Next, NEW c \in Conn,
                      conns[c].pc = "read", conns'[c].pc = "lookup"
               PROVE  conns'[c].catalog.write >= confirmed
    OBVIOUS
  <2>1. registry.write >= confirmed
    BY DEF CatalogInv, TypeOK, Write, ActiveCatalog
  <2>2. PICK d \in Conn : Get(d)
    <3>1. conns'[c] # conns[c]
      OBVIOUS
    <3>2. PICK d \in Conn :
             \/ Accept(d) \/ Get(d) \/ GetReturns(d) \/ RejectWrite(d)
             \/ DrainReturns(d) \/ IdleTimeout(d) \/ ClientCloses(d)
      BY <3>1 DEF Next, AgentWrites, Start, LoadInitial, StartWatcher, Watcher, ForwardEvent,
                  ReloadBuild, ReloadSwap, ReloadStore, Crash, ServeVersion, NoConn
    <3>3. CASE Accept(d)
      BY <3>3 DEF Accept, ForConnection, TypeOK
    <3>4. CASE GetReturns(d) \/ RejectWrite(d) \/ DrainReturns(d)
      BY <3>4 DEF GetReturns, RejectWrite, DrainReturns, TypeOK, ConnState
    <3>5. CASE IdleTimeout(d) \/ ClientCloses(d)
      BY <3>5 DEF IdleTimeout, ClientCloses, Drop, TypeOK, NoConn
    <3> QED
      BY <3>2, <3>3, <3>4, <3>5
  <2>3. c = d
    BY <2>2 DEF Get, TypeOK
  <2>4. conns'[c].catalog = IF registry.generation # conns[c].catalog.generation
                            THEN registry ELSE conns[c].catalog
    BY <2>2, <2>3 DEF Get, TypeOK
  <2>5. conns'[c].catalog = registry
    BY <2>4 DEF CatalogInv
  <2> QED
    BY <2>1, <2>5
<1> QED
  BY <1>1, CatalogInvariant, PTL DEF Spec, ConfirmedSticks

=============================================================================
