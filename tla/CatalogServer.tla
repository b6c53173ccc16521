----------------------------- MODULE CatalogServer -----------------------------
(***************************************************************************)
(* The KV server in catalog mode (modes/catalog_mode.rs): the initial      *)
(* load, the watcher of catalog.json, the reload loop with its hot swap    *)
(* (registry.rs), and the connections (listener.rs) with the catalog each  *)
(* of them caches (lookup.rs).                                             *)
(*                                                                         *)
(* The contents of catalog.json are told apart by the write they come      *)
(* from: catalog k is the one of the k-th rename onto the file, 0 stands   *)
(* for no file.                                                            *)
(***************************************************************************)
EXTENDS Naturals

CONSTANTS
    Conn,         \* client connections
    MaxWrites,    \* bound on the writes of catalog.json
    Unopenable,   \* the writes with an entry that does not open or a prefix twice
    Capacity,     \* of the channel between the watcher and the reload loop
    MaxCrashes    \* bound on the restarts of the server

ASSUME ServerAssumption ==
    /\ MaxWrites \in Nat /\ Capacity \in Nat \ {0} /\ MaxCrashes \in Nat
    /\ Unopenable \subseteq 1 .. MaxWrites

VARIABLES
    file,        \* the last write of catalog.json
    main,        \* where run() is
    registry,    \* the catalog in the ArcSwap: its generation and its write
    generation,  \* the generation counter of the watcher
    events,      \* file events the watcher thread has not forwarded
    requests,    \* reload requests in the channel
    reload,      \* the reload in progress
    conns,       \* the connections, each with the catalog it caches
    confirmed,   \* history: the newest write that GET /version has answered with
    crashes      \* how many restarts happened

watcherVars == <<generation, events, requests, reload>>
vars == <<file, main, registry, watcherVars, conns, confirmed, crashes>>

Write == 0 .. MaxWrites
ActiveCatalog == [generation : Nat, write : Write]
ReloadState == [pc : {"idle", "swap", "store"}, next : Nat, write : Write]
ConnState == [pc : {"closed", "read", "lookup", "drain"}, catalog : ActiveCatalog]

NoCatalog == [generation |-> 0, write |-> 0]
NoReload == [pc |-> "idle", next |-> 0, write |-> 0]
NoConn == [pc |-> "closed", catalog |-> NoCatalog]

TypeOK ==
    /\ file \in Write
    /\ main \in {"down", "loaded", "serving"}
    /\ registry \in ActiveCatalog
    /\ generation \in Nat
    /\ events \in Nat
    /\ requests \in 0 .. Capacity
    /\ reload \in ReloadState
    /\ conns \in [Conn -> ConnState]
    /\ confirmed \in Write
    /\ crashes \in 0 .. MaxCrashes

Init ==
    /\ file = 0
    /\ main = "down"
    /\ registry = NoCatalog
    /\ generation = 0
    /\ events = 0
    /\ requests = 0
    /\ reload = NoReload
    /\ conns = [c \in Conn |-> NoConn]
    /\ confirmed = 0
    /\ crashes = 0

\* The node agent renames a new catalog onto the file.
AgentWrites ==
    /\ file < MaxWrites
    /\ file' = file + 1
    /\ events' = IF main = "serving" THEN events + 1 ELSE events
    /\ UNCHANGED <<main, registry, generation, requests, reload, conns, confirmed, crashes>>

-----------------------------------------------------------------------------
(* run(): the initial load, then the watcher, then the listeners.            *)

\* Every entry of the catalog opens, and no prefix is there twice.
Opens(k) == k \notin Unopenable

\* A file that is not there is an empty catalog; one that does not load ends the
\* process, which is then started again.
LoadInitial ==
    /\ main = "down"
    /\ Opens(file)
    /\ registry' = [generation |-> 0, write |-> file]
    /\ main' = "loaded"
    /\ UNCHANGED <<file, watcherVars, conns, confirmed, crashes>>

\* The watch is in place; only later events reach the server.
StartWatcher ==
    /\ main = "loaded"
    /\ main' = "serving"
    /\ UNCHANGED <<file, registry, watcherVars, conns, confirmed, crashes>>

Crash ==
    /\ main # "down"
    /\ crashes < MaxCrashes
    /\ crashes' = crashes + 1
    /\ main' = "down"
    /\ registry' = NoCatalog
    /\ generation' = 0
    /\ events' = 0
    /\ requests' = 0
    /\ reload' = NoReload
    /\ conns' = [c \in Conn |-> NoConn]
    /\ UNCHANGED <<file, confirmed>>

-----------------------------------------------------------------------------
(* watch_catalog.                                                            *)

\* blocking_send: the watcher thread waits while the channel is full.
ForwardEvent ==
    /\ events > 0
    /\ requests < Capacity
    /\ events' = events - 1
    /\ requests' = requests + 1
    /\ UNCHANGED <<file, main, registry, generation, reload, conns, confirmed, crashes>>

\* Mutant of ReloadBuild: a catalog that does not open ends the loop.
ReloadBuildStops ==
    /\ reload.pc = "idle"
    /\ requests > 0
    /\ requests' = requests - 1
    /\ reload' = IF file \in Unopenable THEN [reload EXCEPT !.pc = "stopped"]
                 ELSE [pc |-> "swap", next |-> generation + 1, write |-> file]
    /\ UNCHANGED <<file, main, registry, generation, events, conns, confirmed, crashes>>

\* The file is read and every entry opened; when one does not open, the current
\* catalog stays.
ReloadBuild ==
    /\ reload.pc = "idle"
    /\ requests > 0
    /\ requests' = requests - 1
    /\ reload' = IF ~Opens(file) THEN reload
                 ELSE [pc |-> "swap", next |-> generation + 1, write |-> file]
    /\ UNCHANGED <<file, main, registry, generation, events, conns, confirmed, crashes>>

ReloadSwap ==
    /\ reload.pc = "swap"
    /\ registry' = [generation |-> reload.next, write |-> reload.write]
    /\ reload' = [reload EXCEPT !.pc = "store"]
    /\ UNCHANGED <<file, main, generation, events, requests, conns, confirmed, crashes>>

\* Mutant of ReloadStore: the counter is not advanced.
ReloadStoreNothing ==
    /\ reload.pc = "store"
    /\ reload' = NoReload
    /\ UNCHANGED <<file, main, registry, generation, events, requests, conns, confirmed, crashes>>

ReloadStore ==
    /\ reload.pc = "store"
    /\ generation' = reload.next
    /\ reload' = NoReload
    /\ UNCHANGED <<file, main, registry, events, requests, conns, confirmed, crashes>>

-----------------------------------------------------------------------------
(* GET /version, and the connections.                                        *)

\* What ActiveCatalog::version_snapshot tells the node agent, who knows which
\* versions each of its writes named.
VersionSnapshot == registry.write

\* GET /version: the HTTP server is up before the watcher.
ServeVersion ==
    /\ main # "down"
    /\ confirmed' = VersionSnapshot
    /\ UNCHANGED <<file, main, registry, watcherVars, conns, crashes>>

\* The listeners are bound once the watch is in place.
Listening == main = "serving"

\* A new connection starts with the current catalog.
ForConnection == [pc |-> "read", catalog |-> registry]

Accept(c) ==
    /\ Listening
    /\ conns[c].pc = "closed"
    /\ conns' = [conns EXCEPT ![c] = ForConnection]
    /\ UNCHANGED <<file, main, registry, watcherVars, confirmed, crashes>>

\* Mutant of Get: the cached catalog is kept for the life of the connection.
GetCached(c) ==
    /\ conns[c].pc = "read"
    /\ conns' = [conns EXCEPT ![c].pc = "lookup"]
    /\ UNCHANGED <<file, main, registry, watcherVars, confirmed, crashes>>

\* A lookup refreshes the cached catalog when its generation is not the registry's,
\* and then reads from it.
Get(c) ==
    /\ conns[c].pc = "read"
    /\ conns' = [conns EXCEPT ![c] =
          [pc |-> "lookup",
           catalog |-> IF registry.generation # @.catalog.generation
                       THEN registry ELSE @.catalog]]
    /\ UNCHANGED <<file, main, registry, watcherVars, confirmed, crashes>>

GetReturns(c) ==
    /\ conns[c].pc = "lookup"
    /\ conns' = [conns EXCEPT ![c].pc = "read"]
    /\ UNCHANGED <<file, main, registry, watcherVars, confirmed, crashes>>

\* A write command is refused and its data block drained, without a timeout.
RejectWrite(c) ==
    /\ conns[c].pc = "read"
    /\ conns' = [conns EXCEPT ![c].pc = "drain"]
    /\ UNCHANGED <<file, main, registry, watcherVars, confirmed, crashes>>

DrainReturns(c) ==
    /\ conns[c].pc = "drain"
    /\ conns' = [conns EXCEPT ![c].pc = "read"]
    /\ UNCHANGED <<file, main, registry, watcherVars, confirmed, crashes>>

\* The connection ends and its catalog is dropped: idle for too long, ...
Drop(c) ==
    /\ conns' = [conns EXCEPT ![c] = NoConn]
    /\ UNCHANGED <<file, main, registry, watcherVars, confirmed, crashes>>

IdleTimeout(c) == conns[c].pc = "read" /\ Drop(c)

\* ... or by quit, end of file or an error, between two lookups.
ClientCloses(c) == conns[c].pc \in {"read", "drain"} /\ Drop(c)

-----------------------------------------------------------------------------
Watcher == ForwardEvent \/ ReloadBuild \/ ReloadSwap \/ ReloadStore

Start == LoadInitial \/ StartWatcher

Next ==
    \/ AgentWrites
    \/ Start
    \/ Watcher
    \/ Crash
    \/ ServeVersion
    \/ \E c \in Conn :
          \/ Accept(c)
          \/ Get(c)
          \/ GetReturns(c)
          \/ RejectWrite(c)
          \/ DrainReturns(c)
          \/ IdleTimeout(c)
          \/ ClientCloses(c)

Spec == Init /\ [][Next]_vars

\* The server's threads and tasks run, timers fire; clients owe nothing.
Fairness ==
    /\ WF_vars(Start)
    /\ WF_vars(ForwardEvent)
    /\ WF_vars(ReloadBuild \/ ReloadSwap \/ ReloadStore)
    /\ \A c \in Conn : WF_vars(GetReturns(c)) /\ WF_vars(IdleTimeout(c))

FairSpec == Spec /\ Fairness

-----------------------------------------------------------------------------
(* Properties.                                                               *)

\* A generation names one catalog: a connection that compares only generations
\* (PerConnectionCatalogLookup::get) never takes a stale catalog for the current.
GenerationNamesCatalog ==
    \A c \in Conn :
        conns[c].pc # "closed" /\ conns[c].catalog.generation = registry.generation
            => conns[c].catalog = registry

\* Once GET /version has answered with a catalog, no lookup that starts later, on
\* any connection, reads from an older one: the node agent may clean up.
ConfirmedSticks ==
    [][\A c \in Conn : conns[c].pc = "read" /\ conns'[c].pc = "lookup"
           => conns'[c].catalog.write >= confirmed]_vars

\* Why: what GET /version answered is in the registry or on its way there again,
\* connections lag behind the registry, and the reload loop is ahead of it by one
\* generation at most.
CatalogInv ==
    /\ confirmed <= file
    /\ main = "down" => registry = NoCatalog /\ generation = 0 /\ reload.pc = "idle"
                        /\ \A c \in Conn : conns[c].pc = "closed"
    /\ main # "down" => confirmed <= registry.write /\ registry.write <= file
    /\ main # "serving" => requests = 0 /\ events = 0 /\ registry.generation = 0
    /\ reload.pc = "idle" => registry.generation = generation
    /\ reload.pc # "idle" =>
          /\ main = "serving"
          /\ reload.next = generation + 1
          /\ reload.write <= file
    /\ reload.pc = "swap" => registry.generation = generation /\ registry.write <= reload.write
    /\ reload.pc = "store" => registry.generation = reload.next
    /\ \A c \in Conn : conns[c].pc # "closed" =>
          /\ conns[c].catalog.generation <= registry.generation
          /\ conns[c].catalog.generation = registry.generation => conns[c].catalog = registry

\* A catalog written while the watcher is up is loaded, or a newer one is, unless
\* the server restarts or the catalog does not open.
WatchedWritesLoaded ==
    \A k \in (1 .. MaxWrites) \ Unopenable :
        main = "serving" /\ events > 0 /\ file = k
            ~> registry.write >= k \/ main = "down" \/ file # k

\* "The watcher will pick up the first write": every catalog that stays in place is
\* loaded in the end.
LastWriteLoaded ==
    \A k \in 1 .. MaxWrites :
        file = k /\ k \notin Unopenable ~> registry.write = k \/ file # k

\* The idle timeout bounds how long a silent client pins a replaced catalog: no
\* connection waits forever for the next bytes with one.
StaleReleased ==
    \A c \in Conn, pc \in {"read", "drain"} :
        ~<>[](conns[c].pc = pc /\ conns[c].catalog.generation # registry.generation)

=============================================================================
