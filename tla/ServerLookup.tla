----------------------------- MODULE ServerLookup -----------------------------
(***************************************************************************)
(* The KV server of CatalogServer with what its requests ask and what they  *)
(* are answered: `mcf serve` in either mode, the datasets of a catalog and  *)
(* the routing of a key to one of them (lookup.rs, registry.rs), the lookup *)
(* on the blocking pool, and the metrics (metrics.rs).                      *)
(*                                                                         *)
(* A key is the sequence of its parts between colons.  What the snapshot of *)
(* a version answers for a key is Answer: V4Snapshot and SparseIndex show   *)
(* that it is right.  Counters of accepted connections, sizes and times are *)
(* left out; mcf_catalog_swap_total is written nowhere in the code.         *)
(***************************************************************************)
EXTENDS CatalogServer, Integers, Sequences, FiniteSets, FiniteSetsExt

CONSTANTS
    Args,        \* the command lines of `mcf serve` considered
    Entries,     \* Entries[k]: the entries of the k-th catalog
    Unparsable,  \* the writes that CatalogFile::load does not parse
    Closed,      \* the versions whose snapshot does not open
    Answer,      \* Answer[v][k]: what the snapshot of version v answers for k
    Keys,        \* the keys of mg
    NotUtf8,     \* parts of keys that are not UTF-8
    Dir,         \* the version of the snapshot directory of snapshot mode
    Transport,   \* connection -> "uds" or "tcp"
    MaxLookups,  \* bound on the lookups of a behaviour
    MaxPanics    \* bound on the lookups that panic

Result == {"hit", "miss", "miss_io", "error"}

\* ServeArgs: the mode, the listeners, and whether --idle-timeout-secs is not 0.
ServeArgs ==
    [mode : {"snapshot", "catalog"}, listeners : SUBSET {"uds", "tcp"}, idle_timeout : BOOLEAN]

\* CatalogFile: the entries of a catalog; without a file there are none.
EntriesOf(k) == IF k = 0 THEN {} ELSE {Entries[k][i] : i \in DOMAIN Entries[k]}

\* build_catalog_sync: the file parses, no prefix is there twice, every snapshot opens.
CatalogOpens(k) ==
    /\ k \notin Unparsable
    /\ \A i, j \in DOMAIN Entries[k] : Entries[k][i].key_prefix = Entries[k][j].key_prefix => i = j
    /\ \A e \in EntriesOf(k) : e.version \notin Closed

Datasets == {e.dataset : e \in UNION {EntriesOf(k) : k \in 1 .. MaxWrites}}

UNKNOWN_DATASET == "_unknown"
SNAPSHOT_DATASET == "snapshot"
Label == Datasets \union {UNKNOWN_DATASET, SNAPSHOT_DATASET}

ASSUME LookupAssumption ==
    /\ Args \subseteq ServeArgs
    /\ Unopenable = {k \in 1 .. MaxWrites : ~CatalogOpens(k)}
    /\ \A v \in DOMAIN Answer : Answer[v] \in [Keys \union {Tail(k) : k \in Keys} -> Result]
    /\ Transport \in [Conn -> {"uds", "tcp"}]
    /\ MaxLookups \in Nat /\ MaxPanics \in Nat

VARIABLES
    args,               \* the command line
    look,               \* connection -> the lookup it is waiting for
    lookup_total,       \* label -> result -> count
    request_duration,   \* result -> the _count of mcf_request_duration_seconds
    connections_active, \* transport -> gauge
    catalog_generation, \* gauge
    active_datasets,    \* gauge
    lookups, panics     \* bounds

counters == <<lookup_total, request_duration>>
gauges == <<connections_active, catalog_generation, active_datasets>>
lookVars == <<args, look, counters, gauges, lookups, panics>>
allVars == <<vars, lookVars>>

\* asked and since (history): the key asked for, and what GET /version had confirmed when the lookup started.
NoLook == [step |-> "none", asked |-> <<>>, key |-> <<>>, dataset |-> "", version |-> "", result |-> "error",
           panicked |-> FALSE, since |-> 0]

\* Metrics::new
NoMetrics ==
    [lookup_total |-> [l \in Label |-> [r \in Result |-> 0]],
     request_duration |-> [r \in Result |-> 0],
     connections_active |-> [t \in {"uds", "tcp"} |-> 0]]

ServerInit ==
    /\ Init
    /\ args \in Args
    /\ look = [c \in Conn |-> NoLook]
    /\ lookup_total = NoMetrics.lookup_total /\ request_duration = NoMetrics.request_duration
    /\ connections_active = NoMetrics.connections_active
    /\ catalog_generation = 0 /\ active_datasets = 0
    /\ lookups = 0 /\ panics = 0

-----------------------------------------------------------------------------
(* `mcf serve`                                                              *)

Catalog == args.mode = "catalog"

\* run: at least one listener is asked for.
Serves == args.listeners # {}

Refuse == ~Serves /\ UNCHANGED allVars

LoadCatalog ==
    /\ Catalog /\ Serves /\ LoadInitial
    /\ catalog_generation' = 0 /\ active_datasets' = Cardinality(EntriesOf(file))
    /\ UNCHANGED <<args, look, counters, connections_active, lookups, panics>>

\* snapshot_mode::run; a directory that does not open ends the process.
OpenSnapshot ==
    /\ ~Catalog /\ Serves /\ main = "down" /\ Dir \notin Closed
    /\ main' = "serving"
    /\ catalog_generation' = 0 /\ active_datasets' = 1
    /\ UNCHANGED <<file, registry, watcherVars, conns, confirmed, crashes>>
    /\ UNCHANGED <<args, look, counters, connections_active, lookups, panics>>

\* The metrics of a process end with it.
Dies ==
    /\ Crash
    /\ look' = [c \in Conn |-> NoLook]
    /\ lookup_total' = NoMetrics.lookup_total /\ request_duration' = NoMetrics.request_duration
    /\ connections_active' = NoMetrics.connections_active
    /\ catalog_generation' = 0 /\ active_datasets' = 0
    /\ UNCHANGED <<args, lookups, panics>>

\* The reload loop stores the generation and sets the gauges.
StoreGauges ==
    /\ ReloadStore
    /\ catalog_generation' = reload.next
    /\ active_datasets' = Cardinality(EntriesOf(reload.write))
    /\ UNCHANGED <<args, look, counters, connections_active, lookups, panics>>

-----------------------------------------------------------------------------
(* Connections                                                              *)

\* ActiveConnectionGuard
Gauge(c, n) ==
    /\ connections_active' = [connections_active EXCEPT ![Transport[c]] = @ + n]
    /\ UNCHANGED <<args, look, counters, catalog_generation, active_datasets, lookups, panics>>

Connect(c) ==
    /\ Transport[c] \in args.listeners /\ Accept(c)
    /\ Gauge(c, 1)

\* Mutant of Leave: a connection that times out is not given back.
LeaveUncounted(c) ==
    \/ args.idle_timeout /\ IdleTimeout(c) /\ Gauge(c, 0)
    \/ ClientCloses(c) /\ Gauge(c, -1)

\* handle_connection returns, and drops the guard.
Leave(c) ==
    \/ args.idle_timeout /\ IdleTimeout(c) /\ Gauge(c, -1)
    \/ ClientCloses(c) /\ Gauge(c, -1)

-----------------------------------------------------------------------------
(* Lookups                                                                  *)

\* Mutant of split_prefix: the key is split at its last colon.
SplitLast(key) ==
    [prefix |-> SubSeq(key, 1, Len(key) - 1), key |-> SubSeq(key, Len(key), Len(key))]

\* The parts before and after the first colon.
split_prefix(key) == [prefix |-> SubSeq(key, 1, 1), key |-> SubSeq(key, 2, Len(key))]

Started(key) == [NoLook EXCEPT !.asked = key, !.key = key, !.since = confirmed]

\* PerConnectionCatalogLookup::get and ActiveCatalog::get, up to the blocking pool:
\* a key without a dataset or with one that is not UTF-8 is an error, an unknown
\* dataset a miss.
Resolve(write, key) ==
    LET split == split_prefix(key)
        entries == {e \in EntriesOf(write) : <<e.key_prefix>> = split.prefix}
    IN  IF Len(key) < 2 \/ Head(key) \in NotUtf8
        THEN [Started(key) EXCEPT !.step = "answer"]
        ELSE IF entries = {}
        THEN [Started(key) EXCEPT !.step = "answer", !.dataset = UNKNOWN_DATASET, !.result = "miss"]
        ELSE LET e == CHOOSE x \in entries : TRUE
             IN  [Started(key) EXCEPT !.step = "blocking", !.key = split.key,
                                      !.dataset = e.dataset, !.version = e.version]

\* SnapshotLookup::get asks for the whole key.
ResolveSnapshot(key) ==
    [Started(key) EXCEPT !.step = "blocking", !.dataset = SNAPSHOT_DATASET, !.version = Dir]

\* LookupCounters::record
Record(label, result) == lookup_total' = [lookup_total EXCEPT ![label][result] = @ + 1]

\* dispatch_mg calls the lookup of the connection.
StartLookup(c, key) ==
    /\ lookups < MaxLookups /\ lookups' = lookups + 1
    /\ Get(c)
    /\ look' = [look EXCEPT ![c] = IF Catalog THEN Resolve(conns'[c].catalog.write, key)
                                   ELSE ResolveSnapshot(key)]
    /\ IF look'[c].dataset = UNKNOWN_DATASET THEN Record(UNKNOWN_DATASET, "miss")
       ELSE UNCHANGED lookup_total
    /\ UNCHANGED <<args, request_duration, gauges, panics>>

\* DatasetHandle::get: the snapshot answers, and the outcome is recorded.
LookupReturns(c) ==
    LET l == look[c]
        result == Answer[l.version][l.key]
    IN  /\ l.step = "blocking"
        /\ look' = [look EXCEPT ![c].step = "answer", ![c].result = result]
        /\ Record(l.dataset, result)
        /\ UNCHANGED <<vars, args, request_duration, gauges, lookups, panics>>

\* BlockingTaskPanicked is returned before anything is recorded.
LookupPanics(c) ==
    /\ look[c].step = "blocking" /\ panics < MaxPanics
    /\ look' = [look EXCEPT ![c].step = "answer", ![c].panicked = TRUE]
    /\ panics' = panics + 1
    /\ UNCHANGED <<vars, args, counters, gauges, lookups>>

\* dispatch_mg writes the response and observes the request.
Respond(c) ==
    /\ look[c].step = "answer" /\ GetReturns(c)
    /\ request_duration' = [request_duration EXCEPT ![look[c].result] = @ + 1]
    /\ look' = [look EXCEPT ![c] = NoLook]
    /\ UNCHANGED <<args, lookup_total, gauges, lookups, panics>>

-----------------------------------------------------------------------------
Unlooked(A) == A /\ UNCHANGED lookVars

Startup == LoadCatalog \/ OpenSnapshot \/ (Catalog /\ Unlooked(StartWatcher))
Forward == Unlooked(ForwardEvent)
Reload == Unlooked(ReloadBuild) \/ Unlooked(ReloadSwap) \/ StoreGauges
Lookup(c) == LookupReturns(c) \/ Respond(c)

ServerNext ==
    \/ Catalog /\ Unlooked(AgentWrites)
    \/ Startup \/ Refuse \/ Forward \/ Reload \/ Dies
    \/ Catalog /\ Unlooked(ServeVersion)
    \/ \E c \in Conn :
          \/ Connect(c) \/ Leave(c)
          \/ \E key \in Keys : StartLookup(c, key)
          \/ Lookup(c) \/ LookupPanics(c)
          \/ Unlooked(RejectWrite(c)) \/ Unlooked(DrainReturns(c))

ServerSpec == ServerInit /\ [][ServerNext]_allVars

\* The server starts, its watcher and its reload loop run; no property needs a
\* lookup to end.
ServerFairSpec ==
    /\ ServerSpec
    /\ WF_allVars(Startup) /\ WF_allVars(Forward) /\ WF_allVars(Reload)

-----------------------------------------------------------------------------
LookupTypeOK ==
    /\ args \in ServeArgs /\ lookups \in 0 .. MaxLookups /\ panics \in 0 .. MaxPanics
    /\ \A c \in Conn :
          /\ look[c].step \in {"none", "blocking", "answer"} /\ look[c].result \in Result
          /\ look[c].step # "none" <=> conns[c].pc = "lookup"
    /\ lookup_total \in [Label -> [Result -> Nat]] /\ request_duration \in [Result -> Nat]
    /\ connections_active \in [{"uds", "tcp"} -> Nat]
    /\ catalog_generation \in Nat /\ active_datasets \in Nat

\* What the catalog of a write says of a key: the dataset of its first part answers
\* for the rest of it.
Says(write, key, result) ==
    LET mine == {e \in EntriesOf(write) : Len(key) > 1 /\ e.key_prefix = Head(key)}
    IN  IF Len(key) = 1 \/ Head(key) \in NotUtf8 THEN result = "error"
        ELSE IF mine = {} THEN result = "miss"
        ELSE \A e \in mine : result = Answer[e.version][Tail(key)]

\* A lookup is answered by one catalog, and by the dataset its key names, also when
\* catalogs are swapped, connections cache them and lookups wait for the blocking
\* pool; that catalog is not older than the one GET /version had confirmed when
\* the lookup began.  In snapshot mode the whole key is looked up.
AnswersRight ==
    \A c \in Conn :
        LET l == look[c]
        IN  (l.step = "answer" /\ ~l.panicked) =>
                IF Catalog
                THEN \E w \in l.since .. registry.write :
                        w \notin Unopenable /\ Says(w, l.asked, l.result)
                ELSE l.result = Answer[Dir][l.asked]

Counted(result) == MapThenSumSet(LAMBDA l : lookup_total[l][result], Label)

Due(result) == Cardinality({c \in Conn : look[c].step = "answer" /\ look[c].result = result})

\* At every scrape the counters per dataset add up to the requests of each outcome
\* and those about to be observed (errors may be of no dataset, or a panic), the
\* gauge of connections is the number open, and between two reloads the gauges of
\* the catalog are those of the one in the registry.
MetricsTrue ==
    /\ \A r \in Result \ {"error"} : Counted(r) = request_duration[r] + Due(r)
    /\ Counted("error") <= request_duration["error"] + Due("error")
    /\ \A t \in {"uds", "tcp"} :
          connections_active[t] =
              Cardinality({c \in Conn : Transport[c] = t /\ conns[c].pc # "closed"})
    /\ Catalog /\ main # "down" /\ reload.pc = "idle" =>
          /\ catalog_generation = registry.generation
          /\ active_datasets = Cardinality(EntriesOf(registry.write))
=============================================================================
