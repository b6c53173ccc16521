------------------------------- MODULE NodeAgent -------------------------------
(***************************************************************************)
(* The node agent's reconciliation (agent.go) with what it acts on: the    *)
(* VolumeAttachments (volume/k8s.go), the mounts (mount/mount_linux.go),   *)
(* catalog.json, and the KV server that loads it and confirms versions.    *)
(*                                                                         *)
(* The feed of assignments is the abstract one of AssignmentFeed, and the  *)
(* KV server is reduced to what the agent sees of it; CatalogServer models *)
(* it in detail.                                                           *)
(***************************************************************************)
EXTENDS Naturals, Sequences

CONSTANTS
    Node,           \* node names
    Dataset,        \* dataset names
    MaxVersion,     \* versions are 1 .. MaxVersion, 0 is the empty string
    Lists,          \* the assignment lists: sequences of [dataset, version]
    NoPV,           \* the volumes whose version has no PersistentVolume name
    Rollbacks,      \* whether an assignment can go back to an older version
    None,           \* no VolumeAttachment
    MaxGeneration,  \* bound on the generations of one node's feed
    FaultKinds,     \* the faults considered, see Fault
    MaxFaults       \* bound on the faults of one behaviour

Version == 1 .. MaxVersion
Volume == Dataset \X Version

ASSUME ConstantsAssumption ==
    /\ MaxVersion \in Nat /\ MaxGeneration \in Nat /\ MaxFaults \in Nat
    /\ None \notin Node
    /\ NoPV \subseteq Volume
    /\ Rollbacks \in BOOLEAN
    /\ \A l \in Lists : \A i \in 1 .. Len(l) : l[i].dataset \in Dataset /\ l[i].version \in Version

VARIABLES
    feed,       \* per node, the generation and the list the control plane publishes
    datasets,   \* per node, a.datasets
    run,        \* per node, where Run is
    attached,   \* the VolumeAttachments: per volume, its node
    mounted,    \* per node, the volumes mounted at their mount path
    catalog,    \* per node, catalog.json: the version of each dataset, 0: no entry
    server,     \* per node, the KV server
    pinned,     \* per node, the volumes of replaced catalogs some lookup still uses
    faults      \* how many faults happened

vars == <<feed, datasets, run, attached, mounted, catalog, server, pinned, faults>>

Assignment == [dataset : Dataset, version : Version]
Catalog == [Dataset -> 0 .. MaxVersion]
DatasetState == [version : 0 .. MaxVersion, pv : BOOLEAN, mountPath : BOOLEAN,
                 phase : {"none", "attaching", "mounting", "active", "error"}]
RunState == [pc : {"fetch", "next", "attach", "device", "mount", "remount", "catalog",
                   "confirm", "unmount", "detach", "shutdown", "release", "down"},
             generation : 0 .. MaxGeneration, resp : 0 .. MaxGeneration,
             todo : Seq(Assignment), prev : DatasetState,
             stopping : BOOLEAN, closing : SUBSET Dataset]
ServerState == [up : BOOLEAN, event : BOOLEAN, busy : BOOLEAN, loading : Catalog, served : Catalog]

Empty == [d \in Dataset |-> 0]
NoState == [version |-> 0, pv |-> FALSE, mountPath |-> FALSE, phase |-> "none"]
FreshRun == [pc |-> "fetch", generation |-> 0, resp |-> 0, todo |-> << >>, prev |-> NoState,
             stopping |-> FALSE, closing |-> {}]
FreshServer == [up |-> TRUE, event |-> FALSE, busy |-> FALSE, loading |-> Empty, served |-> Empty]

\* The volumes of a catalog.
VolumesOf(c) == {vol \in Volume : c[vol[1]] = vol[2]}

TypeOK ==
    /\ feed \in [Node -> [generation : 0 .. MaxGeneration, list : Lists \cup {<< >>}]]
    /\ datasets \in [Node -> [Dataset -> DatasetState]]
    /\ run \in [Node -> RunState]
    /\ attached \in [Volume -> Node \cup {None}]
    /\ mounted \in [Node -> SUBSET Volume]
    /\ catalog \in [Node -> Catalog]
    /\ server \in [Node -> ServerState]
    /\ pinned \in [Node -> SUBSET Volume]
    /\ faults \in 0 .. MaxFaults

Init ==
    /\ feed = [n \in Node |-> [generation |-> 0, list |-> << >>]]
    /\ datasets = [n \in Node |-> [d \in Dataset |-> NoState]]
    /\ run = [n \in Node |-> FreshRun]
    /\ attached = [vol \in Volume |-> None]
    /\ mounted = [n \in Node |-> {}]
    /\ catalog = [n \in Node |-> Empty]
    /\ server = [n \in Node |-> FreshServer]
    /\ pinned = [n \in Node |-> {}]
    /\ faults = 0

\* A fault of one kind: a step of reconcile fails ("step"), a step of the cleanup
\* or of Shutdown fails ("cleanup"), the agent dies ("agent"), the pod is terminated ("shutdown"),
\* the KV server dies ("server").
Fault(kind) ==
    /\ kind \in FaultKinds
    /\ faults < MaxFaults
    /\ faults' = faults + 1

\* The control plane publishes another list for the node.
Advances(old, new) ==
    \A i \in 1 .. Len(old), j \in 1 .. Len(new) :
        old[i].dataset = new[j].dataset => old[i].version <= new[j].version

PublishList(n) ==
    /\ feed[n].generation < MaxGeneration
    /\ \E list \in Lists \ {feed[n].list} :
          /\ Rollbacks \/ Advances(feed[n].list, list)
          /\ feed' = [feed EXCEPT ![n] = [generation |-> @.generation + 1, list |-> list]]
    /\ UNCHANGED <<datasets, run, attached, mounted, catalog, server, pinned, faults>>

-----------------------------------------------------------------------------
(* Run and reconcile.  The assignment being reconciled is the head of todo.  *)

Current(n) == Head(run[n].todo)
CurrentVolume(n) == <<Current(n).dataset, Current(n).version>>
PreviousVolume(n) == <<Current(n).dataset, run[n].prev.version>>

\* setPhase: the mount path is dropped.
SetPhase(n, phase, pv) ==
    datasets' = [datasets EXCEPT ![n][Current(n).dataset] =
                    [version |-> Current(n).version, pv |-> pv, mountPath |-> FALSE,
                     phase |-> phase]]

SetPhaseWithMount(n) ==
    datasets' = [datasets EXCEPT ![n][Current(n).dataset] =
                    [version |-> Current(n).version, pv |-> TRUE, mountPath |-> TRUE,
                     phase |-> "active"]]

\* Run goes on at another place, and to the next assignment of the list.
Goto(n, pc) == run' = [run EXCEPT ![n].pc = pc]
NextAssignment(n) == run' = [run EXCEPT ![n].pc = "next", ![n].todo = Tail(@)]

\* The long-poll returns only a generation newer than the one Run has.
FetchAssignments(n) ==
    /\ run[n].pc = "fetch" /\ ~run[n].stopping
    /\ feed[n].generation > run[n].generation
    /\ run' = [run EXCEPT ![n].pc = "next", ![n].resp = feed[n].generation,
                          ![n].todo = feed[n].list]
    /\ UNCHANGED <<feed, datasets, attached, mounted, catalog, server, pinned, faults>>

\* Mutant of ListDone: counts the generation on.
ListDoneNext(n) ==
    /\ run[n].pc = "next" /\ run[n].todo = << >>
    /\ run' = [run EXCEPT ![n].pc = "fetch", ![n].generation = run[n].resp + 1]
    /\ UNCHANGED <<feed, datasets, attached, mounted, catalog, server, pinned, faults>>

\* The loop over the list ends: the generation is taken over, whatever the outcome.
ListDone(n) ==
    /\ run[n].pc = "next" /\ run[n].todo = << >>
    /\ run' = [run EXCEPT ![n].pc = "fetch", ![n].generation = run[n].resp]
    /\ UNCHANGED <<feed, datasets, attached, mounted, catalog, server, pinned, faults>>

\* The part of reconcile before AttachDisk.
StartReconcile(n) ==
    /\ run[n].pc = "next" /\ run[n].todo # << >>
    /\ LET prev == datasets[n][Current(n).dataset]
       IN  \/ /\ prev.version = Current(n).version /\ prev.phase = "active"
              /\ NextAssignment(n)
              /\ UNCHANGED datasets
           \/ /\ ~(prev.version = Current(n).version /\ prev.phase = "active")
              /\ CurrentVolume(n) \in NoPV
              /\ SetPhase(n, "error", FALSE)
              /\ NextAssignment(n)
           \/ /\ ~(prev.version = Current(n).version /\ prev.phase = "active")
              /\ CurrentVolume(n) \notin NoPV
              /\ SetPhase(n, "attaching", TRUE)
              /\ run' = [run EXCEPT ![n].pc = "attach", ![n].prev = prev]
    /\ UNCHANGED <<feed, attached, mounted, catalog, server, pinned, faults>>

\* The VolumeAttachment is named after the PV only.  One that exists is taken for
\* the node's own, whatever node it names.
CreateAttachment(n) ==
    attached' = [attached EXCEPT ![CurrentVolume(n)] = IF @ = None THEN n ELSE @]

AttachDisk(n) ==
    /\ run[n].pc = "attach"
    /\ CreateAttachment(n)
    /\ Goto(n, "device")
    /\ UNCHANGED <<feed, datasets, mounted, catalog, server, pinned, faults>>

\* The CSI driver has attached the disk of the VolumeAttachment.
WaitForDevice(n) ==
    /\ run[n].pc = "device"
    /\ attached[CurrentVolume(n)] # None
    /\ SetPhase(n, "mounting", TRUE)
    /\ Goto(n, "mount")
    /\ UNCHANGED <<feed, attached, mounted, catalog, server, pinned, faults>>

\* Mount first unmounts what is at the target ...
MountClears(n) ==
    /\ run[n].pc = "mount"
    /\ mounted' = [mounted EXCEPT ![n] = @ \ {CurrentVolume(n)}]
    /\ Goto(n, "remount")
    /\ UNCHANGED <<feed, datasets, attached, catalog, server, pinned, faults>>

\* ... and then mounts the device, which is there only if the disk is attached here.
Mount(n) ==
    /\ run[n].pc = "remount"
    /\ attached[CurrentVolume(n)] = n
    /\ mounted' = [mounted EXCEPT ![n] = @ \cup {CurrentVolume(n)}]
    /\ Goto(n, "catalog")
    /\ UNCHANGED <<feed, datasets, attached, catalog, server, pinned, faults>>

\* Mutant of WriteCatalog: only the dataset being promoted is written.
WriteCatalogAlone(n) ==
    /\ run[n].pc = "catalog"
    /\ catalog' = [catalog EXCEPT ![n] =
          [d \in Dataset |-> IF d = Current(n).dataset THEN Current(n).version ELSE 0]]
    /\ server' = [server EXCEPT ![n].event = server[n].up]
    /\ Goto(n, "confirm")
    /\ UNCHANGED <<feed, datasets, attached, mounted, pinned, faults>>

\* The active datasets and the one being promoted, in one rename.
WriteCatalog(n) ==
    /\ run[n].pc = "catalog"
    /\ catalog' = [catalog EXCEPT ![n] =
          [d \in Dataset |->
              IF d = Current(n).dataset THEN Current(n).version
              ELSE IF datasets[n][d].phase = "active" THEN datasets[n][d].version ELSE 0]]
    /\ server' = [server EXCEPT ![n].event = server[n].up]
    /\ Goto(n, "confirm")
    /\ UNCHANGED <<feed, datasets, attached, mounted, pinned, faults>>

\* What reconcile does once it takes the version for confirmed.
Activate(n) ==
    /\ SetPhaseWithMount(n)
    /\ IF run[n].prev.version \notin {0, Current(n).version}
       THEN Goto(n, "unmount") ELSE NextAssignment(n)
    /\ UNCHANGED <<feed, attached, mounted, catalog, server, pinned, faults>>

\* Mutant of WaitForVersion: the old version is cleaned up without confirmation.
WaitForNothing(n) ==
    /\ run[n].pc = "confirm"
    /\ Activate(n)

\* GET /version lists the dataset at the version.
WaitForVersion(n) ==
    /\ run[n].pc = "confirm"
    /\ server[n].served[Current(n).dataset] = Current(n).version
    /\ Activate(n)

-----------------------------------------------------------------------------
(* cleanupOldVersion: errors are logged, the next step is taken all the same. *)

CleanupUnmount(n) ==
    /\ run[n].pc = "unmount"
    /\ mounted' = IF run[n].prev.mountPath
                  THEN [mounted EXCEPT ![n] = @ \ {PreviousVolume(n)}] ELSE mounted
    /\ Goto(n, "detach")
    /\ UNCHANGED <<feed, datasets, attached, catalog, server, pinned, faults>>

\* Mutant of CleanupDetach: the old disk stays attached.
CleanupDetachNothing(n) ==
    /\ run[n].pc = "detach"
    /\ NextAssignment(n)
    /\ UNCHANGED <<feed, datasets, attached, mounted, catalog, server, pinned, faults>>

CleanupDetach(n) ==
    /\ run[n].pc = "detach"
    /\ attached' = IF run[n].prev.pv
                   THEN [attached EXCEPT ![PreviousVolume(n)] = None] ELSE attached
    /\ NextAssignment(n)
    /\ UNCHANGED <<feed, datasets, mounted, catalog, server, pinned, faults>>

\* A cancelled context makes DetachDisk fail without any other fault.
CleanupFails(n) ==
    /\ \/ run[n].pc = "unmount" /\ Goto(n, "detach") /\ Fault("cleanup")
       \/ run[n].pc = "detach" /\ NextAssignment(n) /\ Fault("cleanup")
       \/ run[n].pc = "detach" /\ NextAssignment(n) /\ run[n].stopping /\ UNCHANGED faults
    /\ UNCHANGED <<feed, datasets, attached, mounted, catalog, server, pinned>>

-----------------------------------------------------------------------------
(* A step of reconcile fails: the dataset is in error and Run goes on.       *)

ReconcileError(n) ==
    /\ SetPhase(n, "error", TRUE)
    /\ NextAssignment(n)
    /\ UNCHANGED <<feed, mounted, catalog, server, pinned>>

\* It fails by itself: the creation of the VolumeAttachment may have had its effect.
StepFails(n) ==
    /\ run[n].pc \in {"attach", "device", "mount", "remount", "catalog", "confirm"}
    /\ \/ UNCHANGED attached
       \/ run[n].pc = "attach" /\ CreateAttachment(n)
    /\ Fault("step")
    /\ ReconcileError(n)

\* It cannot succeed: the attachment is gone, the disk is on another node, the KV
\* server is not going to serve the version, or the context is cancelled.
StepHopeless(n) ==
    /\ \/ run[n].pc = "device" /\ attached[CurrentVolume(n)] = None
       \/ run[n].pc = "remount" /\ attached[CurrentVolume(n)] # n
       \/ /\ run[n].pc = "confirm" /\ ~server[n].event /\ ~server[n].busy
          /\ server[n].served[Current(n).dataset] # Current(n).version
       \/ run[n].pc \in {"attach", "device", "confirm"} /\ run[n].stopping
    /\ ReconcileError(n)
    /\ UNCHANGED <<attached, faults>>

-----------------------------------------------------------------------------
(* The agent's process dies and starts again with nothing in memory, unless  *)
(* its pod is being terminated; mounts, attachments, catalog.json and the KV *)
(* server are not affected.                                                  *)

AgentCrashes(n) ==
    /\ run[n].pc # "down"
    /\ Fault("agent")
    /\ datasets' = [datasets EXCEPT ![n] = [d \in Dataset |-> NoState]]
    /\ run' = [run EXCEPT ![n] = IF @.stopping
                                 THEN [FreshRun EXCEPT !.pc = "down", !.stopping = TRUE]
                                 ELSE FreshRun]
    /\ UNCHANGED <<feed, attached, mounted, catalog, server, pinned>>

\* SIGTERM cancels the context of Run.
Terminate(n) ==
    /\ ~run[n].stopping
    /\ Fault("shutdown")
    /\ run' = [run EXCEPT ![n].stopping = TRUE]
    /\ UNCHANGED <<feed, datasets, attached, mounted, catalog, server, pinned>>

\* Run returns, and Shutdown takes a snapshot of the datasets.
StartShutdown(n) ==
    /\ run[n].pc = "fetch" /\ run[n].stopping
    /\ run' = [run EXCEPT ![n].pc = "shutdown",
                          ![n].closing = {d \in Dataset : datasets[n][d].version # 0}]
    /\ UNCHANGED <<feed, datasets, attached, mounted, catalog, server, pinned, faults>>

\* Shutdown takes the next dataset, and is done with it.
TakeDataset(n, d) ==
    run' = [run EXCEPT ![n].pc = "release", ![n].prev = datasets[n][d],
                       ![n].todo = <<[dataset |-> d, version |-> datasets[n][d].version]>>,
                       ![n].closing = @ \ {d}]
LeaveDataset(n) == run' = [run EXCEPT ![n].pc = "shutdown", ![n].todo = << >>]

\* MNT_DETACH succeeds whoever uses the mount, so unmountWithRetry never retries.
ShutdownUnmount(n, d) ==
    /\ run[n].pc = "shutdown" /\ d \in run[n].closing
    /\ mounted' = IF datasets[n][d].mountPath
                  THEN [mounted EXCEPT ![n] = @ \ {<<d, datasets[n][d].version>>}]
                  ELSE mounted
    /\ TakeDataset(n, d)
    /\ UNCHANGED <<feed, datasets, attached, catalog, server, pinned, faults>>

ShutdownDetach(n) ==
    /\ run[n].pc = "release"
    /\ attached' = IF run[n].prev.pv
                   THEN [attached EXCEPT ![CurrentVolume(n)] = None] ELSE attached
    /\ LeaveDataset(n)
    /\ UNCHANGED <<feed, datasets, mounted, catalog, server, pinned, faults>>

\* Errors are logged here too, and the next step is taken.
ShutdownFails(n) ==
    /\ \/ /\ run[n].pc = "shutdown"
          /\ \E d \in run[n].closing : datasets[n][d].mountPath /\ TakeDataset(n, d)
       \/ run[n].pc = "release" /\ run[n].prev.pv /\ LeaveDataset(n)
    /\ Fault("cleanup")
    /\ UNCHANGED <<feed, datasets, attached, mounted, catalog, server, pinned>>

ShutdownDone(n) ==
    /\ run[n].pc = "shutdown" /\ run[n].closing = {}
    /\ Goto(n, "down")
    /\ UNCHANGED <<feed, datasets, attached, mounted, catalog, server, pinned, faults>>

\* A new pod: agent, KV server and the directory of catalog.json are new.
PodStarts(n) ==
    /\ run[n].pc = "down"
    /\ run' = [run EXCEPT ![n] = FreshRun]
    /\ datasets' = [datasets EXCEPT ![n] = [d \in Dataset |-> NoState]]
    /\ catalog' = [catalog EXCEPT ![n] = Empty]
    /\ server' = [server EXCEPT ![n] = FreshServer]
    /\ pinned' = [pinned EXCEPT ![n] = {}]
    /\ UNCHANGED <<feed, attached, mounted, faults>>

-----------------------------------------------------------------------------
(* The KV server: a change of catalog.json makes it open every entry, and    *)
(* then swap; an entry that cannot be opened makes it keep what it has.      *)

ServerOpens(n) ==
    /\ server[n].up /\ server[n].event /\ ~server[n].busy
    /\ server' = IF VolumesOf(catalog[n]) \subseteq mounted[n]
                 THEN [server EXCEPT ![n].event = FALSE, ![n].busy = TRUE,
                                     ![n].loading = catalog[n]]
                 ELSE [server EXCEPT ![n].event = FALSE]
    /\ UNCHANGED <<feed, datasets, run, attached, mounted, catalog, pinned, faults>>

\* Lookups in progress keep the old catalog.
ServerSwaps(n) ==
    /\ server[n].up /\ server[n].busy
    /\ server' = [server EXCEPT ![n].busy = FALSE, ![n].loading = Empty,
                                ![n].served = server[n].loading]
    /\ pinned' = [pinned EXCEPT ![n] = @ \cup VolumesOf(server[n].served)]
    /\ UNCHANGED <<feed, datasets, run, attached, mounted, catalog, faults>>

LookupsEnd(n) ==
    /\ pinned[n] # {}
    /\ pinned' = [pinned EXCEPT ![n] = {}]
    /\ UNCHANGED <<feed, datasets, run, attached, mounted, catalog, server, faults>>

ServerExits(n) ==
    /\ server[n].up
    /\ \/ run[n].stopping /\ UNCHANGED faults
       \/ ~run[n].stopping /\ Fault("server")
    /\ server' = [server EXCEPT ![n] = [FreshServer EXCEPT !.up = FALSE]]
    /\ pinned' = [pinned EXCEPT ![n] = {}]
    /\ UNCHANGED <<feed, datasets, run, attached, mounted, catalog>>

\* The initial load must open every entry, or the process exits again.
ServerStarts(n) ==
    /\ ~server[n].up /\ ~run[n].stopping
    /\ VolumesOf(catalog[n]) \subseteq mounted[n]
    /\ server' = [server EXCEPT ![n] = [FreshServer EXCEPT !.served = catalog[n]]]
    /\ UNCHANGED <<feed, datasets, run, attached, mounted, catalog, pinned, faults>>

-----------------------------------------------------------------------------
Reconcile(n) ==
    \/ FetchAssignments(n)
    \/ ListDone(n)
    \/ StartReconcile(n)
    \/ AttachDisk(n)
    \/ WaitForDevice(n)
    \/ MountClears(n)
    \/ Mount(n)
    \/ WriteCatalog(n)
    \/ WaitForVersion(n)
    \/ CleanupUnmount(n)
    \/ CleanupDetach(n)
    \/ StepHopeless(n)

Shutdown(n) ==
    \/ StartShutdown(n)
    \/ \E d \in Dataset : ShutdownUnmount(n, d)
    \/ ShutdownDetach(n)
    \/ ShutdownDone(n)
    \/ PodStarts(n)

Server(n) ==
    \/ ServerOpens(n)
    \/ ServerSwaps(n)
    \/ ServerStarts(n)
    \/ LookupsEnd(n)

NodeFault(n) ==
    \/ CleanupFails(n)
    \/ ShutdownFails(n)
    \/ StepFails(n)
    \/ AgentCrashes(n)
    \/ Terminate(n)
    \/ ServerExits(n)

Next == \E n \in Node : PublishList(n) \/ Reconcile(n) \/ Shutdown(n) \/ Server(n) \/ NodeFault(n)

Spec == Init /\ [][Next]_vars

\* The agent and the server run; what they wait for happens unless it is a fault.
Fairness == \A n \in Node : WF_vars(Reconcile(n)) /\ WF_vars(Shutdown(n)) /\ WF_vars(Server(n))

FairSpec == Spec /\ Fairness

-----------------------------------------------------------------------------
(* Properties.                                                               *)

\* The agent never takes away the disk of a version that the KV server serves or
\* has opened to serve next: cleanupOldVersion runs only after GET /version
\* confirmed the new one.  It holds without Rollbacks: GET /version also confirms
\* an earlier version that a server busy loading a later one still serves.
ServedBacked ==
    \A n \in Node : ~run[n].stopping =>
        /\ \A vol \in VolumesOf(server[n].served) : attached[vol] = n
        /\ server[n].busy => \A vol \in VolumesOf(server[n].loading) : attached[vol] = n

\* What the agent reports as active is real: attached to this node, mounted, and in
\* catalog.json, so that every later load of the KV server includes it.
ActiveIsReal ==
    \A n \in Node, d \in Dataset :
        ~run[n].stopping /\ datasets[n][d].phase = "active" =>
            /\ attached[<<d, datasets[n][d].version>>] = n
            /\ <<d, datasets[n][d].version>> \in mounted[n]
            /\ catalog[n][d] = datasets[n][d].version

\* As long as no step has failed, a dataset the KV server serves stays served
\* through every reload: each write of catalog.json has all of them.
ServingContinuity ==
    [][\A n \in Node, d \in Dataset :
          faults' = 0 /\ server[n].served[d] # 0 => server'[n].served[d] # 0]_vars

\* The same through failures of steps too.
ServingContinues ==
    [][\A n \in Node, d \in Dataset :
          server[n].up /\ server'[n].up /\ ~run'[n].stopping /\ server[n].served[d] # 0
              => server'[n].served[d] # 0]_vars

\* Between two lists, the node holds no other attachment for an active dataset than
\* that of the active version: cleanupOldVersion leaves nothing behind.
NothingLeaked ==
    \A n \in Node, vol \in Volume :
        /\ run[n].pc = "fetch" /\ ~run[n].stopping
        /\ datasets[n][vol[1]].phase = "active"
        /\ attached[vol] = n
        => datasets[n][vol[1]].version = vol[2]

\* That holds as long as no step has failed.
NoLeakedAttachment == faults = 0 => NothingLeaked

\* Every assignment of the last list is settled in the end: active at its version,
\* served too unless something failed, or in error, only if something failed or
\* the version has no PV.
Converges ==
    \A n \in Node :
        <>[](\A i \in 1 .. Len(feed[n].list) :
                LET a == feed[n].list[i]
                    ds == datasets[n][a.dataset]
                    served == server[n].served[a.dataset] = a.version
                IN  /\ ds.version = a.version
                    /\ \/ ds.phase = "active" /\ (served \/ faults > 0)
                       \/ /\ ds.phase = "error"
                          /\ faults > 0 \/ <<a.dataset, a.version>> \in NoPV)

\* An error is not final: "the next assignment fetch retries".
ErrorRetried ==
    \A n \in Node, d \in Dataset :
        datasets[n][d].phase = "error" ~> datasets[n][d].phase # "error"

\* A lookup in progress on a replaced catalog still has its disk: the lazy unmount
\* "allows the KV server to finish in-flight requests".
LookupBacked ==
    \A n \in Node : ~run[n].stopping => \A vol \in pinned[n] : attached[vol] = n

\* Shutdown waits for the KV server to let go of a disk before it detaches it.
ShutdownWaits ==
    \A n \in Node : run[n].stopping =>
        \A vol \in VolumesOf(server[n].served) : attached[vol] = n

\* A disk that AttachDisk returned for can be used on the node it was called for.
AttachedHere ==
    \A n \in Node : run[n].pc = "mount" => attached[CurrentVolume(n)] = n

=============================================================================
